------------------------- MODULE KeyManagementProofs -------------------------
(***************************************************************************)
(* Proofs about the key manager, for every number of identifiers, kinds,   *)
(* identities, seeds and versions, every word size and both builds.        *)
(*                                                                         *)
(* Every call changes the buckets in one of three ways (KeysStep): not at  *)
(* all, by one insertion, or by flagging the first key of a version.  The  *)
(* lemmas say what each way does to the key a lookup finds.                *)
(*                                                                         *)
(* The last part proves that the key manager implements the key registry.  *)
(* What is visible of a bucket is determined by what lookups find in it;   *)
(* inserting a key adds a visible key or, behind one of its version, none; *)
(* revoking replaces one visible key.                                      *)
(***************************************************************************)
EXTENDS KeyRefinement, SequenceTheorems, WellFoundedInduction, TLAPS

-----------------------------------------------------------------------------
(* Lookups.                                                                *)

\* A non-empty set of naturals has a least element.
LEMMA LeastNat ==
    ASSUME NEW T, T \subseteq Nat, T # {}
    PROVE  \E n \in T : \A m \in T : n <= m
<1> DEFINE R == {ss \in Nat \X Nat : ss[1] < ss[2]}
<1>1. IsWellFoundedOn(R, Nat)
  BY NatLessThanWellFounded, Zenon DEF OpToRel
<1>2. PICK x \in T : \A y \in T : ~(<<y, x>> \in R)
  <2> HIDE DEF R
  <2> QED BY <1>1, WFMin
<1>3. ASSUME NEW y \in T PROVE x <= y
  <2>1. x \in Nat /\ y \in Nat
    OBVIOUS
  <2>2. ~(<<y, x>> \in R)
    BY <1>2
  <2>3. ~(y < x)
    BY <2>1, <2>2
  <2> QED BY <2>1, <2>3
<1> QED BY <1>2, <1>3

\* Iterator::find finds something whenever the version occurs.
LEMMA FirstExists ==
    ASSUME NEW s \in Seq(ManagedKey), NEW v, HasVersion(s, v)
    PROVE  \E i \in 1 .. Len(s) : IsFirst(s, v, i)
<1> DEFINE T == {i \in 1 .. Len(s) : VersionAt(s, i) = v}
<1>1. T \subseteq Nat /\ T # {}
  BY DEF HasVersion
<1>2. PICK i \in T : \A m \in T : i <= m
  <2> HIDE DEF T
  <2> QED BY <1>1, LeastNat
<1>3. IsFirst(s, v, i)
  <2>1. i \in 1 .. Len(s) /\ VersionAt(s, i) = v /\ Len(s) \in Nat
    OBVIOUS
  <2>2. ASSUME NEW j \in 1 .. (i - 1) PROVE VersionAt(s, j) # v
    <3>1. j \in 1 .. Len(s) /\ ~(i <= j)
      BY <2>1
    <3> QED BY <1>2, <3>1
  <2> QED BY <2>1, <2>2 DEF IsFirst
<1> QED BY <1>3

\* The key a lookup returns is the one at the first index.
LEMMA FirstOfIs ==
    ASSUME NEW s \in Seq(ManagedKey), NEW v, NEW i, IsFirst(s, v, i)
    PROVE  HasVersion(s, v) /\ FirstOf(s, v) = s[i]
<1>1. i \in 1 .. Len(s) /\ Len(s) \in Nat /\ HasVersion(s, v)
  BY DEF IsFirst, HasVersion
<1>2. ASSUME NEW j \in 1 .. Len(s), IsFirst(s, v, j) PROVE j = i
  <2>1. ~(j \in 1 .. (i - 1)) /\ ~(i \in 1 .. (j - 1))
    BY <1>2 DEF IsFirst
  <2> QED BY <1>1, <2>1
<1>3. (CHOOSE j \in 1 .. Len(s) : IsFirst(s, v, j)) = i
  BY <1>1, <1>2
<1> QED BY <1>1, <1>3 DEF FirstOf

\* The key found is a key of the bucket and has the version asked for.
LEMMA FoundKey ==
    ASSUME NEW s \in Seq(ManagedKey), NEW v, HasVersion(s, v)
    PROVE  \E i \in 1 .. Len(s) : /\ IsFirst(s, v, i)
                                  /\ FirstOf(s, v) = s[i]
                                  /\ s[i] \in ManagedKey
                                  /\ VersionAt(s, i) = v
<1>1. PICK i \in 1 .. Len(s) : IsFirst(s, v, i)
  BY FirstExists
<1> QED BY <1>1, FirstOfIs DEF IsFirst

-----------------------------------------------------------------------------
(* What the two ways of changing a bucket do to lookups.                   *)

\* Inserting yields a sequence again.
LEMMA InsertType ==
    ASSUME NEW s \in Seq(ManagedKey), NEW p \in 0 .. Len(s), NEW key \in ManagedKey
    PROVE  /\ InsertAt(s, p, key) \in Seq(ManagedKey)
           /\ Len(InsertAt(s, p, key)) = Len(s) + 1
           /\ \A i \in 1 .. (Len(s) + 1) :
                 InsertAt(s, p, key)[i] =
                    IF i <= p THEN s[i] ELSE IF i = p + 1 THEN key ELSE s[i - 1]
<1>1. Len(s) \in Nat /\ \A i \in 1 .. Len(s) : s[i] \in ManagedKey
  OBVIOUS
<1>2. \A i \in 1 .. (Len(s) + 1) :
         (IF i <= p THEN s[i] ELSE IF i = p + 1 THEN key ELSE s[i - 1]) \in ManagedKey
  BY <1>1
<1> QED BY <1>1, <1>2 DEF InsertAt

\* The sorted insertion never changes which key an existing version resolves to.
LEMMA InsertKeepsFirst ==
    ASSUME NEW s \in Seq(ManagedKey), NEW p \in 0 .. Len(s), NEW key \in ManagedKey,
           InsertPoint(s, key.reference.version, p), NEW v, HasVersion(s, v)
    PROVE  /\ HasVersion(InsertAt(s, p, key), v)
           /\ FirstOf(InsertAt(s, p, key), v) = FirstOf(s, v)
<1> DEFINE t == InsertAt(s, p, key)
<1>1. PICK i \in 1 .. Len(s) : IsFirst(s, v, i) /\ FirstOf(s, v) = s[i]
  BY FoundKey
<1>2a. Len(s) \in Nat
  OBVIOUS
<1>2. /\ t \in Seq(ManagedKey)
      /\ Len(t) = Len(s) + 1
      /\ \A k \in 1 .. (Len(s) + 1) :
            t[k] = IF k <= p THEN s[k] ELSE IF k = p + 1 THEN key ELSE s[k - 1]
  BY InsertType, Zenon
<1> USE <1>2a
<1> HIDE DEF t
<1>3. VersionAt(s, i) = v /\ \A j \in 1 .. (i - 1) : VersionAt(s, j) # v
  BY <1>1 DEF IsFirst
<1>4. CASE i <= p
  <2>1. i \in 1 .. Len(t) /\ t[i] = s[i] /\ \A j \in 1 .. (i - 1) : t[j] = s[j]
    BY <1>2, <1>4
  <2>2. IsFirst(t, v, i)
    BY <1>3, <2>1 DEF IsFirst, VersionAt
  <2> QED BY <1>1, <1>2, <2>1, <2>2, FirstOfIs DEF t
<1>5. CASE i > p
  <2>1. VersionAt(s, i) > key.reference.version
    BY <1>5, <1>2 DEF InsertPoint
  <2>2. key.reference.version # v
    <3>1. key.reference.version \in Int
      BY WordAssumption DEF ManagedKey, KeyMaterialRef, U32
    <3> QED BY <1>3, <2>1, <3>1
  <2>3. i + 1 \in 1 .. Len(t) /\ t[i + 1] = s[i]
    BY <1>2, <1>5
  <2>4. ASSUME NEW j \in 1 .. ((i + 1) - 1) PROVE VersionAt(t, j) # v
    <3>1. CASE j <= p
      BY <1>2, <1>3, <1>5, <3>1 DEF VersionAt
    <3>2. CASE j = p + 1
      BY <1>2, <2>2, <3>2 DEF VersionAt
    <3>3. CASE j > p + 1
      <4>1. t[j] = s[j - 1] /\ j - 1 \in 1 .. (i - 1)
        BY <1>2, <3>3
      <4> QED BY <1>3, <4>1 DEF VersionAt
    <3> QED BY <3>1, <3>2, <3>3
  <2>5. IsFirst(t, v, i + 1)
    BY <1>3, <2>3, <2>4 DEF IsFirst, VersionAt
  <2> QED BY <1>1, <1>2, <2>3, <2>5, FirstOfIs DEF t
<1> QED BY <1>4, <1>5, <1>2

\* Flagging a key yields a sequence again.
LEMMA FlagType ==
    ASSUME NEW s \in Seq(ManagedKey), NEW i \in 1 .. Len(s)
    PROVE  /\ Flag(s, i) \in Seq(ManagedKey)
           /\ Len(Flag(s, i)) = Len(s)
           /\ \A j \in 1 .. Len(s) :
                 Flag(s, i)[j] = IF j = i THEN [s[i] EXCEPT !.revoked = TRUE] ELSE s[j]
<1> DEFINE flagged == [s[i] EXCEPT !.revoked = TRUE]
<1>1. flagged \in ManagedKey
  <2>1. s[i] \in ManagedKey
    OBVIOUS
  <2> QED BY <2>1 DEF ManagedKey
<1>2. Flag(s, i) = [s EXCEPT ![i] = flagged]
  BY DEF Flag
<1> HIDE DEF flagged
<1>3. /\ Flag(s, i) \in Seq(ManagedKey)
      /\ Len(Flag(s, i)) = Len(s)
      /\ \A j \in 1 .. Len(s) : Flag(s, i)[j] = IF j = i THEN flagged ELSE s[j]
  BY <1>1, <1>2, ExceptSeq
<1> QED BY <1>3 DEF flagged

\* Flagging the first key of one version leaves every lookup at the same index.
LEMMA RevokeKeepsFirst ==
    ASSUME NEW s \in Seq(ManagedKey), NEW i \in 1 .. Len(s), NEW v, HasVersion(s, v)
    PROVE  /\ HasVersion(Flag(s, i), v)
           /\ \/ FirstOf(Flag(s, i), v) = FirstOf(s, v)
              \/ FirstOf(Flag(s, i), v) = [FirstOf(s, v) EXCEPT !.revoked = TRUE]
<1> DEFINE t == Flag(s, i)
<1>1. PICK k \in 1 .. Len(s) : /\ IsFirst(s, v, k)
                               /\ FirstOf(s, v) = s[k]
                               /\ s[k] \in ManagedKey
  BY FoundKey
<1>3. /\ t \in Seq(ManagedKey)
      /\ Len(t) = Len(s)
      /\ \A j \in 1 .. Len(s) : t[j] = IF j = i THEN [s[i] EXCEPT !.revoked = TRUE] ELSE s[j]
  BY FlagType
<1> HIDE DEF t
<1>4. \A j \in 1 .. Len(s) : t[j] = IF j = i THEN [s[j] EXCEPT !.revoked = TRUE] ELSE s[j]
  BY <1>3, Zenon
<1>5. \A j \in 1 .. Len(s) : VersionAt(t, j) = VersionAt(s, j)
  <2> SUFFICES ASSUME NEW j \in 1 .. Len(s) PROVE VersionAt(t, j) = VersionAt(s, j)
    OBVIOUS
  <2>1. s[j] \in ManagedKey
    OBVIOUS
  <2> QED BY <1>4, <2>1 DEF VersionAt, ManagedKey
<1>6. IsFirst(t, v, k)
  <2>1. k \in 1 .. Len(t) /\ VersionAt(t, k) = v
    BY <1>1, <1>3, <1>5 DEF IsFirst
  <2>2. ASSUME NEW j \in 1 .. (k - 1) PROVE VersionAt(t, j) # v
    <3>1. j \in 1 .. Len(s) /\ VersionAt(s, j) # v
      BY <1>1 DEF IsFirst
    <3> QED BY <1>5, <3>1
  <2> QED BY <2>1, <2>2 DEF IsFirst
<1>7. HasVersion(t, v) /\ FirstOf(t, v) = t[k]
  BY <1>3, <1>6, FirstOfIs
<1> QED BY <1>1, <1>4, <1>7 DEF t

-----------------------------------------------------------------------------
(* Type correctness.                                                       *)

\* Every call leaves the buckets alone, inserts one live key of the identifier
\* at its sorted place, or flags the first key of a version.
Inserts(id, p, key) ==
    /\ InsertPoint(keys[id], key.reference.version, p)
    /\ key.reference.key_id = id
    /\ key.reference.version # 0
    /\ key.material.key_id = id
    /\ key.material.version = key.reference.version
    /\ key.activated_day \in Days
    /\ key.expires_day = AddU32(key.activated_day, rotation_policy.rotate_every_days)
    /\ keys' = [keys EXCEPT ![id] = InsertAt(keys[id], p, key)]
Revokes(id, v, i) ==
    /\ IsFirst(keys[id], v, i)
    /\ keys' = [keys EXCEPT ![id] = Flag(keys[id], i)]
    /\ response'.op = "revoke_key"
KeysStep ==
    \/ keys' = keys
    \/ \E id \in KeyIds : \E p \in 0 .. Len(keys[id]), key \in ManagedKey : Inserts(id, p, key)
    \/ \E id \in KeyIds, v \in U32 : \E i \in 1 .. Len(keys[id]) : Revokes(id, v, i)

\* Sums of u32 values are u32 values in either build.
LEMMA AddType ==
    ASSUME NEW a \in U32, NEW b \in U32
    PROVE  AddU32(a, b) \in U32
BY WordAssumption DEF U32, AddU32

\* The body of generate_key is an insertion or changes no bucket.
LEMMA GenerateStep ==
    ASSUME TypeOK, NEW op \in {"generate_key", "rotate_key"}, NEW id \in KeyIds,
           NEW kind \in Kinds, NEW version \in U32, NEW day \in Days, NEW seed \in Seeds,
           Generate(op, id, kind, version, day, seed)
    PROVE  /\ KeysStep
           /\ UNCHANGED <<rotation_policy, policies>>
           /\ response' \in Responses
<1> DEFINE ref == [key_id |-> id, version |-> version, kind |-> kind]
           key == [reference |-> ref,
                   material |-> derive_key_material(id, kind, version, seed),
                   activated_day |-> day,
                   expires_day |-> AddU32(day, rotation_policy.rotate_every_days),
                   revoked |-> FALSE]
<1>1. ref \in KeyMaterialRef
  BY DEF KeyMaterialRef
<1>2. day \in U32 /\ rotation_policy.rotate_every_days \in U32
  BY DaysAssumption, RotationAssumption DEF TypeOK
<1>3. key \in ManagedKey
  BY <1>1, <1>2, AddType DEF ManagedKey, derive_key_material, Material
<1>4. CASE keys' = keys /\ \E err \in Errors : Failed(op, err)
  BY <1>4 DEF Generate, KeysStep, Failed, Returned, Responses
<1>5. CASE version # 0 /\ Store(op, id, kind, version, day, seed)
  <2>1. PICK p \in 0 .. Len(keys[id]) :
           /\ InsertPoint(keys[id], version, p)
           /\ keys' = [keys EXCEPT ![id] = InsertAt(keys[id], p, key)]
    BY <1>5 DEF Store
  <2>2. Inserts(id, p, key)
    BY <1>5, <2>1 DEF Inserts, derive_key_material
  <2>3. KeysStep
    BY <1>3, <2>2 DEF KeysStep
  <2>4. response' = [op |-> op, result |-> "Ok", value |-> <<ref>>]
    BY <1>5 DEF Store, Returned
  <2>5. response' \in Responses
    BY <1>1, <2>4 DEF Responses
  <2> QED BY <2>3, <2>5 DEF Generate
<1> QED BY <1>4, <1>5 DEF Generate, Errors

\* The state after a bucket step is well typed.
LEMMA KeysStepType ==
    ASSUME TypeOK, KeysStep
    PROVE  keys' \in [KeyIds -> Seq(ManagedKey)]
<1>1. CASE keys' = keys
  BY <1>1 DEF TypeOK
<1>2. ASSUME NEW id \in KeyIds, NEW p \in 0 .. Len(keys[id]), NEW key \in ManagedKey,
             Inserts(id, p, key)
      PROVE  keys' \in [KeyIds -> Seq(ManagedKey)]
  <2>1. keys[id] \in Seq(ManagedKey)
    BY DEF TypeOK
  <2>2. InsertAt(keys[id], p, key) \in Seq(ManagedKey)
    BY <2>1, InsertType
  <2> QED BY <1>2, <2>2 DEF Inserts, TypeOK
<1>3. ASSUME NEW id \in KeyIds, NEW v \in U32, NEW i \in 1 .. Len(keys[id]), Revokes(id, v, i)
      PROVE  keys' \in [KeyIds -> Seq(ManagedKey)]
  <2>1. keys[id] \in Seq(ManagedKey)
    BY DEF TypeOK
  <2>2. Flag(keys[id], i) \in Seq(ManagedKey)
    BY <2>1, FlagType
  <2> QED BY <1>3, <2>2 DEF Revokes, TypeOK
<1> QED BY <1>1, <1>2, <1>3 DEF KeysStep

\* Every step of the specification is a bucket step that keeps the rotation policy
\* and the types.
LEMMA NextStep ==
    ASSUME TypeOK, [Next]_vars
    PROVE  KeysStep /\ rotation_policy' = rotation_policy /\ TypeOK'
<1>1. ASSUME NEW who \in Identities, NEW rule \in AccessRules, add_access_policy(who, rule)
      PROVE  KeysStep /\ rotation_policy' = rotation_policy /\ TypeOK'
  <2>1. keys' = keys /\ rotation_policy' = rotation_policy
    BY <1>1 DEF add_access_policy
  <2>2. policies' \in [Identities -> [allowed_key_ids : SUBSET KeyIds,
                                     allowed_kinds : SUBSET Kinds]]
    BY <1>1, RulesAssumption DEF add_access_policy, TypeOK
  <2>3. response' \in Responses
    BY <1>1 DEF add_access_policy, Returned, Responses
  <2> QED BY <2>1, <2>2, <2>3 DEF TypeOK, KeysStep
<1>2. ASSUME NEW op \in {"generate_key", "rotate_key"}, NEW id \in KeyIds, NEW kind \in Kinds,
             NEW version \in U32, NEW day \in Days, NEW seed \in Seeds,
             Generate(op, id, kind, version, day, seed)
      PROVE  KeysStep /\ rotation_policy' = rotation_policy /\ TypeOK'
  <2>1. KeysStep /\ UNCHANGED <<rotation_policy, policies>> /\ response' \in Responses
    BY <1>2, GenerateStep
  <2> QED BY <2>1, KeysStepType DEF TypeOK
<1>3. ASSUME NEW id \in KeyIds, NEW kind \in Kinds, NEW version \in U32, NEW day \in Days,
             NEW seed \in Seeds, generate_key(id, kind, version, day, seed)
      PROVE  KeysStep /\ rotation_policy' = rotation_policy /\ TypeOK'
  BY <1>2, <1>3 DEF generate_key
<1>4. ASSUME NEW id \in KeyIds, NEW day \in Days, NEW seed \in Seeds, rotate_key(id, day, seed)
      PROVE  KeysStep /\ rotation_policy' = rotation_policy /\ TypeOK'
  <2>1. CASE /\ UNCHANGED <<rotation_policy, keys, policies>>
             /\ \E err \in {"KeyNotFound", "panic"} : Failed("rotate_key", err)
    BY <2>1 DEF KeysStep, TypeOK, Failed, Returned, Responses, Errors
  <2>2. CASE /\ keys[id] # <<>>
             /\ Generate("rotate_key", id, Latest(keys[id]).kind,
                         AddU32(Latest(keys[id]).version, 1), day, seed)
    <3>1. keys[id] \in Seq(ManagedKey) /\ Len(keys[id]) \in 1 .. Len(keys[id])
      BY <2>2, EmptySeq DEF TypeOK
    <3>2. Latest(keys[id]) \in KeyMaterialRef
      <4>1. keys[id][Len(keys[id])] \in ManagedKey
        BY <3>1
      <4> QED BY <4>1 DEF Latest, ManagedKey
    <3>3. Latest(keys[id]).kind \in Kinds /\ AddU32(Latest(keys[id]).version, 1) \in U32
      BY <3>2, WordAssumption, AddType DEF KeyMaterialRef, U32
    <3> QED BY <1>2, <2>2, <3>3
  <2> QED BY <1>4, <2>1, <2>2 DEF rotate_key
<1>5. ASSUME NEW id \in KeyIds, NEW version \in U32, revoke_key(id, version)
      PROVE  KeysStep /\ rotation_policy' = rotation_policy /\ TypeOK'
  <2>1. KeysStep
    BY <1>5 DEF revoke_key, KeysStep, Revokes, Returned
  <2>2. response' \in Responses
    BY <1>5 DEF revoke_key, Returned, Failed, Responses, Errors
  <2> QED BY <1>5, <2>1, <2>2, KeysStepType DEF TypeOK, revoke_key
<1>6. ASSUME NEW who \in Identities, NEW ref \in KeyMaterialRef, NEW day \in Days,
             retrieve_key(who, ref, day)
      PROVE  KeysStep /\ rotation_policy' = rotation_policy /\ TypeOK'
  <2>1. CASE RetrieveOutcome(who, ref, day) = "Ok"
    <3>1. HasVersion(keys[ref.key_id], ref.version)
      BY <2>1 DEF RetrieveOutcome
    <3>2. keys[ref.key_id] \in Seq(ManagedKey)
      BY DEF TypeOK, KeyMaterialRef
    <3>3. FirstOf(keys[ref.key_id], ref.version) \in ManagedKey
      BY <3>1, <3>2, FoundKey
    <3>4. FirstOf(keys[ref.key_id], ref.version).material \in Material
      BY <3>3 DEF ManagedKey
    <3>5. response' \in Responses
      BY <1>6, <2>1, <3>4 DEF retrieve_key, Returned, Responses
    <3> QED BY <1>6, <3>5 DEF retrieve_key, TypeOK, KeysStep
  <2>2. CASE RetrieveOutcome(who, ref, day) # "Ok"
    <3>1. RetrieveOutcome(who, ref, day) \in Errors
      BY <2>2 DEF RetrieveOutcome, Errors
    <3>2. response' \in Responses
      BY <1>6, <2>2, <3>1 DEF retrieve_key, Failed, Returned, Responses
    <3> QED BY <1>6, <3>2 DEF retrieve_key, TypeOK, KeysStep
  <2> QED BY <2>1, <2>2
<1>7. CASE UNCHANGED vars
  BY <1>7 DEF vars, TypeOK, KeysStep
<1> QED BY <1>1, <1>3, <1>4, <1>5, <1>6, <1>7 DEF Next

\* Type correctness of the key manager.
THEOREM TypeCorrect == Spec => []TypeOK
<1>1. Init => TypeOK
  <2> SUFFICES ASSUME Init PROVE TypeOK
    OBVIOUS
  <2>1. keys \in [KeyIds -> Seq(ManagedKey)]
    BY EmptySeq DEF Init
  <2> QED BY <2>1 DEF Init, TypeOK, Responses
<1>2. TypeOK /\ [Next]_vars => TypeOK'
  BY NextStep
<1> QED BY <1>1, <1>2, PTL DEF Spec

-----------------------------------------------------------------------------
(* The buckets stay sorted.                                                *)

\* What BucketsOrdered says of one bucket.
Ordered(s, id) ==
    /\ \A i, j \in 1 .. Len(s) : i <= j => VersionAt(s, i) <= VersionAt(s, j)
    /\ \A i \in 1 .. Len(s) : s[i].reference.key_id = id /\ VersionAt(s, i) > 0

\* Versions are integers.
LEMMA VersionType ==
    ASSUME NEW s \in Seq(ManagedKey), NEW i \in 1 .. Len(s)
    PROVE  VersionAt(s, i) \in Nat
<1>1. s[i] \in ManagedKey
  OBVIOUS
<1> QED BY <1>1, WordAssumption DEF VersionAt, ManagedKey, KeyMaterialRef, U32

\* Inserting at the sorted place keeps a bucket sorted.
LEMMA InsertKeepsOrder ==
    ASSUME NEW id, NEW s \in Seq(ManagedKey), NEW p \in 0 .. Len(s), NEW key \in ManagedKey,
           Ordered(s, id), InsertPoint(s, key.reference.version, p),
           key.reference.key_id = id, key.reference.version # 0
    PROVE  Ordered(InsertAt(s, p, key), id)
<1> DEFINE t == InsertAt(s, p, key)
           w == key.reference.version
<1>1. Len(s) \in Nat /\ w \in Nat
  BY WordAssumption DEF ManagedKey, KeyMaterialRef, U32
<1>2. /\ Len(t) = Len(s) + 1
      /\ \A k \in 1 .. (Len(s) + 1) :
            t[k] = IF k <= p THEN s[k] ELSE IF k = p + 1 THEN key ELSE s[k - 1]
  BY InsertType, Zenon
<1>3. /\ \A i \in 1 .. Len(s) : VersionAt(s, i) \in Nat
      /\ \A i \in 1 .. p : VersionAt(s, i) <= w
      /\ \A i \in (p + 1) .. Len(s) : VersionAt(s, i) > w
  BY VersionType DEF InsertPoint
<1> HIDE DEF t
<1>4. \A k \in 1 .. (Len(s) + 1) :
        VersionAt(t, k) = IF k <= p THEN VersionAt(s, k)
                          ELSE IF k = p + 1 THEN w ELSE VersionAt(s, k - 1)
  BY <1>1, <1>2 DEF VersionAt
<1>5. \A i, j \in 1 .. (Len(s) + 1) : i <= j => VersionAt(t, i) <= VersionAt(t, j)
  <2> HIDE DEF w
  <2> SUFFICES ASSUME NEW i \in 1 .. (Len(s) + 1), NEW j \in 1 .. (Len(s) + 1), i <= j
               PROVE  VersionAt(t, i) <= VersionAt(t, j)
    OBVIOUS
  <2>1. \A m, n \in 1 .. Len(s) : m <= n => VersionAt(s, m) <= VersionAt(s, n)
    BY DEF Ordered
  <2>2. CASE j <= p
    BY <1>1, <1>4, <2>1, <2>2
  <2>3. CASE i <= p /\ j = p + 1
    BY <1>1, <1>3, <1>4, <2>3
  <2>4. CASE i <= p /\ j > p + 1
    BY <1>1, <1>4, <2>1, <2>4
  <2>5. CASE i = p + 1 /\ j = p + 1
    BY <1>1, <1>4, <2>5
  <2>6. CASE i = p + 1 /\ j > p + 1
    BY <1>1, <1>3, <1>4, <2>6
  <2>7. CASE i > p + 1
    <3>1. i - 1 \in 1 .. Len(s) /\ j - 1 \in 1 .. Len(s) /\ i - 1 <= j - 1
      BY <1>1, <2>7
    <3>2. VersionAt(t, i) = VersionAt(s, i - 1) /\ VersionAt(t, j) = VersionAt(s, j - 1)
      BY <1>1, <1>4, <2>7
    <3>3. VersionAt(s, i - 1) <= VersionAt(s, j - 1)
      BY <2>1, <3>1
    <3> QED BY <3>2, <3>3
  <2> QED BY <1>1, <2>2, <2>3, <2>4, <2>5, <2>6, <2>7
<1>6. \A i \in 1 .. (Len(s) + 1) : t[i].reference.key_id = id /\ VersionAt(t, i) > 0
  <2>1. \A i \in 1 .. Len(s) : s[i].reference.key_id = id /\ VersionAt(s, i) > 0
    BY DEF Ordered
  <2> SUFFICES ASSUME NEW i \in 1 .. (Len(s) + 1)
               PROVE  t[i].reference.key_id = id /\ VersionAt(t, i) > 0
    OBVIOUS
  <2>2. CASE i <= p
    <3>1. i \in 1 .. Len(s) /\ t[i] = s[i]
      BY <1>1, <1>2, <2>2
    <3> QED BY <2>1, <3>1 DEF VersionAt
  <2>3. CASE i = p + 1
    <3>1. t[i] = key
      BY <1>1, <1>2, <2>3
    <3> QED BY <1>1, <3>1 DEF VersionAt
  <2>4. CASE i > p + 1
    <3>1. i - 1 \in 1 .. Len(s) /\ t[i] = s[i - 1]
      BY <1>1, <1>2, <2>4
    <3> QED BY <2>1, <3>1 DEF VersionAt
  <2> QED BY <1>1, <2>2, <2>3, <2>4
<1> QED BY <1>2, <1>5, <1>6 DEF Ordered, t

\* Revoking keeps a bucket sorted.
LEMMA FlagKeepsOrder ==
    ASSUME NEW id, NEW s \in Seq(ManagedKey), NEW i \in 1 .. Len(s), Ordered(s, id)
    PROVE  Ordered(Flag(s, i), id)
<1> DEFINE t == Flag(s, i)
<1>1. Len(t) = Len(s)
  BY FlagType
<1>2. \A j \in 1 .. Len(s) : t[j].reference = s[j].reference
  <2> SUFFICES ASSUME NEW j \in 1 .. Len(s) PROVE t[j].reference = s[j].reference
    OBVIOUS
  <2>1. t[j] = IF j = i THEN [s[i] EXCEPT !.revoked = TRUE] ELSE s[j]
    BY FlagType
  <2>2. s[i] \in ManagedKey
    OBVIOUS
  <2> HIDE DEF t
  <2> QED BY <2>1, <2>2 DEF ManagedKey
<1> HIDE DEF t
<1> QED BY <1>1, <1>2 DEF Ordered, VersionAt, t

\* A step keeps every bucket sorted.
LEMMA OrderStep ==
    ASSUME TypeOK, BucketsOrdered, KeysStep
    PROVE  BucketsOrdered'
<1>0. BucketsOrdered <=> \A id \in KeyIds : Ordered(keys[id], id)
  BY DEF BucketsOrdered, Ordered
<1>1. BucketsOrdered' <=> \A id \in KeyIds : Ordered(keys'[id], id)
  BY DEF BucketsOrdered, Ordered, VersionAt
<1>2. CASE keys' = keys
  BY <1>0, <1>1, <1>2
<1>3. ASSUME NEW id \in KeyIds, NEW p \in 0 .. Len(keys[id]), NEW key \in ManagedKey,
             Inserts(id, p, key)
      PROVE  BucketsOrdered'
  <2>1. keys[id] \in Seq(ManagedKey) /\ Ordered(keys[id], id)
    BY <1>0 DEF TypeOK
  <2>2. Ordered(InsertAt(keys[id], p, key), id)
    BY <1>3, <2>1, InsertKeepsOrder DEF Inserts
  <2>3. \A other \in KeyIds :
           keys'[other] = IF other = id THEN InsertAt(keys[id], p, key) ELSE keys[other]
    BY <1>3 DEF Inserts, TypeOK
  <2> QED BY <1>0, <1>1, <2>2, <2>3
<1>4. ASSUME NEW id \in KeyIds, NEW v \in U32, NEW i \in 1 .. Len(keys[id]), Revokes(id, v, i)
      PROVE  BucketsOrdered'
  <2>1. keys[id] \in Seq(ManagedKey) /\ Ordered(keys[id], id)
    BY <1>0 DEF TypeOK
  <2>2. Ordered(Flag(keys[id], i), id)
    BY <2>1, FlagKeepsOrder
  <2>3. \A other \in KeyIds :
           keys'[other] = IF other = id THEN Flag(keys[id], i) ELSE keys[other]
    BY <1>4 DEF Revokes, TypeOK
  <2> QED BY <1>0, <1>1, <2>2, <2>3
<1> QED BY <1>2, <1>3, <1>4 DEF KeysStep

\* Buckets are always sorted, hold only their own identifier and no version 0.
THEOREM BucketsAreOrdered == Spec => []BucketsOrdered
<1>1. Init => BucketsOrdered
  <2> SUFFICES ASSUME Init, NEW id \in KeyIds
               PROVE  /\ \A i, j \in 1 .. Len(keys[id]) :
                            i <= j => VersionAt(keys[id], i) <= VersionAt(keys[id], j)
                      /\ \A i \in 1 .. Len(keys[id]) :
                            keys[id][i].reference.key_id = id /\ VersionAt(keys[id], i) > 0
    BY DEF BucketsOrdered
  <2>1. keys[id] = <<>>
    BY DEF Init
  <2>2. 1 .. Len(keys[id]) = {}
    BY <2>1
  <2> QED BY <2>2
<1>2. TypeOK /\ BucketsOrdered /\ [Next]_vars => BucketsOrdered'
  BY NextStep, OrderStep
<1> QED BY <1>1, <1>2, TypeCorrect, PTL DEF Spec

-----------------------------------------------------------------------------
(* Lookups across steps.                                                   *)

\* No step makes a version disappear, and none changes the key it resolves to
\* other than by revoking it.
LEMMA LookupStep ==
    ASSUME TypeOK, KeysStep, NEW id \in KeyIds, NEW v, HasVersion(keys[id], v)
    PROVE  /\ HasVersion(keys'[id], v)
           /\ \/ FirstOf(keys'[id], v) = FirstOf(keys[id], v)
              \/ /\ FirstOf(keys'[id], v) = [FirstOf(keys[id], v) EXCEPT !.revoked = TRUE]
                 /\ response'.op = "revoke_key"
<1>1. CASE keys' = keys
  BY <1>1
<1>2. ASSUME NEW it \in KeyIds, NEW p \in 0 .. Len(keys[it]), NEW key \in ManagedKey,
             Inserts(it, p, key)
      PROVE  HasVersion(keys'[id], v) /\ FirstOf(keys'[id], v) = FirstOf(keys[id], v)
  <2>1. CASE id = it
    <3>1. keys[id] \in Seq(ManagedKey) /\ keys'[id] = InsertAt(keys[id], p, key)
      BY <1>2, <2>1 DEF Inserts, TypeOK
    <3> QED BY <1>2, <2>1, <3>1, InsertKeepsFirst DEF Inserts
  <2>2. CASE id # it
    <3>1. keys'[id] = keys[id]
      BY <1>2, <2>2 DEF Inserts, TypeOK
    <3> QED BY <3>1
  <2> QED BY <2>1, <2>2
<1>3. ASSUME NEW it \in KeyIds, NEW u \in U32, NEW i \in 1 .. Len(keys[it]), Revokes(it, u, i)
      PROVE  /\ HasVersion(keys'[id], v)
             /\ \/ FirstOf(keys'[id], v) = FirstOf(keys[id], v)
                \/ FirstOf(keys'[id], v) = [FirstOf(keys[id], v) EXCEPT !.revoked = TRUE]
             /\ response'.op = "revoke_key"
  <2>1. CASE id = it
    <3>1. keys[id] \in Seq(ManagedKey) /\ keys'[id] = Flag(keys[id], i)
      BY <1>3, <2>1 DEF Revokes, TypeOK
    <3>2. i \in 1 .. Len(keys[id]) /\ response'.op = "revoke_key"
      BY <1>3, <2>1 DEF Revokes
    <3>3. /\ HasVersion(Flag(keys[id], i), v)
          /\ \/ FirstOf(Flag(keys[id], i), v) = FirstOf(keys[id], v)
             \/ FirstOf(Flag(keys[id], i), v) = [FirstOf(keys[id], v) EXCEPT !.revoked = TRUE]
      BY <3>1, <3>2, RevokeKeepsFirst, Zenon
    <3> QED BY <3>1, <3>2, <3>3
  <2>2. CASE id # it
    <3>1. keys'[id] = keys[id]
      BY <1>3, <2>2 DEF Revokes, TypeOK
    <3> QED BY <1>3, <3>1 DEF Revokes
  <2> QED BY <2>1, <2>2
<1> QED BY <1>1, <1>2, <1>3 DEF KeysStep

\* A version that is revoked stays revoked for good, whatever is generated later.
THEOREM RevokedStaysRevoked == Spec => RevocationIsPermanent
<1>1. TypeOK /\ [Next]_vars =>
        [\A id \in KeyIds, v \in U32 :
           HasVersion(keys[id], v) /\ FirstOf(keys[id], v).revoked
           => HasVersion(keys'[id], v) /\ FirstOf(keys'[id], v).revoked]_vars
  <2> SUFFICES ASSUME TypeOK, [Next]_vars, NEW id \in KeyIds, NEW v \in U32,
                      HasVersion(keys[id], v), FirstOf(keys[id], v).revoked
               PROVE  HasVersion(keys'[id], v) /\ FirstOf(keys'[id], v).revoked
    OBVIOUS
  <2>1. FirstOf(keys[id], v) \in ManagedKey
    <3>1. keys[id] \in Seq(ManagedKey)
      BY DEF TypeOK
    <3> QED BY <3>1, FoundKey
  <2>2. KeysStep
    BY NextStep
  <2>3. /\ HasVersion(keys'[id], v)
        /\ \/ FirstOf(keys'[id], v) = FirstOf(keys[id], v)
           \/ FirstOf(keys'[id], v) = [FirstOf(keys[id], v) EXCEPT !.revoked = TRUE]
    BY <2>2, LookupStep
  <2> QED BY <2>1, <2>3 DEF ManagedKey
<1> QED BY <1>1, TypeCorrect, PTL DEF Spec, RevocationIsPermanent

-----------------------------------------------------------------------------
(* Service.                                                                *)

\* Only add_access_policy changes a policy.
LEMMA PolicyStep ==
    ASSUME [Next]_vars
    PROVE  policies' = policies \/ response'.op = "add_access_policy"
BY DEF Next, vars, add_access_policy, generate_key, Generate, rotate_key, revoke_key,
       retrieve_key, Returned

\* What can be retrieved stays retrievable, with the same material, until a key is
\* revoked or a policy replaced.
THEOREM ServiceStaysStable == Spec => ServiceIsStable
<1>1. TypeOK /\ [Next]_vars =>
        [\A who \in Identities, ref \in KeyMaterialRef, day \in Days :
           RetrieveOutcome(who, ref, day) = "Ok"
           => \/ response'.op \in {"revoke_key", "add_access_policy"}
              \/ /\ RetrieveOutcome(who, ref, day)' = "Ok"
                 /\ FirstOf(keys'[ref.key_id], ref.version).material
                      = FirstOf(keys[ref.key_id], ref.version).material]_vars
  <2> SUFFICES ASSUME TypeOK, [Next]_vars,
                      NEW who \in Identities, NEW ref \in KeyMaterialRef, NEW day \in Days,
                      RetrieveOutcome(who, ref, day) = "Ok",
                      response'.op \notin {"revoke_key", "add_access_policy"}
               PROVE  /\ RetrieveOutcome(who, ref, day)' = "Ok"
                      /\ FirstOf(keys'[ref.key_id], ref.version).material
                           = FirstOf(keys[ref.key_id], ref.version).material
    OBVIOUS
  <2>1. ref.key_id \in KeyIds /\ HasVersion(keys[ref.key_id], ref.version)
    BY DEF RetrieveOutcome, KeyMaterialRef
  <2>2. KeysStep /\ rotation_policy' = rotation_policy /\ policies' = policies
    BY NextStep, PolicyStep
  <2>3. /\ HasVersion(keys'[ref.key_id], ref.version)
        /\ FirstOf(keys'[ref.key_id], ref.version) = FirstOf(keys[ref.key_id], ref.version)
    BY <2>1, <2>2, LookupStep
  <2>4. RetrieveOutcome(who, ref, day)' = "Ok"
    BY <2>1, <2>2, <2>3 DEF RetrieveOutcome, Authorized, Expired
  <2> QED BY <2>3, <2>4
<1> QED BY <1>1, TypeCorrect, PTL DEF Spec, ServiceIsStable

\* The expiries of a bucket were computed from the period days.
ExpirySet(s, days) ==
    \A i \in 1 .. Len(s) : s[i].expires_day = AddU32(s[i].activated_day, days)
ExpiriesSet == \A id \in KeyIds : ExpirySet(keys[id], rotation_policy.rotate_every_days)

\* Inserting a key with its expiry set keeps the expiries of a bucket set.
LEMMA InsertKeepsExpiry ==
    ASSUME NEW s \in Seq(ManagedKey), NEW p \in 0 .. Len(s), NEW key \in ManagedKey, NEW days,
           ExpirySet(s, days), key.expires_day = AddU32(key.activated_day, days)
    PROVE  ExpirySet(InsertAt(s, p, key), days)
<1> DEFINE t == InsertAt(s, p, key)
<1>1. Len(s) \in Nat
  OBVIOUS
<1>2. /\ Len(t) = Len(s) + 1
      /\ \A k \in 1 .. (Len(s) + 1) :
            t[k] = IF k <= p THEN s[k] ELSE IF k = p + 1 THEN key ELSE s[k - 1]
  BY InsertType, Zenon
<1> HIDE DEF t
<1>3. ASSUME NEW k \in 1 .. (Len(s) + 1)
      PROVE  t[k].expires_day = AddU32(t[k].activated_day, days)
  <2>1. CASE k <= p
    <3>1. k \in 1 .. Len(s) /\ t[k] = s[k]
      BY <1>1, <1>2, <2>1
    <3> QED BY <3>1 DEF ExpirySet
  <2>2. CASE k = p + 1
    <3>1. t[k] = key
      BY <1>1, <1>2, <2>2
    <3> QED BY <3>1
  <2>3. CASE k > p + 1
    <3>1. k - 1 \in 1 .. Len(s) /\ t[k] = s[k - 1]
      BY <1>1, <1>2, <2>3
    <3> QED BY <3>1 DEF ExpirySet
  <2> QED BY <1>1, <2>1, <2>2, <2>3
<1>4. ExpirySet(t, days)
  BY <1>2, <1>3 DEF ExpirySet
<1> QED BY <1>4 DEF t

\* Revoking a key leaves its expiry alone.
LEMMA FlagKeepsExpiry ==
    ASSUME NEW s \in Seq(ManagedKey), NEW i \in 1 .. Len(s), NEW days, ExpirySet(s, days)
    PROVE  ExpirySet(Flag(s, i), days)
<1> DEFINE t == Flag(s, i)
<1>1. Len(t) = Len(s)
  BY FlagType
<1>2. ASSUME NEW j \in 1 .. Len(s)
      PROVE  t[j].expires_day = s[j].expires_day /\ t[j].activated_day = s[j].activated_day
  <2>1. t[j] = IF j = i THEN [s[i] EXCEPT !.revoked = TRUE] ELSE s[j]
    BY FlagType
  <2>2. s[i] \in ManagedKey
    OBVIOUS
  <2> HIDE DEF t
  <2> QED BY <2>1, <2>2 DEF ManagedKey
<1> HIDE DEF t
<1>3. ExpirySet(t, days)
  BY <1>1, <1>2 DEF ExpirySet
<1> QED BY <1>3 DEF t

\* Every key expires one rotation period after it was activated, as u32 sums go.
LEMMA ExpiryStep ==
    ASSUME TypeOK, ExpiriesSet, KeysStep, rotation_policy' = rotation_policy
    PROVE  ExpiriesSet'
<1> DEFINE days == rotation_policy.rotate_every_days
<1>0. /\ ExpiriesSet <=> \A id \in KeyIds : ExpirySet(keys[id], days)
      /\ ExpiriesSet' <=> \A id \in KeyIds : ExpirySet(keys'[id], days)
  BY DEF ExpiriesSet, ExpirySet, AddU32
<1> HIDE DEF days
<1>1. CASE keys' = keys
  BY <1>0, <1>1
<1>2. ASSUME NEW id \in KeyIds, NEW p \in 0 .. Len(keys[id]), NEW key \in ManagedKey,
             Inserts(id, p, key)
      PROVE  ExpiriesSet'
  <2>1. keys[id] \in Seq(ManagedKey) /\ ExpirySet(keys[id], days)
    BY <1>0 DEF TypeOK
  <2>2. key.expires_day = AddU32(key.activated_day, days)
    BY <1>2 DEF Inserts, days
  <2>3. ExpirySet(InsertAt(keys[id], p, key), days)
    BY <2>1, <2>2, InsertKeepsExpiry
  <2>4. \A other \in KeyIds :
           keys'[other] = IF other = id THEN InsertAt(keys[id], p, key) ELSE keys[other]
    BY <1>2 DEF Inserts, TypeOK
  <2> QED BY <1>0, <2>3, <2>4
<1>3. ASSUME NEW id \in KeyIds, NEW v \in U32, NEW i \in 1 .. Len(keys[id]), Revokes(id, v, i)
      PROVE  ExpiriesSet'
  <2>1. keys[id] \in Seq(ManagedKey) /\ ExpirySet(keys[id], days)
    BY <1>0 DEF TypeOK
  <2>2. ExpirySet(Flag(keys[id], i), days)
    BY <2>1, FlagKeepsExpiry
  <2>3. \A other \in KeyIds :
           keys'[other] = IF other = id THEN Flag(keys[id], i) ELSE keys[other]
    BY <1>3 DEF Revokes, TypeOK
  <2> QED BY <1>0, <2>2, <2>3
<1> QED BY <1>1, <1>2, <1>3 DEF KeysStep

\* The key a lookup finds has its expiry set.
LEMMA FoundExpiry ==
    ASSUME TypeOK, ExpiriesSet, NEW id \in KeyIds, NEW v, HasVersion(keys[id], v)
    PROVE  LET key == FirstOf(keys[id], v)
           IN  /\ key \in ManagedKey
               /\ key.expires_day
                    = AddU32(key.activated_day, rotation_policy.rotate_every_days)
<1>1. keys[id] \in Seq(ManagedKey)
  BY DEF TypeOK
<1>2. PICK i \in 1 .. Len(keys[id]) : /\ FirstOf(keys[id], v) = keys[id][i]
                                      /\ keys[id][i] \in ManagedKey
  BY <1>1, FoundKey
<1> QED BY <1>2 DEF ExpiriesSet, ExpirySet

\* The invariant behind both sides of the retrieval window.
LEMMA ExpiriesAreSet == Spec => [](TypeOK /\ ExpiriesSet)
<1>1. Init => ExpiriesSet
  <2> SUFFICES ASSUME Init, NEW id \in KeyIds
               PROVE  ExpirySet(keys[id], rotation_policy.rotate_every_days)
    BY DEF ExpiriesSet
  <2>1. 1 .. Len(keys[id]) = {}
    BY DEF Init
  <2> QED BY <2>1 DEF ExpirySet
<1>2. TypeOK /\ ExpiriesSet /\ [Next]_vars => ExpiriesSet'
  BY NextStep, ExpiryStep
<1> QED BY <1>1, <1>2, TypeCorrect, PTL DEF Spec

\* No key is served after activation, period and overlap counted in integers.
THEOREM NotServedLate == Spec => []NeverServedLate
<1>1. TypeOK /\ ExpiriesSet => NeverServedLate
  <2> SUFFICES ASSUME TypeOK, ExpiriesSet, NEW who \in Identities, NEW ref \in KeyMaterialRef,
                      NEW day \in Days, RetrieveOutcome(who, ref, day) = "Ok"
               PROVE  LET key == FirstOf(keys[ref.key_id], ref.version)
                      IN  /\ ~key.revoked
                          /\ day <= key.activated_day + rotation_policy.rotate_every_days
                                     + rotation_policy.overlap_days
    BY DEF NeverServedLate
  <2> DEFINE key == FirstOf(keys[ref.key_id], ref.version)
             r == rotation_policy.rotate_every_days
             o == rotation_policy.overlap_days
  <2>1. ref.key_id \in KeyIds /\ HasVersion(keys[ref.key_id], ref.version)
    BY DEF RetrieveOutcome, KeyMaterialRef
  <2>2. key \in ManagedKey /\ key.expires_day = AddU32(key.activated_day, r)
    BY <2>1, FoundExpiry
  <2>3. ~key.revoked /\ ~(day > AddU32(key.expires_day, o))
    BY DEF RetrieveOutcome, Expired
  <2>4. r \in Nat /\ o \in Nat /\ day \in Nat /\ key.activated_day \in Nat /\ Word \in Nat
    BY <2>2, WordAssumption, RotationAssumption, DaysAssumption DEF TypeOK, U32, ManagedKey
  <2> HIDE DEF key, r, o
  <2>5. day <= key.activated_day + r + o
    BY <2>2, <2>3, <2>4 DEF AddU32
  <2> QED BY <2>3, <2>5 DEF key, r, o
<1> QED BY <1>1, ExpiriesAreSet, PTL

\* An authorised caller is served every unrevoked key until then, while that day
\* fits in a u32.
THEOREM ServedUntilThen == Spec => []ServedThroughWindow
<1>1. TypeOK /\ ExpiriesSet => ServedThroughWindow
  <2> SUFFICES ASSUME TypeOK, ExpiriesSet, NEW who \in Identities, NEW ref \in KeyMaterialRef,
                      NEW day \in Days,
                      Authorized(who, ref),
                      HasVersion(keys[ref.key_id], ref.version),
                      ~FirstOf(keys[ref.key_id], ref.version).revoked,
                      FirstOf(keys[ref.key_id], ref.version).activated_day
                        + rotation_policy.rotate_every_days
                        + rotation_policy.overlap_days < Word,
                      day <= FirstOf(keys[ref.key_id], ref.version).activated_day
                               + rotation_policy.rotate_every_days
                               + rotation_policy.overlap_days
               PROVE  RetrieveOutcome(who, ref, day) = "Ok"
    BY DEF ServedThroughWindow
  <2> DEFINE key == FirstOf(keys[ref.key_id], ref.version)
             r == rotation_policy.rotate_every_days
             o == rotation_policy.overlap_days
  <2>1. ref.key_id \in KeyIds
    BY DEF KeyMaterialRef
  <2>2. key \in ManagedKey /\ key.expires_day = AddU32(key.activated_day, r)
    BY <2>1, FoundExpiry
  <2>3. r \in Nat /\ o \in Nat /\ day \in Nat /\ key.activated_day \in Nat /\ Word \in Nat
    BY <2>2, WordAssumption, RotationAssumption, DaysAssumption DEF TypeOK, U32, ManagedKey
  <2>4. key.activated_day + r + o < Word /\ day <= key.activated_day + r + o
    OBVIOUS
  <2>5. ~AddPanics(key.expires_day, o) /\ ~(day > AddU32(key.expires_day, o))
    <3> HIDE DEF key, r, o
    <3> QED BY <2>2, <2>3, <2>4 DEF AddU32, AddPanics
  <2> QED BY <2>5 DEF RetrieveOutcome, Expired
<1> QED BY <1>1, ExpiriesAreSet, PTL

-----------------------------------------------------------------------------
(* Rotation.                                                               *)

\* A key inserted with a version above all others is what that version resolves to.
LEMMA InsertNewest ==
    ASSUME NEW s \in Seq(ManagedKey), NEW p \in 0 .. Len(s), NEW key \in ManagedKey,
           InsertPoint(s, key.reference.version, p),
           \A i \in 1 .. Len(s) : VersionAt(s, i) < key.reference.version
    PROVE  FirstOf(InsertAt(s, p, key), key.reference.version) = key
<1> DEFINE t == InsertAt(s, p, key)
           w == key.reference.version
<1>1. Len(s) \in Nat /\ \A i \in 1 .. Len(s) : VersionAt(s, i) \in Nat /\ VersionAt(s, i) < w
  BY VersionType
<1>2. /\ t \in Seq(ManagedKey)
      /\ Len(t) = Len(s) + 1
      /\ \A k \in 1 .. (Len(s) + 1) :
            t[k] = IF k <= p THEN s[k] ELSE IF k = p + 1 THEN key ELSE s[k - 1]
  BY InsertType, Zenon
<1>3. w \in Nat
  BY WordAssumption DEF ManagedKey, KeyMaterialRef, U32
<1> HIDE DEF t
<1>4. p + 1 \in 1 .. Len(t) /\ t[p + 1] = key
  BY <1>1, <1>2
<1>5. ASSUME NEW k \in 1 .. p PROVE VersionAt(t, k) # w
  <2>1. k \in 1 .. Len(s) /\ t[k] = s[k]
    BY <1>1, <1>2
  <2>2. VersionAt(s, k) < w /\ VersionAt(s, k) \in Nat
    BY <1>1, <2>1
  <2> HIDE DEF w
  <2> QED BY <1>3, <2>1, <2>2 DEF VersionAt
<1>6. IsFirst(t, w, p + 1)
  BY <1>4, <1>5 DEF IsFirst, VersionAt
<1>7. FirstOf(t, w) = t[p + 1]
  BY <1>2, <1>6, FirstOfIs
<1> QED BY <1>4, <1>7 DEF t

\* Only rotate_key answers as rotate_key.
LEMMA RotationByRotateKey ==
    ASSUME Next, response'.op = "rotate_key"
    PROVE  \E id \in KeyIds, day \in Days, seed \in Seeds : rotate_key(id, day, seed)
<1>1. ASSUME NEW who, NEW rule PROVE ~add_access_policy(who, rule)
  BY DEF add_access_policy, Returned
<1>2. ASSUME NEW id, NEW kind, NEW version, NEW day, NEW seed
      PROVE  ~generate_key(id, kind, version, day, seed)
  BY DEF generate_key, Generate, Store, Returned, Failed
<1>3. ASSUME NEW id, NEW version PROVE ~revoke_key(id, version)
  BY DEF revoke_key, Returned, Failed
<1>4. ASSUME NEW who, NEW ref, NEW day PROVE ~retrieve_key(who, ref, day)
  BY DEF retrieve_key, Returned, Failed
<1> QED BY <1>1, <1>2, <1>3, <1>4 DEF Next

\* rotate_key issues a version above every other of its identifier, and lookups of
\* that version find the key it made.
THEOREM RotationIssuesFreshVersions == Spec => RotationIsFresh
<1>1. TypeOK /\ BucketsOrdered /\ [Next]_vars =>
        [response'.op = "rotate_key" /\ response'.result = "Ok"
         => LET ref == response'.value[1]
            IN  /\ \A i \in 1 .. Len(keys[ref.key_id]) :
                      VersionAt(keys[ref.key_id], i) < ref.version
                /\ FirstOf(keys'[ref.key_id], ref.version).reference = ref]_vars
  <2> SUFFICES ASSUME TypeOK, BucketsOrdered, Next,
                      response'.op = "rotate_key", response'.result = "Ok"
               PROVE  LET ref == response'.value[1]
                      IN  /\ \A i \in 1 .. Len(keys[ref.key_id]) :
                                VersionAt(keys[ref.key_id], i) < ref.version
                          /\ FirstOf(keys'[ref.key_id], ref.version).reference = ref
    OBVIOUS
  <2>1. PICK id \in KeyIds, day \in Days, seed \in Seeds : rotate_key(id, day, seed)
    BY RotationByRotateKey
  <2> DEFINE s == keys[id]
             last == Latest(s)
             version == AddU32(last.version, 1)
             ref == [key_id |-> id, version |-> version, kind |-> last.kind]
             key == [reference |-> ref,
                     material |-> derive_key_material(id, last.kind, version, seed),
                     activated_day |-> day,
                     expires_day |-> AddU32(day, rotation_policy.rotate_every_days),
                     revoked |-> FALSE]
  <2>2. s # <<>> /\ version # 0 /\ Store("rotate_key", id, last.kind, version, day, seed)
    BY <2>1 DEF rotate_key, Generate, Returned, Failed
  <2>3. response'.value[1] = ref
    BY <2>2 DEF Store, Returned
  <2>4. PICK p \in 0 .. Len(s) : /\ InsertPoint(s, version, p)
                                 /\ keys' = [keys EXCEPT ![id] = InsertAt(s, p, key)]
    BY <2>2 DEF Store
  <2>5. s \in Seq(ManagedKey) /\ Len(s) \in 1 .. Len(s) /\ Len(s) \in Nat
    BY <2>2, EmptySeq DEF TypeOK
  <2>6. last \in KeyMaterialRef /\ last.version = VersionAt(s, Len(s))
    <3>1. s[Len(s)] \in ManagedKey
      BY <2>5
    <3> QED BY <3>1 DEF Latest, ManagedKey, VersionAt
  <2>7. last.version \in U32 /\ last.kind \in Kinds
    BY <2>6 DEF KeyMaterialRef
  <2>8. version = last.version + 1 /\ version \in U32
    BY <2>2, <2>7, WordAssumption DEF AddU32, U32
  <2>9. \A i \in 1 .. Len(s) : VersionAt(s, i) <= last.version
    BY <2>5, <2>6 DEF BucketsOrdered
  <2>10. \A i \in 1 .. Len(s) : VersionAt(s, i) < version
    <3>1. \A i \in 1 .. Len(s) : VersionAt(s, i) \in Nat
      BY <2>5, VersionType
    <3> HIDE DEF s, last, version
    <3> QED BY <2>7, <2>8, <2>9, <3>1, WordAssumption DEF U32
  <2>11. key \in ManagedKey
    <3>1. day \in U32 /\ rotation_policy.rotate_every_days \in U32
      BY DaysAssumption, RotationAssumption DEF TypeOK
    <3>2. ref \in KeyMaterialRef
      BY <2>7, <2>8 DEF KeyMaterialRef
    <3> QED BY <2>7, <2>8, <3>1, <3>2, AddType DEF ManagedKey, derive_key_material, Material
  <2>12. FirstOf(InsertAt(s, p, key), version) = key
    <3>1. key.reference.version = version
      OBVIOUS
    <3> HIDE DEF s, key, version
    <3> QED BY <2>4, <2>5, <2>10, <2>11, <3>1, InsertNewest
  <2>13. keys'[id] = InsertAt(s, p, key)
    BY <2>4 DEF TypeOK
  <2>14. FirstOf(keys'[id], version).reference = ref
    BY <2>12, <2>13
  <2>15. ref.key_id = id /\ ref.version = version
    OBVIOUS
  <2> HIDE DEF ref, version, s
  <2> QED BY <2>3, <2>10, <2>14, <2>15 DEF s
<1> QED BY <1>1, TypeCorrect, BucketsAreOrdered, PTL DEF Spec, RotationIsFresh

-----------------------------------------------------------------------------
(* The refinement: buckets.                                                *)

\* Lookups find exactly what is visible.
LEMMA LookedIs ==
    ASSUME NEW s \in Seq(ManagedKey)
    PROVE  \A e : e \in Looked(s) <=> \E v \in U32 : HasVersion(s, v) /\ e = Shown(FirstOf(s, v))
<1>1. ASSUME NEW e, e \in Looked(s)
      PROVE  \E v \in U32 : HasVersion(s, v) /\ e = Shown(FirstOf(s, v))
  <2>1. PICK i \in 1 .. Len(s) : IsFirst(s, VersionAt(s, i), i) /\ e = Shown(s[i])
    BY <1>1 DEF Looked, Visible
  <2>2. s[i] \in ManagedKey
    OBVIOUS
  <2>3. VersionAt(s, i) \in U32
    BY <2>2 DEF VersionAt, ManagedKey, KeyMaterialRef
  <2>4. HasVersion(s, VersionAt(s, i)) /\ FirstOf(s, VersionAt(s, i)) = s[i]
    BY <2>1, FirstOfIs
  <2> QED  BY <2>1, <2>3, <2>4
<1>2. ASSUME NEW e, NEW v \in U32, HasVersion(s, v), e = Shown(FirstOf(s, v))
      PROVE  e \in Looked(s)
  <2>1. PICK i \in 1 .. Len(s) : IsFirst(s, v, i) /\ FirstOf(s, v) = s[i] /\ VersionAt(s, i) = v
    BY <1>2, FoundKey
  <2>2. i \in Visible(s)
    BY <2>1 DEF Visible
  <2> QED  BY <1>2, <2>1, <2>2 DEF Looked
<1> QED  BY <1>1, <1>2

\* An insertion brings no version but its own.
LEMMA InsertVersions ==
    ASSUME NEW s \in Seq(ManagedKey), NEW p \in 0 .. Len(s), NEW key \in ManagedKey, NEW v,
           HasVersion(InsertAt(s, p, key), v)
    PROVE  HasVersion(s, v) \/ v = key.reference.version
<1> DEFINE t == InsertAt(s, p, key)
<1>1. /\ Len(t) = Len(s) + 1
      /\ \A i \in 1 .. (Len(s) + 1) :
            t[i] = IF i <= p THEN s[i] ELSE IF i = p + 1 THEN key ELSE s[i - 1]
  BY InsertType
<1>2. Len(s) \in Nat
  OBVIOUS
<1> HIDE DEF t
<1>3. PICK i \in 1 .. (Len(s) + 1) : VersionAt(t, i) = v
  BY <1>1 DEF HasVersion, t
<1>4. CASE i <= p
  <2>1. i \in 1 .. Len(s) /\ t[i] = s[i]
    BY <1>1, <1>2, <1>4
  <2> QED  BY <1>3, <2>1 DEF HasVersion, VersionAt
<1>5. CASE i = p + 1
  BY <1>1, <1>2, <1>3, <1>5 DEF VersionAt
<1>6. CASE i > p + 1
  <2>1. i - 1 \in 1 .. Len(s) /\ t[i] = s[i - 1]
    BY <1>1, <1>2, <1>6
  <2> QED  BY <1>3, <2>1 DEF HasVersion, VersionAt
<1> QED  BY <1>2, <1>4, <1>5, <1>6

\* The first key of a version is found.
LEMMA InsertFirstOfVersion ==
    ASSUME NEW s \in Seq(ManagedKey), NEW p \in 0 .. Len(s), NEW key \in ManagedKey,
           ~HasVersion(s, key.reference.version)
    PROVE  /\ HasVersion(InsertAt(s, p, key), key.reference.version)
           /\ FirstOf(InsertAt(s, p, key), key.reference.version) = key
<1> DEFINE t == InsertAt(s, p, key)
           v == key.reference.version
<1>1. /\ t \in Seq(ManagedKey)
      /\ Len(t) = Len(s) + 1
      /\ \A i \in 1 .. (Len(s) + 1) :
            t[i] = IF i <= p THEN s[i] ELSE IF i = p + 1 THEN key ELSE s[i - 1]
  BY InsertType
<1>2. Len(s) \in Nat
  OBVIOUS
<1> HIDE DEF t
<1>3. t[p + 1] = key
  BY <1>1, <1>2
<1>4. \A j \in 1 .. p : VersionAt(t, j) # v
  <2> TAKE j \in 1 .. p
  <2>1. j \in 1 .. Len(s) /\ t[j] = s[j]
    BY <1>1, <1>2
  <2> QED  BY <2>1 DEF HasVersion, VersionAt
<1>5. IsFirst(t, v, p + 1)
  BY <1>1, <1>2, <1>3, <1>4 DEF IsFirst, VersionAt
<1>6. HasVersion(t, v) /\ FirstOf(t, v) = t[p + 1]
  BY <1>1, <1>5, FirstOfIs
<1> QED  BY <1>3, <1>6 DEF t

\* A key stored behind an equal version stays invisible; one of a new version is added.
LEMMA InsertLooked ==
    ASSUME NEW s \in Seq(ManagedKey), NEW p \in 0 .. Len(s), NEW key \in ManagedKey,
           InsertPoint(s, key.reference.version, p)
    PROVE  /\ HasVersion(s, key.reference.version) => Looked(InsertAt(s, p, key)) = Looked(s)
           /\ ~HasVersion(s, key.reference.version)
              => Looked(InsertAt(s, p, key)) = Looked(s) \cup {Shown(key)}
<1> DEFINE t == InsertAt(s, p, key)
           v == key.reference.version
<1>1. t \in Seq(ManagedKey)
  BY InsertType
<1>2. \A w : HasVersion(s, w) => HasVersion(t, w) /\ FirstOf(t, w) = FirstOf(s, w)
  BY InsertKeepsFirst
<1>3. \A w : HasVersion(t, w) => HasVersion(s, w) \/ w = v
  BY InsertVersions
<1>4. ~HasVersion(s, v) => HasVersion(t, v) /\ FirstOf(t, v) = key
  BY InsertFirstOfVersion
<1>5. v \in U32
  BY DEF ManagedKey, KeyMaterialRef
<1>6. \A e : e \in Looked(t) <=> \E w \in U32 : HasVersion(t, w) /\ e = Shown(FirstOf(t, w))
  BY <1>1, LookedIs
<1>7. \A e : e \in Looked(s) <=> \E w \in U32 : HasVersion(s, w) /\ e = Shown(FirstOf(s, w))
  BY LookedIs
<1> HIDE DEF t, v
<1>8. ASSUME HasVersion(s, v) PROVE Looked(t) = Looked(s)
  <2>1. \A e : e \in Looked(t) <=> e \in Looked(s)
    BY <1>2, <1>3, <1>6, <1>7, <1>8
  <2> QED  BY <2>1
<1>9. ASSUME ~HasVersion(s, v) PROVE Looked(t) = Looked(s) \cup {Shown(key)}
  <2>1. \A e : e \in Looked(t) <=> e \in Looked(s) \/ e = Shown(key)
    BY <1>2, <1>3, <1>4, <1>5, <1>6, <1>7, <1>9
  <2> QED  BY <2>1
<1> QED  BY <1>8, <1>9 DEF t, v

\* What is visible belongs to the bucket.
LEMMA LookedFields ==
    ASSUME NEW id, NEW s \in Seq(ManagedKey), Ordered(s, id), NEW e \in Looked(s)
    PROVE  /\ e.reference.key_id = id
           /\ e.reference.version \in U32
           /\ HasVersion(s, e.reference.version)
           /\ e = Shown(FirstOf(s, e.reference.version))
<1>1. PICK v \in U32 : HasVersion(s, v) /\ e = Shown(FirstOf(s, v))
  BY LookedIs
<1>2. PICK i \in 1 .. Len(s) : FirstOf(s, v) = s[i] /\ VersionAt(s, i) = v
  BY <1>1, FoundKey
<1>3. e.reference = s[i].reference
  BY <1>1, <1>2 DEF Shown
<1>4. e.reference.version = v /\ e.reference.key_id = id
  BY <1>2, <1>3 DEF VersionAt, Ordered
<1> QED  BY <1>1, <1>4

\* Revoking the first key of a version changes what is found of it and nothing else.
LEMMA FlagFirst ==
    ASSUME NEW s \in Seq(ManagedKey), NEW v, NEW i \in 1 .. Len(s), IsFirst(s, v, i), NEW w
    PROVE  /\ HasVersion(Flag(s, i), w) <=> HasVersion(s, w)
           /\ HasVersion(s, w) =>
                FirstOf(Flag(s, i), w) = IF w = v THEN [FirstOf(s, w) EXCEPT !.revoked = TRUE]
                                         ELSE FirstOf(s, w)
<1> DEFINE t == Flag(s, i)
<1>1. /\ t \in Seq(ManagedKey) /\ Len(t) = Len(s)
      /\ \A j \in 1 .. Len(s) : t[j] = IF j = i THEN [s[i] EXCEPT !.revoked = TRUE] ELSE s[j]
  BY FlagType
<1>2. s[i] \in ManagedKey
  OBVIOUS
<1>3. [s[i] EXCEPT !.revoked = TRUE].reference = s[i].reference
  BY <1>2 DEF ManagedKey
<1> HIDE DEF t
<1>4. \A j \in 1 .. Len(s) : VersionAt(t, j) = VersionAt(s, j)
  BY <1>1, <1>3 DEF VersionAt
<1>5. HasVersion(t, w) <=> HasVersion(s, w)
  BY <1>1, <1>4 DEF HasVersion
<1>6. ASSUME HasVersion(s, w)
      PROVE  FirstOf(t, w) = IF w = v THEN [FirstOf(s, w) EXCEPT !.revoked = TRUE]
                             ELSE FirstOf(s, w)
  <2>1. PICK j \in 1 .. Len(s) : IsFirst(s, w, j) /\ FirstOf(s, w) = s[j]
    BY <1>6, FoundKey
  <2>2. IsFirst(t, w, j)
    BY <1>1, <1>4, <2>1 DEF IsFirst
  <2>3. FirstOf(t, w) = t[j]
    BY <1>1, <2>2, FirstOfIs
  <2>4. w = v => j = i
    BY <2>1 DEF IsFirst
  <2>5. w # v => j # i
    BY <2>1 DEF IsFirst
  <2> QED  BY <1>1, <2>1, <2>3, <2>4, <2>5
<1> QED  BY <1>5, <1>6 DEF t

-----------------------------------------------------------------------------
(* The refinement: the registry.                                           *)

Buckets == TypeOK /\ BucketsOrdered

\* What is known of each bucket.
LEMMA BucketOf ==
    ASSUME Buckets, NEW id \in KeyIds
    PROVE  keys[id] \in Seq(ManagedKey) /\ Ordered(keys[id], id)
  BY DEF Buckets, TypeOK, BucketsOrdered, Ordered

\* A visible key is the one lookups find under its name.
LEMMA RegistryIs ==
    ASSUME Buckets, NEW e
    PROVE  e \in Registry
           <=> \E id \in KeyIds, v \in U32 :
                  HasVersion(keys[id], v) /\ e = Shown(FirstOf(keys[id], v))
<1>1. e \in Registry <=> \E id \in KeyIds : e \in Looked(keys[id])
  BY DEF Registry
<1>2. \A id \in KeyIds : e \in Looked(keys[id])
         <=> \E v \in U32 : HasVersion(keys[id], v) /\ e = Shown(FirstOf(keys[id], v))
  BY BucketOf, LookedIs
<1> QED  BY <1>1, <1>2

\* The key a lookup finds is in the registry under the name it was looked up by.
LEMMA NamedBy ==
    ASSUME Buckets, NEW id \in KeyIds, NEW v \in U32, HasVersion(keys[id], v)
    PROVE  LET e == Shown(FirstOf(keys[id], v))
           IN  e \in Registry /\ e.reference.key_id = id /\ e.reference.version = v
<1>1. PICK i \in 1 .. Len(keys[id]) :
         FirstOf(keys[id], v) = keys[id][i] /\ VersionAt(keys[id], i) = v
  BY BucketOf, FoundKey
<1>2. keys[id][i].reference.key_id = id /\ keys[id][i].reference.version = v
  BY <1>1, BucketOf DEF Ordered, VersionAt
<1>3. Shown(FirstOf(keys[id], v)) \in Registry
  BY RegistryIs
<1> QED  BY <1>1, <1>2, <1>3 DEF Shown

\* A key in the registry is the one its own name resolves to.
LEMMA RegistryFields ==
    ASSUME Buckets, NEW e \in Registry
    PROVE  /\ e.reference.key_id \in KeyIds
           /\ e.reference.version \in U32
           /\ HasVersion(keys[e.reference.key_id], e.reference.version)
           /\ e = Shown(FirstOf(keys[e.reference.key_id], e.reference.version))
<1>1. PICK id \in KeyIds, v \in U32 : HasVersion(keys[id], v) /\ e = Shown(FirstOf(keys[id], v))
  BY RegistryIs
<1>2. e.reference.key_id = id /\ e.reference.version = v
  BY <1>1, NamedBy
<1> QED  BY <1>1, <1>2

\* A version is taken in the registry exactly when its bucket has it.
LEMMA TakenIs ==
    ASSUME Buckets, NEW id \in KeyIds, NEW v \in U32
    PROVE  Abstract!Taken(id, v) <=> HasVersion(keys[id], v)
<1>1. ASSUME HasVersion(keys[id], v) PROVE Abstract!Taken(id, v)
  BY <1>1, NamedBy DEF Abstract!Taken, Abstract!Named
<1>2. ASSUME Abstract!Taken(id, v) PROVE HasVersion(keys[id], v)
  BY <1>2, RegistryFields DEF Abstract!Taken, Abstract!Named
<1> QED  BY <1>1, <1>2

\* Only the bucket that changes changes the registry.
LEMMA RegistryOfBucket ==
    ASSUME TypeOK, NEW id \in KeyIds, NEW t, keys' = [keys EXCEPT ![id] = t]
    PROVE  \A e : e \in Registry'
                  <=> e \in Looked(t) \/ \E other \in KeyIds \ {id} : e \in Looked(keys[other])
<1>1. keys'[id] = t /\ \A other \in KeyIds \ {id} : keys'[other] = keys[other]
  BY DEF TypeOK
<1>2. \A e : e \in Registry' <=> \E any \in KeyIds : e \in Looked(keys'[any])
  BY DEF Registry
<1> QED  BY <1>1, <1>2

\* Storing a key leaves the registry alone or adds that key.
LEMMA InsertRegistry ==
    ASSUME Buckets, NEW id \in KeyIds, NEW p \in 0 .. Len(keys[id]), NEW key \in ManagedKey,
           InsertPoint(keys[id], key.reference.version, p),
           keys' = [keys EXCEPT ![id] = InsertAt(keys[id], p, key)]
    PROVE  /\ HasVersion(keys[id], key.reference.version) => Registry' = Registry
           /\ ~HasVersion(keys[id], key.reference.version)
              => Registry' = Registry \cup {Shown(key)}
<1> DEFINE t == InsertAt(keys[id], p, key)
<1>1. /\ HasVersion(keys[id], key.reference.version) => Looked(t) = Looked(keys[id])
      /\ ~HasVersion(keys[id], key.reference.version)
         => Looked(t) = Looked(keys[id]) \cup {Shown(key)}
  BY BucketOf, InsertLooked
<1>2. \A e : e \in Registry'
             <=> e \in Looked(t) \/ \E other \in KeyIds \ {id} : e \in Looked(keys[other])
  BY RegistryOfBucket DEF Buckets
<1>3. \A e : e \in Registry
             <=> e \in Looked(keys[id]) \/ \E other \in KeyIds \ {id} : e \in Looked(keys[other])
  BY DEF Registry
<1> HIDE DEF t
<1>4. ASSUME HasVersion(keys[id], key.reference.version) PROVE Registry' = Registry
  <2>1. \A e : e \in Registry' <=> e \in Registry
    BY <1>1, <1>2, <1>3, <1>4
  <2> QED  BY <2>1
<1>5. ASSUME ~HasVersion(keys[id], key.reference.version)
      PROVE  Registry' = Registry \cup {Shown(key)}
  <2>1. \A e : e \in Registry' <=> e \in Registry \/ e = Shown(key)
    BY <1>1, <1>2, <1>3, <1>5
  <2> QED  BY <2>1
<1> QED  BY <1>4, <1>5

\* One visible key after a revocation.
After(e, id, v) == IF Abstract!Named(e, id, v) THEN Abstract!Revoked(e) ELSE e

\* Flagging a key and showing it commute.
LEMMA ShownRevoked ==
    ASSUME NEW key \in ManagedKey
    PROVE  Shown([key EXCEPT !.revoked = TRUE]) = Abstract!Revoked(Shown(key))
<1> DEFINE flagged == [key EXCEPT !.revoked = TRUE]
<1>1. /\ flagged.reference = key.reference
      /\ flagged.material = key.material
      /\ flagged.revoked = TRUE
  BY DEF ManagedKey
<1> HIDE DEF flagged
<1>2. Shown(flagged) = [reference |-> key.reference, material |-> key.material, revoked |-> TRUE]
  BY <1>1 DEF Shown
<1> QED  BY <1>2 DEF flagged, Shown, Abstract!Revoked

\* Flagging the first key of a version revokes that key of the registry.
LEMMA FlagRegistry ==
    ASSUME Buckets, Buckets', NEW id \in KeyIds, NEW v \in U32, NEW i \in 1 .. Len(keys[id]),
           IsFirst(keys[id], v, i), keys' = [keys EXCEPT ![id] = Flag(keys[id], i)]
    PROVE  Registry' = {After(e, id, v) : e \in Registry}
<1> DEFINE s == keys[id]
           t == Flag(keys[id], i)
<1>1. s \in Seq(ManagedKey) /\ Ordered(s, id) /\ t \in Seq(ManagedKey)
  BY BucketOf, FlagType
<1>2. \A w : /\ HasVersion(t, w) <=> HasVersion(s, w)
             /\ HasVersion(s, w) =>
                  FirstOf(t, w) = IF w = v THEN [FirstOf(s, w) EXCEPT !.revoked = TRUE]
                                  ELSE FirstOf(s, w)
  BY <1>1, FlagFirst
<1>3. keys'[id] = t /\ \A other \in KeyIds \ {id} : keys'[other] = keys[other]
  BY DEF Buckets, TypeOK
<1>4. ASSUME NEW any \in KeyIds, NEW w \in U32, HasVersion(keys[any], w)
      PROVE  /\ HasVersion(keys'[any], w)
             /\ Shown(FirstOf(keys'[any], w)) = After(Shown(FirstOf(keys[any], w)), id, v)
  <2> DEFINE e == Shown(FirstOf(keys[any], w))
  <2>1. e.reference.key_id = any /\ e.reference.version = w
    BY <1>4, NamedBy
  <2>2. Abstract!Named(e, id, v) <=> any = id /\ w = v
    BY <2>1 DEF Abstract!Named
  <2> HIDE DEF e
  <2>3. CASE any = id /\ w = v
    <3>1. HasVersion(t, v) /\ FirstOf(t, v) = [FirstOf(s, v) EXCEPT !.revoked = TRUE]
      BY <1>2, <1>4, <2>3
    <3>2. FirstOf(s, v) \in ManagedKey
      BY <1>1, <1>4, <2>3, FoundKey
    <3>3. Shown(FirstOf(t, v)) = Abstract!Revoked(Shown(FirstOf(s, v)))
      BY <3>1, <3>2, ShownRevoked
    <3>4. After(e, id, v) = Abstract!Revoked(e)
      BY <2>2, <2>3 DEF After
    <3>5. e = Shown(FirstOf(s, v))
      BY <2>3 DEF e
    <3>6. keys'[any] = t
      BY <1>3, <2>3
    <3> HIDE DEF s, t
    <3> QED  BY <2>3, <3>1, <3>3, <3>4, <3>5, <3>6 DEF e
  <2>4. CASE any = id /\ w # v
    <3>1. HasVersion(t, w) /\ FirstOf(t, w) = FirstOf(s, w)
      BY <1>2, <1>4, <2>4
    <3> QED  BY <1>3, <2>2, <2>4, <3>1 DEF After, e
  <2>5. CASE any # id
    BY <1>3, <1>4, <2>2, <2>5 DEF After, e
  <2> QED  BY <2>3, <2>4, <2>5
<1>5. ASSUME NEW any \in KeyIds, NEW w \in U32, HasVersion(keys'[any], w)
      PROVE  HasVersion(keys[any], w)
  BY <1>2, <1>3, <1>5
<1>6. ASSUME NEW e PROVE e \in Registry'
             <=> \E any \in KeyIds, w \in U32 :
                    HasVersion(keys'[any], w) /\ e = Shown(FirstOf(keys'[any], w))
  <2>1. e \in Registry' <=> \E any \in KeyIds : e \in Looked(keys'[any])
    BY DEF Registry
  <2>2. \A any \in KeyIds : keys'[any] \in Seq(ManagedKey)
    BY DEF Buckets, TypeOK
  <2>3. \A any \in KeyIds : e \in Looked(keys'[any])
           <=> \E w \in U32 : HasVersion(keys'[any], w) /\ e = Shown(FirstOf(keys'[any], w))
    BY <2>2, LookedIs
  <2> QED  BY <2>1, <2>3
<1> HIDE DEF s, t
<1>7. ASSUME NEW e \in Registry' PROVE e \in {After(f, id, v) : f \in Registry}
  <2>1. PICK any \in KeyIds, w \in U32 :
           HasVersion(keys'[any], w) /\ e = Shown(FirstOf(keys'[any], w))
    BY <1>6
  <2>2. /\ HasVersion(keys[any], w)
        /\ e = After(Shown(FirstOf(keys[any], w)), id, v)
    BY <1>4, <1>5, <2>1
  <2>3. Shown(FirstOf(keys[any], w)) \in Registry
    BY <2>2, NamedBy
  <2> QED  BY <2>2, <2>3
<1>8. ASSUME NEW f \in Registry PROVE After(f, id, v) \in Registry'
  <2>1. PICK any \in KeyIds, w \in U32 : HasVersion(keys[any], w) /\ f = Shown(FirstOf(keys[any], w))
    BY RegistryIs
  <2>2. /\ HasVersion(keys'[any], w)
        /\ After(f, id, v) = Shown(FirstOf(keys'[any], w))
    BY <1>4, <2>1
  <2> QED  BY <1>6, <2>2
<1> QED  BY <1>7, <1>8

-----------------------------------------------------------------------------
(* The refinement: the operations.                                         *)

AStep == Abstract!Next \/ UNCHANGED Abstract!vars

\* A call that fails is a refusal.
LEMMA FailureRefines ==
    ASSUME NEW op \in {"generate_key", "rotate_key", "revoke_key", "retrieve_key"},
           NEW err \in Errors, Failed(op, err), keys' = keys, policies' = policies
    PROVE  AStep
<1>1. Registry' = Registry
  BY DEF Registry
<1>2. Abstract!Refuse(op, err)
  BY <1>1 DEF Abstract!Refuse, Abstract!Answer, Failed, Returned
<1> QED  BY <1>2 DEF AStep, Abstract!Next

\* What the successful end of generate_key does, also when rotate_key runs it.
LEMMA StoreRegistry ==
    ASSUME Buckets, NEW op, NEW id \in KeyIds, NEW kind \in Kinds, NEW version \in U32,
           NEW day \in Days, NEW seed \in Seeds, Store(op, id, kind, version, day, seed)
    PROVE  LET ref == [key_id |-> id, version |-> version, kind |-> kind]
           IN  /\ ref \in Abstract!Reference
               /\ HasVersion(keys[id], version) => Registry' = Registry
               /\ ~HasVersion(keys[id], version)
                  => Registry' = Registry \cup {Abstract!Issued(ref, seed)}
               /\ Abstract!Answer(op, "Ok", <<ref>>)
<1> DEFINE ref == [key_id |-> id, version |-> version, kind |-> kind]
           key == [reference |-> ref,
                   material |-> derive_key_material(id, kind, version, seed),
                   activated_day |-> day,
                   expires_day |-> AddU32(day, rotation_policy.rotate_every_days),
                   revoked |-> FALSE]
<1>1. ref \in KeyMaterialRef
  BY DEF KeyMaterialRef
<1>2. day \in U32 /\ rotation_policy.rotate_every_days \in U32
  BY DaysAssumption, RotationAssumption DEF Buckets, TypeOK
<1>3. key \in ManagedKey
  BY <1>1, <1>2, AddType DEF ManagedKey, derive_key_material, Material
<1>4. PICK p \in 0 .. Len(keys[id]) :
         /\ InsertPoint(keys[id], version, p)
         /\ keys' = [keys EXCEPT ![id] = InsertAt(keys[id], p, key)]
  BY DEF Store
<1>5. key.reference.version = version
  OBVIOUS
<1>6. Shown(key) = Abstract!Issued(ref, seed)
  BY DEF Shown, Abstract!Issued, derive_key_material
<1>7. Abstract!Answer(op, "Ok", <<ref>>)
  BY DEF Store, Returned, Abstract!Answer
<1>8. ref \in Abstract!Reference
  BY DEF Abstract!Reference
<1> HIDE DEF ref, key
<1>9. /\ HasVersion(keys[id], version) => Registry' = Registry
      /\ ~HasVersion(keys[id], version) => Registry' = Registry \cup {Shown(key)}
  BY <1>3, <1>4, <1>5, InsertRegistry
<1> QED  BY <1>6, <1>7, <1>8, <1>9 DEF ref

\* generate_key issues a key, changes nothing or is refused.
LEMMA GenerateRefines ==
    ASSUME Buckets, NEW id \in KeyIds, NEW kind \in Kinds, NEW version \in U32,
           NEW day \in Days, NEW seed \in Seeds, generate_key(id, kind, version, day, seed)
    PROVE  AStep
<1> DEFINE ref == [key_id |-> id, version |-> version, kind |-> kind]
<1>1. policies' = policies
  BY DEF generate_key, Generate
<1>2. CASE keys' = keys /\ \E err \in Errors : Failed("generate_key", err)
  BY <1>1, <1>2, FailureRefines
<1>3. CASE version # 0 /\ Store("generate_key", id, kind, version, day, seed)
  <2>1. /\ ref \in Abstract!Reference
        /\ HasVersion(keys[id], version) => Registry' = Registry
        /\ ~HasVersion(keys[id], version) => Registry' = Registry \cup {Abstract!Issued(ref, seed)}
        /\ Abstract!Answer("generate_key", "Ok", <<ref>>)
    BY <1>3, StoreRegistry
  <2>2. ref.key_id = id /\ ref.version = version /\ version > 0
    BY <1>3, WordAssumption DEF U32
  <2> HIDE DEF ref
  <2>3. Abstract!Taken(id, version) <=> HasVersion(keys[id], version)
    BY TakenIs
  <2>4. Registry' = Abstract!With(ref, seed)
    BY <2>1, <2>2, <2>3 DEF Abstract!With
  <2>5. Abstract!Issue(ref, seed)
    BY <1>1, <2>1, <2>2, <2>4 DEF Abstract!Issue
  <2> QED  BY <2>1, <2>5 DEF AStep, Abstract!Next
<1> QED  BY <1>2, <1>3 DEF generate_key, Generate, Errors

\* rotate_key issues a version above all others or is refused.
LEMMA RotateRefines ==
    ASSUME Buckets, NEW id \in KeyIds, NEW day \in Days, NEW seed \in Seeds,
           rotate_key(id, day, seed)
    PROVE  AStep
<1> DEFINE s == keys[id]
           kind == Latest(s).kind
           version == AddU32(Latest(s).version, 1)
           ref == [key_id |-> id, version |-> version, kind |-> kind]
<1>1. policies' = policies
  BY DEF rotate_key, Generate
<1>2. CASE keys' = keys /\ \E err \in Errors : Failed("rotate_key", err)
  BY <1>1, <1>2, FailureRefines
<1>3. CASE s # <<>> /\ version # 0 /\ Store("rotate_key", id, kind, version, day, seed)
  <2>1. s \in Seq(ManagedKey) /\ Ordered(s, id)
    BY BucketOf
  <2>2. Len(s) \in Nat /\ Len(s) \in 1 .. Len(s)
    BY <1>3, <2>1, EmptySeq
  <2>3. s[Len(s)] \in ManagedKey
    BY <2>1, <2>2
  <2>4. Latest(s) \in KeyMaterialRef /\ Latest(s).version = VersionAt(s, Len(s))
    BY <2>3 DEF Latest, ManagedKey, VersionAt
  <2>5. kind \in Kinds /\ Latest(s).version \in U32
    BY <2>4 DEF KeyMaterialRef
  <2>6. version \in U32 /\ version = Latest(s).version + 1
    BY <1>3, <2>5, WordAssumption DEF AddU32, U32
  <2>7. /\ ref \in Abstract!Reference
        /\ HasVersion(s, version) => Registry' = Registry
        /\ ~HasVersion(s, version) => Registry' = Registry \cup {Abstract!Issued(ref, seed)}
        /\ Abstract!Answer("rotate_key", "Ok", <<ref>>)
    BY <1>3, <2>5, <2>6, StoreRegistry
  <2>8. \A v \in U32 : HasVersion(s, v) => v < version
    <3> SUFFICES ASSUME NEW v \in U32, HasVersion(s, v) PROVE v < version
      OBVIOUS
    <3>1. PICK i \in 1 .. Len(s) : VersionAt(s, i) = v
      BY DEF HasVersion
    <3>2. i <= Len(s)
      BY <2>2
    <3>3. VersionAt(s, i) <= VersionAt(s, Len(s))
      BY <2>1, <2>2, <3>2 DEF Ordered
    <3> QED  BY <2>4, <2>5, <2>6, <3>1, <3>3, WordAssumption DEF U32
  <2>9. \A e \in Registry : e.reference.key_id = id => e.reference.version < version
    <3> SUFFICES ASSUME NEW e \in Registry, e.reference.key_id = id
                 PROVE  e.reference.version < version
      OBVIOUS
    <3>1. e.reference.version \in U32 /\ HasVersion(keys[e.reference.key_id], e.reference.version)
      BY RegistryFields
    <3> QED  BY <2>8, <3>1
  <2>10. \E e \in Registry : e.reference.key_id = id
    <3>1. HasVersion(s, Latest(s).version)
      BY <2>2, <2>4 DEF HasVersion
    <3> QED  BY <2>5, <3>1, NamedBy
  <2>11. ~HasVersion(s, version)
    BY <2>6, <2>8, WordAssumption DEF U32
  <2>12. ref.key_id = id /\ ref.version = version
    OBVIOUS
  <2> HIDE DEF ref, version
  <2>13. Abstract!Rotate(ref, seed)
    BY <1>1, <2>7, <2>9, <2>10, <2>11, <2>12 DEF Abstract!Rotate
  <2> QED  BY <2>7, <2>13 DEF AStep, Abstract!Next
<1> QED  BY <1>2, <1>3 DEF rotate_key, Generate, Errors

\* revoke_key revokes the key of that name or is refused.
LEMMA RevokeRefines ==
    ASSUME Buckets, Buckets', NEW id \in KeyIds, NEW version \in U32, revoke_key(id, version)
    PROVE  AStep
<1>1. policies' = policies
  BY DEF revoke_key
<1>2. CASE keys' = keys /\ Failed("revoke_key", "KeyNotFound")
  BY <1>1, <1>2, FailureRefines DEF Errors
<1>3. CASE \E i \in 1 .. Len(keys[id]) :
              /\ IsFirst(keys[id], version, i)
              /\ keys' = [keys EXCEPT ![id] = Flag(keys[id], i)]
              /\ Returned("revoke_key", "Ok", <<>>)
  <2>1. PICK i \in 1 .. Len(keys[id]) :
           /\ IsFirst(keys[id], version, i)
           /\ keys' = [keys EXCEPT ![id] = Flag(keys[id], i)]
           /\ Returned("revoke_key", "Ok", <<>>)
    BY <1>3
  <2>2. Registry' = {After(e, id, version) : e \in Registry}
    BY <2>1, FlagRegistry
  <2>3. HasVersion(keys[id], version)
    BY <2>1, BucketOf, FirstOfIs
  <2>4. Abstract!Taken(id, version)
    BY <2>3, TakenIs
  <2>5. Abstract!Revoke(id, version)
    BY <1>1, <2>1, <2>2, <2>4 DEF Abstract!Revoke, After, Abstract!Answer, Returned
  <2> QED  BY <2>5 DEF AStep, Abstract!Next
<1> QED  BY <1>2, <1>3 DEF revoke_key

\* retrieve_key serves the key of that name or is refused.
LEMMA RetrieveRefines ==
    ASSUME Buckets, NEW who \in Identities, NEW ref \in KeyMaterialRef, NEW day \in Days,
           retrieve_key(who, ref, day)
    PROVE  AStep
<1> DEFINE key == FirstOf(keys[ref.key_id], ref.version)
<1>1. keys' = keys /\ policies' = policies
  BY DEF retrieve_key
<1>2. CASE RetrieveOutcome(who, ref, day) # "Ok"
  <2>1. RetrieveOutcome(who, ref, day) \in Errors
    BY <1>2 DEF RetrieveOutcome, Errors
  <2>2. Failed("retrieve_key", RetrieveOutcome(who, ref, day))
    BY <1>2 DEF retrieve_key
  <2> QED  BY <1>1, <2>1, <2>2, FailureRefines
<1>3. CASE RetrieveOutcome(who, ref, day) = "Ok"
  <2>1. /\ ref.key_id \in KeyIds /\ ref.version \in U32
        /\ ref \in Abstract!Reference
    BY DEF KeyMaterialRef, Abstract!Reference
  <2>2. Authorized(who, ref) /\ HasVersion(keys[ref.key_id], ref.version) /\ ~key.revoked
    BY <1>3 DEF RetrieveOutcome
  <2>3. Returned("retrieve_key", "Ok", <<key.material>>)
    BY <1>3 DEF retrieve_key
  <2> DEFINE e == Shown(key)
  <2>4. /\ e \in Registry
        /\ e.reference.key_id = ref.key_id
        /\ e.reference.version = ref.version
    BY <2>1, <2>2, NamedBy
  <2>5. e.material = key.material /\ ~e.revoked
    BY <2>2 DEF Shown
  <2>6. Registry' = Registry
    BY <1>1 DEF Registry
  <2> HIDE DEF e, key
  <2>7. Abstract!Named(e, ref.key_id, ref.version)
    BY <2>4 DEF Abstract!Named
  <2>8. Abstract!Answer("retrieve_key", "Ok", <<e.material>>)
    BY <2>3, <2>5 DEF Abstract!Answer, Returned
  <2>9. Abstract!Serve(who, ref)
    BY <1>1, <2>2, <2>4, <2>5, <2>6, <2>7, <2>8 DEF Abstract!Serve, Authorized
  <2> QED  BY <2>1, <2>9 DEF AStep, Abstract!Next
<1> QED  BY <1>2, <1>3

\* add_access_policy is the same call in both.
LEMMA PolicyRefines ==
    ASSUME NEW who \in Identities, NEW rule \in AccessRules, add_access_policy(who, rule)
    PROVE  AStep
<1>1. Registry' = Registry
  BY DEF add_access_policy, Registry
<1>2. Abstract!AddPolicy(who, rule)
  BY <1>1 DEF add_access_policy, Abstract!AddPolicy, Abstract!Answer, Returned
<1> QED  BY <1>2 DEF AStep, Abstract!Next

\* Every behaviour of the key manager is a behaviour of the registry with one key per
\* version: shadowed duplicates are invisible, for every word size and in both builds.
THEOREM ManagerImplementsRegistry == Spec => ImplementsRegistry
<1>1. Init => Abstract!Init
  <2> SUFFICES ASSUME Init PROVE Abstract!Init
    OBVIOUS
  <2>1. \A id \in KeyIds : Looked(keys[id]) = {}
    <3> SUFFICES ASSUME NEW id \in KeyIds PROVE Looked(keys[id]) = {}
      OBVIOUS
    <3>1. keys[id] = << >>
      BY DEF Init
    <3>2. Visible(<< >>) = {}
      <4>1. 1 .. Len(<< >>) = {}
        BY EmptySeq, SMT
      <4> QED  BY <4>1 DEF Visible
    <3>3. Looked(<< >>) = {}
      BY <3>2 DEF Looked
    <3> QED  BY <3>1, <3>3
  <2>2. Registry = {}
    BY <2>1 DEF Registry
  <2> QED  BY <2>2 DEF Init, Abstract!Init
<1>2. Buckets /\ Buckets' /\ [Next]_vars => [Abstract!Next]_Abstract!vars
  <2> SUFFICES ASSUME Buckets, Buckets', [Next]_vars PROVE AStep
    BY DEF AStep
  <2>1. CASE UNCHANGED vars
    BY <2>1 DEF vars, AStep, Abstract!vars, Registry
  <2>2. CASE \E who \in Identities, rule \in AccessRules : add_access_policy(who, rule)
    BY <2>2, PolicyRefines
  <2>3. CASE \E id \in KeyIds, kind \in Kinds, version \in U32, day \in Days, seed \in Seeds :
                generate_key(id, kind, version, day, seed)
    BY <2>3, GenerateRefines
  <2>4. CASE \E id \in KeyIds, day \in Days, seed \in Seeds : rotate_key(id, day, seed)
    BY <2>4, RotateRefines
  <2>5. CASE \E id \in KeyIds, version \in U32 : revoke_key(id, version)
    BY <2>5, RevokeRefines
  <2>6. CASE \E who \in Identities, ref \in KeyMaterialRef, day \in Days :
                retrieve_key(who, ref, day)
    BY <2>6, RetrieveRefines
  <2> QED  BY <2>1, <2>2, <2>3, <2>4, <2>5, <2>6 DEF Next
<1>3. Spec => []Buckets
  BY TypeCorrect, BucketsAreOrdered, PTL DEF Buckets
<1> QED  BY <1>1, <1>2, <1>3, PTL DEF Spec, ImplementsRegistry, Abstract!Spec
==============================================================================
