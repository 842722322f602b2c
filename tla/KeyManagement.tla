---------------------------- MODULE KeyManagement ----------------------------
(***************************************************************************)
(* The key manager of src/src/key_management.rs: versioned key buckets,    *)
(* rotation, revocation, access policies and retrieval.                    *)
(*                                                                         *)
(* A call either changes the manager or fails; both are visible in the     *)
(* variable response, which holds what the last call returned.  Callers    *)
(* choose every argument, so each action takes its inputs from small sets. *)
(***************************************************************************)
EXTENDS Integers, Sequences

CONSTANTS
    KeyIds,          \* key identifiers a caller may name
    BlankKeyId,      \* one identifier that trims to the empty string
    Kinds,           \* KeyKind: Encryption, Signature, Tls
    Identities,      \* identities a policy may be added for
    Seeds,           \* seeds a caller may derive material from
    Days,            \* the days a caller may pass: a subset of the u32 range
    AccessRules,     \* the [allowed_key_ids, allowed_kinds] a policy may carry
    RotationPolicies,\* the rotation policies KeyManager::new may be given
    Word,            \* 2^32 in the code: one more than the largest u32
    OverflowChecks,  \* TRUE: u32 overflow panics (debug); FALSE: it wraps (release)
    MaxVersions      \* bound: managed keys per identifier

U32 == 0 .. (Word - 1)

ASSUME WordAssumption == Word \in Nat /\ Word > 1
ASSUME DaysAssumption == Days \subseteq U32
ASSUME OverflowAssumption == OverflowChecks \in BOOLEAN
ASSUME BoundAssumption == MaxVersions \in Nat
ASSUME RotationAssumption ==
    RotationPolicies \subseteq [rotate_every_days : U32, overlap_days : U32]
ASSUME RulesAssumption ==
    AccessRules \subseteq [allowed_key_ids : SUBSET KeyIds, allowed_kinds : SUBSET Kinds]

VARIABLES
    rotation_policy, \* KeyRotationPolicy, fixed by the constructor
    keys,            \* identifier -> Vec<ManagedKey>; the empty sequence: no entry
    policies,        \* identity -> what its policy allows; nothing: no entry
    response         \* what the last call returned

vars == <<rotation_policy, keys, policies, response>>

KeyMaterialRef == [key_id : KeyIds, version : U32, kind : Kinds]

\* SHA-256 over key_id, kind, version and seed, taken to be collision free:
\* the material is identified by what it is derived from.
Material == [key_id : KeyIds, kind : Kinds, version : U32, seed : Seeds]
derive_key_material(id, kind, version, seed) ==
    [key_id |-> id, kind |-> kind, version |-> version, seed |-> seed]

ManagedKey == [reference : KeyMaterialRef, material : Material,
               activated_day : U32, expires_day : U32, revoked : BOOLEAN]

\* u32 addition as the build performs it.
AddPanics(a, b) == OverflowChecks /\ a + b >= Word
\* Variant: the carry is kept.
AddU32NoWrap(a, b) == a + b
AddU32(a, b) == IF a + b < Word THEN a + b ELSE a + b - Word

is_valid(p) == p.rotate_every_days > 0 /\ p.overlap_days <= p.rotate_every_days

-----------------------------------------------------------------------------
(* Buckets: a Vec of managed keys kept sorted by version.                  *)

VersionAt(s, i) == s[i].reference.version

\* i is where Iterator::find, and the loop of revoke_key, stop for version v.
IsFirst(s, v, i) ==
    /\ i \in 1 .. Len(s)
    /\ VersionAt(s, i) = v
    /\ \A j \in 1 .. (i - 1) : VersionAt(s, j) # v

HasVersion(s, v) == \E i \in 1 .. Len(s) : VersionAt(s, i) = v
FirstOf(s, v) == s[CHOOSE i \in 1 .. Len(s) : IsFirst(s, v, i)]

\* Variants: no sort after the push; a sort that puts the new key before its equals.
InsertPointUnsorted(s, v, p) == p = Len(s)
InsertPointUnstable(s, v, p) ==
    /\ \A i \in 1 .. p : VersionAt(s, i) < v
    /\ \A i \in (p + 1) .. Len(s) : VersionAt(s, i) >= v

\* push followed by the stable sort_by_key on a sorted bucket: the new key lands
\* behind every key whose version is not greater than its own.
InsertPoint(s, v, p) ==
    /\ \A i \in 1 .. p : VersionAt(s, i) <= v
    /\ \A i \in (p + 1) .. Len(s) : VersionAt(s, i) > v
InsertAt(s, p, key) ==
    [i \in 1 .. (Len(s) + 1) |->
        IF i <= p THEN s[i] ELSE IF i = p + 1 THEN key ELSE s[i - 1]]

-----------------------------------------------------------------------------
(* Responses.                                                              *)

Errors == {"InvalidInput", "KeyNotFound", "KeyRevoked", "Unauthorized", "panic"}

Returned(op, result, value) == response' = [op |-> op, result |-> result, value |-> value]
Failed(op, err) == Returned(op, err, <<>>)

\* KeyManager::new: only a valid rotation policy yields a manager.
Init ==
    /\ rotation_policy \in {p \in RotationPolicies : is_valid(p)}
    /\ keys = [id \in KeyIds |-> <<>>]
    /\ policies = [who \in Identities |-> [allowed_key_ids |-> {}, allowed_kinds |-> {}]]
    /\ response = [op |-> "new", result |-> "Ok", value |-> <<>>]

-----------------------------------------------------------------------------
(* Operations.                                                             *)

\* A later policy for the same identity replaces the earlier one.
add_access_policy(who, rule) ==
    /\ policies' = [policies EXCEPT ![who] = rule]
    /\ Returned("add_access_policy", "Ok", <<>>)
    /\ UNCHANGED <<rotation_policy, keys>>

Store(op, id, kind, version, day, seed) ==
    LET ref == [key_id |-> id, version |-> version, kind |-> kind]
        managed == [reference |-> ref,
                    material |-> derive_key_material(id, kind, version, seed),
                    activated_day |-> day,
                    expires_day |-> AddU32(day, rotation_policy.rotate_every_days),
                    revoked |-> FALSE]
    IN  /\ Len(keys[id]) < MaxVersions
        /\ \E p \in 0 .. Len(keys[id]) :
              /\ InsertPoint(keys[id], version, p)
              /\ keys' = [keys EXCEPT ![id] = InsertAt(keys[id], p, managed)]
        /\ Returned(op, "Ok", <<ref>>)

\* The body of generate_key, which rotate_key also runs.  There is no check that
\* the version is new: a second key of a version is stored behind the first.
Generate(op, id, kind, version, day, seed) ==
    /\ \/ /\ id = BlankKeyId \/ version = 0
          /\ Failed(op, "InvalidInput")
          /\ UNCHANGED keys
       \/ /\ id # BlankKeyId /\ version # 0
          /\ AddPanics(day, rotation_policy.rotate_every_days)
          /\ Failed(op, "panic")
          /\ UNCHANGED keys
       \/ /\ id # BlankKeyId /\ version # 0
          /\ ~AddPanics(day, rotation_policy.rotate_every_days)
          /\ Store(op, id, kind, version, day, seed)
    /\ UNCHANGED <<rotation_policy, policies>>

generate_key(id, kind, version, day, seed) ==
    Generate("generate_key", id, kind, version, day, seed)

\* Variant: the bucket's first key is rotated from.
LatestFirst(s) == s[1].reference

\* The bucket's last key is the one rotated from.
Latest(s) == s[Len(s)].reference

rotate_key(id, day, seed) ==
    /\ \/ /\ keys[id] = <<>>
          /\ Failed("rotate_key", "KeyNotFound")
          /\ UNCHANGED keys
       \/ /\ keys[id] # <<>>
          /\ AddPanics(Latest(keys[id]).version, 1)
          /\ Failed("rotate_key", "panic")
          /\ UNCHANGED keys
       \/ /\ keys[id] # <<>>
          /\ ~AddPanics(Latest(keys[id]).version, 1)
          /\ Generate("rotate_key", id, Latest(keys[id]).kind,
                      AddU32(Latest(keys[id]).version, 1), day, seed)
    /\ UNCHANGED <<rotation_policy, policies>>

Flag(s, i) == [s EXCEPT ![i] = [s[i] EXCEPT !.revoked = TRUE]]

\* Only the first key of the version is flagged: the loop breaks there.
revoke_key(id, version) ==
    /\ \/ \E i \in 1 .. Len(keys[id]) :
             /\ IsFirst(keys[id], version, i)
             /\ keys' = [keys EXCEPT ![id] = Flag(keys[id], i)]
             /\ Returned("revoke_key", "Ok", <<>>)
       \/ /\ ~HasVersion(keys[id], version)
          /\ Failed("revoke_key", "KeyNotFound")
          /\ UNCHANGED keys
    /\ UNCHANGED <<rotation_policy, policies>>

\* authorize: the presented reference is what the policy is asked about.
Authorized(who, ref) ==
    /\ ref.key_id \in policies[who].allowed_key_ids
    /\ ref.kind \in policies[who].allowed_kinds

\* Variants: the grace period is a rotation period; the last day of the overlap is lost.
ExpiredAfterRotation(key, day) == day > AddU32(key.expires_day, rotation_policy.rotate_every_days)
ExpiredOneDayEarly(key, day) == day >= AddU32(key.expires_day, rotation_policy.overlap_days)

Expired(key, day) == day > AddU32(key.expires_day, rotation_policy.overlap_days)

\* What retrieve_key answers, without the material.
RetrieveOutcome(who, ref, day) ==
    LET key == FirstOf(keys[ref.key_id], ref.version)
    IN  IF ~Authorized(who, ref) THEN "Unauthorized"
        ELSE IF ~HasVersion(keys[ref.key_id], ref.version) THEN "KeyNotFound"
        ELSE IF key.revoked THEN "KeyRevoked"
        ELSE IF AddPanics(key.expires_day, rotation_policy.overlap_days) THEN "panic"
        ELSE IF Expired(key, day) THEN "KeyRevoked"
        ELSE "Ok"

retrieve_key(who, ref, day) ==
    LET outcome == RetrieveOutcome(who, ref, day)
    IN  /\ IF outcome = "Ok"
           THEN Returned("retrieve_key", "Ok", <<FirstOf(keys[ref.key_id], ref.version).material>>)
           ELSE Failed("retrieve_key", outcome)
        /\ UNCHANGED <<rotation_policy, keys, policies>>

Next ==
    \/ \E who \in Identities, rule \in AccessRules : add_access_policy(who, rule)
    \/ \E id \in KeyIds, kind \in Kinds, version \in U32, day \in Days, seed \in Seeds :
          generate_key(id, kind, version, day, seed)
    \/ \E id \in KeyIds, day \in Days, seed \in Seeds : rotate_key(id, day, seed)
    \/ \E id \in KeyIds, version \in U32 : revoke_key(id, version)
    \/ \E who \in Identities, ref \in KeyMaterialRef, day \in Days : retrieve_key(who, ref, day)

Spec == Init /\ [][Next]_vars

-----------------------------------------------------------------------------
(* Properties.                                                             *)

Responses ==
    [op : {"new", "add_access_policy", "generate_key", "rotate_key", "revoke_key",
           "retrieve_key"},
     result : Errors \cup {"Ok"},
     value : {<<>>} \cup {<<v>> : v \in KeyMaterialRef \cup Material}]

\* Every variable holds a value of its Rust type.
TypeOK ==
    /\ rotation_policy \in RotationPolicies
    /\ keys \in [KeyIds -> Seq(ManagedKey)]
    /\ policies \in [Identities -> [allowed_key_ids : SUBSET KeyIds,
                                    allowed_kinds : SUBSET Kinds]]
    /\ response \in Responses

\* The bucket rotate_key and retrieve_key search is sorted by version, holds only
\* keys of its own identifier and never version 0 (generate_key refuses 0, also
\* when rotate_key reaches it by wrapping around).
BucketsOrdered ==
    \A id \in KeyIds :
        /\ \A i, j \in 1 .. Len(keys[id]) :
              i <= j => VersionAt(keys[id], i) <= VersionAt(keys[id], j)
        /\ \A i \in 1 .. Len(keys[id]) :
              keys[id][i].reference.key_id = id /\ VersionAt(keys[id], i) > 0

\* A revoked version is never served again: generating the version anew stores a
\* live key, but behind the revoked one, where no lookup finds it.
RevocationIsPermanent ==
    [][\A id \in KeyIds, v \in U32 :
          HasVersion(keys[id], v) /\ FirstOf(keys[id], v).revoked
          => HasVersion(keys'[id], v) /\ FirstOf(keys'[id], v).revoked]_vars

\* rotate_key issues a version above every version of the identifier, whatever
\* order the versions were generated in; it never shadows or is shadowed.
RotationIsFresh ==
    [][response'.op = "rotate_key" /\ response'.result = "Ok"
       => LET ref == response'.value[1]
          IN  /\ \A i \in 1 .. Len(keys[ref.key_id]) : VersionAt(keys[ref.key_id], i) < ref.version
              /\ FirstOf(keys'[ref.key_id], ref.version).reference = ref]_vars

\* What a caller can retrieve today it can retrieve after any later call, with the
\* same material, unless that call revokes a key or replaces a policy: rotating or
\* generating keys never cuts off, and never swaps, a key in use.
ServiceIsStable ==
    [][\A who \in Identities, ref \in KeyMaterialRef, day \in Days :
          RetrieveOutcome(who, ref, day) = "Ok"
          => \/ response'.op \in {"revoke_key", "add_access_policy"}
             \/ /\ RetrieveOutcome(who, ref, day)' = "Ok"
                /\ FirstOf(keys'[ref.key_id], ref.version).material
                     = FirstOf(keys[ref.key_id], ref.version).material]_vars

\* No key is served after activation + rotation period + overlap counted in
\* unbounded integers: where the u32 sums wrap, retrieval ends early, never late.
NeverServedLate ==
    \A who \in Identities, ref \in KeyMaterialRef, day \in Days :
        RetrieveOutcome(who, ref, day) = "Ok"
        => LET key == FirstOf(keys[ref.key_id], ref.version)
           IN  /\ ~key.revoked
               /\ day <= key.activated_day + rotation_policy.rotate_every_days
                          + rotation_policy.overlap_days

\* An authorised caller gets every unrevoked key through the last day of its
\* overlap, as long as that day fits in a u32: no build expires it earlier.
ServedThroughWindow ==
    \A who \in Identities, ref \in KeyMaterialRef, day \in Days :
        LET key == FirstOf(keys[ref.key_id], ref.version)
            lastDay == key.activated_day + rotation_policy.rotate_every_days
                       + rotation_policy.overlap_days
        IN  (/\ Authorized(who, ref)
             /\ HasVersion(keys[ref.key_id], ref.version)
             /\ ~key.revoked
             /\ lastDay < Word /\ day <= lastDay)
            => RetrieveOutcome(who, ref, day) = "Ok"
==============================================================================
