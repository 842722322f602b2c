----------------------------- MODULE KeyRegistry -----------------------------
(***************************************************************************)
(* What the key manager promises its callers, without buckets, positions   *)
(* and dates: at most one key per identifier and version, the first one    *)
(* issued; it is never replaced, and only revocation changes it.           *)
(***************************************************************************)
EXTENDS Integers

CONSTANTS KeyIds, Kinds, Identities, Seeds, AccessRules,
          Versions,    \* the versions a key may have
          Refusals     \* the errors a call may return

VARIABLES
    registry,   \* the keys callers can name
    policies,   \* identity -> [allowed_key_ids, allowed_kinds]
    response    \* what the last call returned

vars == <<registry, policies, response>>

Reference == [key_id : KeyIds, version : Versions, kind : Kinds]

\* The key a reference was issued for, made from its seed.
Issued(ref, seed) ==
    [reference |-> ref,
     material |-> [key_id |-> ref.key_id, kind |-> ref.kind, version |-> ref.version, seed |-> seed],
     revoked |-> FALSE]

Named(key, id, version) == key.reference.key_id = id /\ key.reference.version = version
Taken(id, version) == \E key \in registry : Named(key, id, version)
With(ref, seed) ==
    IF Taken(ref.key_id, ref.version) THEN registry ELSE registry \cup {Issued(ref, seed)}

Answer(op, result, value) == response' = [op |-> op, result |-> result, value |-> value]

Init ==
    /\ registry = {}
    /\ policies = [who \in Identities |-> [allowed_key_ids |-> {}, allowed_kinds |-> {}]]
    /\ response = [op |-> "new", result |-> "Ok", value |-> <<>>]

AddPolicy(who, rule) ==
    /\ policies' = [policies EXCEPT ![who] = rule]
    /\ Answer("add_access_policy", "Ok", <<>>)
    /\ UNCHANGED registry

\* The call succeeds for a version that is taken, and changes nothing.
Issue(ref, seed) ==
    /\ ref.version > 0
    /\ registry' = With(ref, seed)
    /\ Answer("generate_key", "Ok", <<ref>>)
    /\ UNCHANGED policies

\* The kind is one the identifier was generated with, not always that of a key in
\* the registry.
Rotate(ref, seed) ==
    /\ \E key \in registry : key.reference.key_id = ref.key_id
    /\ \A key \in registry : key.reference.key_id = ref.key_id => key.reference.version < ref.version
    /\ registry' = registry \cup {Issued(ref, seed)}
    /\ Answer("rotate_key", "Ok", <<ref>>)
    /\ UNCHANGED policies

Revoked(key) == [reference |-> key.reference, material |-> key.material, revoked |-> TRUE]

Revoke(id, version) ==
    /\ Taken(id, version)
    /\ registry' = {IF Named(key, id, version) THEN Revoked(key) ELSE key : key \in registry}
    /\ Answer("revoke_key", "Ok", <<>>)
    /\ UNCHANGED policies

Serve(who, ref) ==
    /\ ref.key_id \in policies[who].allowed_key_ids
    /\ ref.kind \in policies[who].allowed_kinds
    /\ \E key \in registry :
          /\ Named(key, ref.key_id, ref.version)
          /\ ~key.revoked
          /\ Answer("retrieve_key", "Ok", <<key.material>>)
    /\ UNCHANGED <<registry, policies>>

\* A call that is refused changes nothing.
Refuse(op, err) ==
    /\ Answer(op, err, <<>>)
    /\ UNCHANGED <<registry, policies>>

Next ==
    \/ \E who \in Identities, rule \in AccessRules : AddPolicy(who, rule)
    \/ \E ref \in Reference, seed \in Seeds : Issue(ref, seed) \/ Rotate(ref, seed)
    \/ \E id \in KeyIds, version \in Versions : Revoke(id, version)
    \/ \E who \in Identities, ref \in Reference : Serve(who, ref)
    \/ \E op \in {"generate_key", "rotate_key", "revoke_key", "retrieve_key"}, err \in Refusals :
          Refuse(op, err)

Spec == Init /\ [][Next]_vars
==============================================================================
