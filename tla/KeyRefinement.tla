---------------------------- MODULE KeyRefinement ----------------------------
(***************************************************************************)
(* The key manager implements the key registry: a caller cannot tell that  *)
(* buckets hold shadowed duplicates of a version.                          *)
(***************************************************************************)
EXTENDS KeyManagement

\* What is visible of a managed key.
Shown(key) == [reference |-> key.reference, material |-> key.material, revoked |-> key.revoked]

\* The keys lookups find: of each version, the first in its bucket.
Visible(s) == {i \in 1 .. Len(s) : IsFirst(s, VersionAt(s, i), i)}
Looked(s) == {Shown(s[i]) : i \in Visible(s)}
Registry == UNION {Looked(keys[id]) : id \in KeyIds}

Abstract == INSTANCE KeyRegistry WITH
    registry <- Registry,
    Versions <- U32,
    Refusals <- Errors

\* Every behaviour of the key manager is one of the registry: its callers see one
\* key per version, the first issued, whatever order versions are generated, rotated
\* and revoked in.
ImplementsRegistry == Abstract!Spec
==============================================================================
