------------------------- MODULE MCEncryptedStorage -------------------------
(* One key with two versions, each of which may be generated twice, in the *)
(* debug build: the last day and the last version panic.                   *)
EXTENDS EncryptedStorage

CONSTANTS model_key, blank, loader, Encryption

MCKeyIds == {model_key}
MCOneRule == {[allowed_key_ids |-> {model_key}, allowed_kinds |-> {Encryption}]}

\* The first and the last day; under the second policy the day of retrieval overflows.
MCDays == {0, 2}
MCPolicies == {[rotate_every_days |-> 1, overlap_days |-> 1],
               [rotate_every_days |-> 2, overlap_days |-> 1]}

\* What the last call returned decides nothing that follows.
MCView == <<rotation_policy, keys, policies, held, stored, written>>
=============================================================================
