--------------------------- MODULE MCKeyManagement ---------------------------
(* Small instances of the key manager.                                     *)
EXTENDS KeyRefinement

CONSTANTS model_key, blank, loader, Encryption, Signature

MCKeyIds == {model_key, blank}
MCTwoRules ==
    {[allowed_key_ids |-> {model_key}, allowed_kinds |-> {Encryption}],
     [allowed_key_ids |-> {}, allowed_kinds |-> {Encryption}]}
MCOneRule == {[allowed_key_ids |-> {model_key}, allowed_kinds |-> {Encryption}]}

\* The lifecycle instance: one day, sums far from the u32 limit, one policy of the
\* three refused by KeyManager::new for each of its two reasons.
MCDayZero == {0}
MCShortPolicy == {[rotate_every_days |-> 1, overlap_days |-> 1],
                  [rotate_every_days |-> 1, overlap_days |-> 2],
                  [rotate_every_days |-> 0, overlap_days |-> 0]}

\* The expiry instances: every day of the clock, periods that run past its end.
MCAllDays == U32
MCWidePolicies == [rotate_every_days : 0 .. 3, overlap_days : 0 .. 3]
==============================================================================
