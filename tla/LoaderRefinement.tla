--------------------------- MODULE LoaderRefinement ---------------------------
(***************************************************************************)
(* The manifest, the verifier and the loader of src/src/integrity.rs       *)
(* together implement the loading of approved models.                      *)
(***************************************************************************)
EXTENDS ModelLoader

\* Signing a stored hash approves what it was computed from, down to the fields; the
\* empty hash of a manifest that was never hashed approves nothing.
Approved == {<<one.key, one.of[1]>> : one \in {o \in signed : o.of # <<>>}}

\* Drafts that say different things have different texts.  The code leaves it to those
\* who choose the names: they are written without quoting their separators.
TextsUnambiguous ==
    \A d, e \in Drafts :
        canonical_payload(d) = canonical_payload(e) => canonical_fields(d) = canonical_fields(e)

\* A loaded model, up to the order of its tiers.
Shown(model) ==
    [model_id |-> model.model_id, tiers |-> Sorted(model.loaded_tiers, Tiers),
     shards |-> model.verified_shards]
Answer == IF response.model = <<>> THEN <<>> ELSE <<Shown(response.model[1])>>

Abstract == INSTANCE ApprovedModels WITH
    Keys <- SigningKeys,
    trusted <- pub_keys,
    approved <- Approved,
    answer <- Answer

\* As long as texts are unambiguous, every behaviour of the loader is one of loading
\* approved models: whatever is edited, hashed, signed, put back, damaged or registered,
\* and however the store changes under a load, the model returned has the name, the
\* tiers and each listed shard of one manifest whose hash the key now registered under
\* the manifest's key id signed.
ImplementsApproval == Abstract!Spec
==============================================================================
