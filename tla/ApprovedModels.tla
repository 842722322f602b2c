---------------------------- MODULE ApprovedModels ----------------------------
(***************************************************************************)
(* What the model loader promises its user, without manifests, hashes and  *)
(* stores: a model is loaded only as the holder of a trusted key approved  *)
(* it, with the tiers and with every shard, as often as it was listed, of  *)
(* one approved content.                                                   *)
(***************************************************************************)
EXTENDS FiniteSets

CONSTANTS Keys, KeyIds, Paths,
          NoKey      \* not a key: nothing trusted

VARIABLES
    trusted,   \* key id -> the key trusted under it
    approved,  \* every <<key, content>> the holder of a key approved
    answer     \* the model the last call loaded, if any

vars == <<trusted, approved, answer>>

\* The model a content describes: its tiers, and how many shards it has under each path.
Described(content) ==
    [model_id |-> content.model_id, tiers |-> content.tiers,
     shards |-> [p \in Paths |-> Cardinality({s \in content.shards : s[2].path = p})]]

Init ==
    /\ trusted = [id \in KeyIds |-> NoKey]
    /\ approved = {}
    /\ answer = <<>>

Trust(id, key) ==
    /\ trusted' = [trusted EXCEPT ![id] = key]
    /\ answer' = <<>>
    /\ UNCHANGED approved

\* Any content can be approved, one at a time, and no approval is withdrawn.
Approve(key) ==
    /\ \E a \in approved' : a[1] = key /\ approved' = approved \cup {a}
    /\ answer' = <<>>
    /\ UNCHANGED trusted

Load(id) ==
    /\ \E a \in approved : a[1] = trusted[id] /\ answer' = <<Described(a[2])>>
    /\ UNCHANGED <<trusted, approved>>

\* Any call may load nothing.
Refuse ==
    /\ answer' = <<>>
    /\ UNCHANGED <<trusted, approved>>

Next ==
    \/ \E id \in KeyIds, key \in Keys : Trust(id, key)
    \/ \E key \in Keys : Approve(key)
    \/ \E id \in KeyIds : Load(id)
    \/ Refuse

Spec == Init /\ [][Next]_vars
==============================================================================
