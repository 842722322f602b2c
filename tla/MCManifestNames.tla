--------------------------- MODULE MCManifestNames ---------------------------
(* Manifests with a separator in the name of a shard: one with two shards, and   *)
(* one whose only shard has a name that spells the line of the first and the     *)
(* beginning of the line of the second.                                          *)
EXTENDS LoaderRefinement

MCSize == [w1 |-> 13]

Shard(path) ==
    [path |-> path, tier |-> 1, bytes |-> 13,
     digest |-> [algorithm |-> SHA256_ALGORITHM, hex |-> <<SHA256_ALGORITHM, "w1">>]]
Draft(shards) ==
    [model_id |-> <<"lite-llm">>, version |-> <<1, 0>>, tiers |-> <<1>>, shards |-> shards]

Path1 == <<"tier1">>
Path2 == <<"tier2">>
LongPath ==
    <<"tier1", "|", "1", "|", "sha256", "|", "sha256", "w1", "|", "13", "newline",
      "shard", "|", "tier2">>

MCPaths == {Path1, Path2, LongPath}
MCPathOrder ==
    [p \in MCPaths |-> CASE p = Path1 -> 0 [] p = LongPath -> 1 [] p = Path2 -> 2]

MCManifests == {Draft(<<Shard(Path1), Shard(Path2)>>), Draft(<<Shard(LongPath)>>)}
==============================================================================
