---------------------------- MODULE MCModelLoader ----------------------------
(* Small instances of manifest publishing and loading, with plain names.   *)
EXTENDS LoaderRefinement

\* Two payloads of one length, one of another.
MCSize == [w1 |-> 13, w2 |-> 13, cut |-> 9]

Shard(path, tier, algorithm, payload) ==
    [path |-> path, tier |-> tier, bytes |-> MCSize[payload],
     digest |-> [algorithm |-> algorithm, hex |-> <<algorithm, payload>>]]

Draft(version, tiers, shards) ==
    [model_id |-> <<"lite-llm">>, version |-> version, tiers |-> tiers, shards |-> shards]

Path1 == <<"tier1">>
Path2 == <<"tier2">>
Shard1 == Shard(Path1, 1, SHA256_ALGORITHM, "w1")
Shard2 == Shard(Path2, 2, SHA512_ALGORITHM, "w2")

MCPaths == {Path1, Path2, BlankPath}
MCPathOrder ==
    [p \in MCPaths |-> CASE p = BlankPath -> 0 [] p = Path1 -> 1 [] p = Path2 -> 2]

\* The publishing instance: one shard; two good versions, and one the loader refuses.
MCVersions == {Draft(<<1, 0>>, <<1>>, <<Shard1>>),
               Draft(<<1, 1>>, <<1>>, <<Shard1>>),
               Draft(<<2, 0>>, <<1>>, <<Shard1>>)}
MCOnePath == {Path1}

\* The loading instance: good manifests in two orders and with a shard twice, and
\* manifests refused for each of the loader's reasons.
MCManifests ==
    {Draft(<<1, 0>>, <<1, 2>>, <<Shard1, Shard2>>),
     Draft(<<1, 0>>, <<2, 1>>, <<Shard2, Shard1>>),
     Draft(<<1, 0>>, <<1, 2, 1>>, <<Shard2, Shard2, Shard1>>),
     Draft(<<1, 0>>, <<1>>, <<Shard1>>),
     Draft(<<1, 0>>, <<1, 2>>, <<Shard1, Shard(Path2, 3, SHA256_ALGORITHM, "w2")>>),
     Draft(<<1, 0>>, <<1, 2>>, <<Shard1, Shard(Path2, 2, "md5", "w2")>>),
     Draft(<<1, 0>>, <<1, 2>>, <<Shard1, Shard(BlankPath, 2, SHA256_ALGORITHM, "w2")>>),
     Draft(<<1, 0>>, <<1, 2>>, <<>>)}

\* With plain names the drafts of an instance have different texts.
ASSUME TextsUnambiguous
==============================================================================
