\* Loading while the store changes, from manifests in several orders; a load that
\* runs goes on.
SPECIFICATION FairSpec
CONSTANTS
    Drafts <- MCManifests
    Paths <- MCPaths
    PathOrder <- MCPathOrder
    Tiers = {1, 2, 3}
    Payloads = {"w1", "w2", "cut"}
    Size <- MCSize
    SigningKeys = {k1}
    KeyIds = {pub1}
    NoKey = none
    SupportedMajor = 1
    ExpectedTiers = {1, 2}
    MaxSignatures = 1
INVARIANTS TypeOK VerdictIgnoresOrder
PROPERTIES ImplementsApproval ShardsMatchedDuringLoad StableLoadSucceeds
