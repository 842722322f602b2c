\* Shards across rotation, revocation and repeated generation, with storage faults;
\* u32 sums panic (debug build).
SPECIFICATION StorageSpec
CONSTANTS
    model_key = model_key
    blank = blank
    loader = loader
    Encryption = Encryption
    KeyIds <- MCKeyIds
    BlankKeyId = blank
    Kinds = {Encryption}
    Identities = {loader}
    Seeds = {1, 2}
    Days <- MCDays
    AccessRules <- MCOneRule
    RotationPolicies <- MCPolicies
    Word = 3
    OverflowChecks = TRUE
    MaxVersions = 2
    Tiers = {1, 2}
    ShardSeeds = {42, 43}
    Plaintexts = {"w1", "w2"}
    NoBytes = none
    MaxWrites = 2
VIEW MCView
INVARIANTS DecryptedWasEncrypted ReadableWhileServed KeyAndNonceNotShared
