\* Editing, hashing, signing, key registration and loading in any order.
SPECIFICATION Spec
CONSTANTS
    Drafts <- MCVersions
    Paths <- MCOnePath
    PathOrder <- MCPathOrder
    Tiers = {1}
    Payloads = {"w1"}
    Size <- MCSize
    SigningKeys = {k1, k2}
    KeyIds = {pub1, pub2}
    NoKey = none
    SupportedMajor = 1
    ExpectedTiers = {1}
    MaxSignatures = 2
PROPERTIES ImplementsApproval LoadedHashWasSigned SignedManifestIsAccepted
