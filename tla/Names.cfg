\* Whether what loads says what the signed manifest said, when names have separators.
SPECIFICATION Spec
CONSTANTS
    Drafts <- MCManifests
    Paths <- MCPaths
    PathOrder <- MCPathOrder
    Tiers = {1}
    Payloads = {"w1"}
    Size <- MCSize
    SigningKeys = {k1}
    KeyIds = {pub1}
    NoKey = none
    SupportedMajor = 1
    ExpectedTiers = {1}
    MaxSignatures = 1
PROPERTIES LoadedAsPublished
