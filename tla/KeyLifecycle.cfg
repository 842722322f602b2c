\* Order of generate, rotate and revoke, and the key registry they implement; versions
\* run into the u32 limit.
SPECIFICATION Spec
CONSTANTS
    model_key = model_key
    blank = blank
    loader = loader
    Encryption = Encryption
    Signature = Signature
    KeyIds <- MCKeyIds
    BlankKeyId = blank
    Kinds = {Encryption, Signature}
    Identities = {loader}
    Seeds = {1}
    Days <- MCDayZero
    AccessRules <- MCTwoRules
    RotationPolicies <- MCShortPolicy
    Word = 4
    OverflowChecks = FALSE
    MaxVersions = 3
INVARIANTS TypeOK BucketsOrdered
PROPERTIES RevocationIsPermanent RotationIsFresh ServiceIsStable ImplementsRegistry
