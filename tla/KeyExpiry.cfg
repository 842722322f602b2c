\* The retrieval window when day arithmetic wraps (release build).
SPECIFICATION Spec
CONSTANTS
    model_key = model_key
    blank = blank
    loader = loader
    Encryption = Encryption
    Signature = Signature
    KeyIds <- MCKeyIds
    BlankKeyId = blank
    Kinds = {Encryption}
    Identities = {loader}
    Seeds = {1}
    Days <- MCAllDays
    AccessRules <- MCOneRule
    RotationPolicies <- MCWidePolicies
    Word = 8
    OverflowChecks = FALSE
    MaxVersions = 1
INVARIANTS NeverServedLate ServedThroughWindow
