\* Every small part on its own.  The hex codec stops when its bytes are used up and its
\* text is lost.
SPECIFICATION Spec
CONSTANTS
    Roles = {"basic", "admin"}
    Tenants = {"acme", ""}
    BlankTenant = ""
    Actions = {"RunInference"}
    Tiers = {1, 2}
    NoTier = NoTier
    TierPolicies <- MCTierPolicies
    Sessions = {"s1", ""}
    BlankSession = ""
    MaxEvents = 4
    Days = {0, 20000}
    Ids <- MCIds
    Severities = {3, 4}
    MaxItems = 8
    EncodedBytes <- MCEncodedBytes
    Others <- MCOthers
    MaxBytes = 2
    \* The low eight bits of the hash: 0x25 of the offset and 0xb3 of the prime.
    Word = 256
    Offset = 37
    Prime = 179
    HashedBytes <- MCHashedBytes
CHECK_DEADLOCK FALSE
INVARIANTS
    ListedIsAllowed RolesOnlyHelp
    EventsTellTruth ReportAgreesWithListing MissingCanBeMended ReportFollowsMarks
    ArrivedDecodes DecodedIsEncoding OneByteNeverCollides
