\* Appends with any sequence number before and after a storage fault; texts with
\* separators in them, so that several events share a canonical payload.
SPECIFICATION Spec
CONSTANTS
    NodeId = n1
    SignerId = signer
    Secret = secret
    Categories = {security}
    Timestamps = {1000}
    Actors <- MCEmpty
    Actions <- MCBarred
    Payloads <- MCBarred
    MaxRecords = 3
    MaxFaults = 1
VIEW MCView
INVARIANTS UntouchedLogVerifies RootHashPinsContent VerifiedRecordsWereAppended
PROPERTIES AppendKeepsVerdict
