\* Whether every event of a log that verifies was appended, when texts have separators.
SPECIFICATION Spec
CONSTANTS
    NodeId = n1
    SignerId = signer
    Secret = secret
    Categories = {security}
    Timestamps = {1000}
    Actors <- MCBarred
    Actions <- MCBarred
    Payloads <- MCEmpty
    MaxRecords = 1
    MaxFaults = 1
VIEW MCView
INVARIANTS VerifiedEventsWereAppended
