\* The verdict as the crate grows and is reviewed.
SPECIFICATION Spec
CONSTANTS
    Profiles <- MCProfiles
    MaxUnsafe = 2
    MaxFfi = 1
INVARIANTS DenyIsStrictest
PROPERTIES VerdictIsMonotone
