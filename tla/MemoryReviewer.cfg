\* Whether an accepted crate's boundaries have reviewers.
SPECIFICATION Spec
CONSTANTS
    Profiles <- MCProfiles
    MaxUnsafe = 1
    MaxFfi = 1
INVARIANTS AcceptedBoundariesHaveReviewers
