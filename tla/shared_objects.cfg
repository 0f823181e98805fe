SPECIFICATION Spec
CONSTANTS
    Users = {u1, u2}
    Applications <- Everything
    MaxFaults = 1
SYMMETRY Symmetry
CHECK_DEADLOCK FALSE
INVARIANT AssertionsKept
INVARIANT VersionsExact
INVARIANT RunsWhatItHolds
INVARIANT TaskTaken
INVARIANT ItemsAccountedFor
INVARIANT ProposalsSeen
