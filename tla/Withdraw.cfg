\* Two devices of a user withdraw to one destination; one restart, lost session, throw or probe fails.
CONSTANTS
    Dests = {d1}
    Calls = {c1, c2}
    MaxRuns = 2
    MaxMints = 2
    MaxFaults = 1
SPECIFICATION FairSpec
INVARIANTS TypeOK DoneMeansLanded OneSubmissionPerRun
PROPERTIES ReplacedOnlySettled LandedReported
CHECK_DEADLOCK FALSE
