\* Two rows that come and go, two calls of a row a batch, one fault.
SPECIFICATION FairSpec
CONSTANTS
    Rows = {r1, r2}
    Limit = 1
    Calls = {c1, c2}
    MaxFaults = 1
    NoCursor = NoCursor
PROPERTIES
    NothingPassedOver
    OrphansAsked
    PostedAskedWhenQuiet
CHECK_DEADLOCK FALSE
