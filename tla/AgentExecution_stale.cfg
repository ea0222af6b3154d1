SPECIFICATION Spec
CONSTANTS
    rent = rent
    Actions <- OneAction
    Concurrency = 1
    MaxRequests = 2
    MaxFaults = 0
INVARIANT TransfersApproved
\* Behaviours end at the bound on requests.
CHECK_DEADLOCK FALSE
