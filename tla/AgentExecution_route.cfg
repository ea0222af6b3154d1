SPECIFICATION FairSpec
CONSTANTS
    rent = rent
    Actions <- OneAction
    Concurrency = 2
    MaxRequests = 3
    MaxFaults = 2
INVARIANTS
    TypeOK
    ExecutedIsBacked
    CheckedTransferApproved
    TransferredOnce
PROPERTIES
    RowsClose
    GateImplemented
\* Behaviours end at the bound on requests.
CHECK_DEADLOCK FALSE
