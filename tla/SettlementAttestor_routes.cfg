SPECIFICATION FairSpec
CONSTANTS
    ana = ana
    bea = bea
    Users <- TwoUsers
    Payments <- AllPayments
    Concurrency = 2
    MaxRequests = 3
    MaxAborts = 1
INVARIANTS
    TypeOK
    NamedCreditIsGood
    ProcessedIsCredited
    CreditedOnce
PROPERTIES
    CreditKept
    SettledIsCredited
\* Behaviours end at the bound on requests.
CHECK_DEADLOCK FALSE
