SPECIFICATION Spec
CONSTANTS
    ana = ana
    bea = bea
    Users <- TwoUsers
    Payments <- TwoDeposits
    Concurrency = 1
    MaxRequests = 3
    MaxAborts = 0
INVARIANT PaymentsCredited
\* Behaviours end at the bound on requests.
CHECK_DEADLOCK FALSE
