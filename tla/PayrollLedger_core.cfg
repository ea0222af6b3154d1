SPECIFICATION Spec
CONSTANTS
    ana = ana
    bea = bea
    acme = acme
    landlord = landlord
    none = none
    NoParty = none
    Users <- OneUser
    Employers <- Nothing
    Recipients <- OneRecipient
    Amounts <- OneAmount
    PolicyForms <- CoreForms
    RunIds <- OneRunId
    Adjustments <- Nothing
    Labels <- Nothing
    MaxTx = 7
INVARIANTS
    OneLiveVersion
    CreditAllocatedOnce
    ReleaseNeedsApproval
    ClearedIsReleased
    RunConservesCredit
PROPERTY
    ActionLifecycle
\* Behaviours end at the bound on transactions.
CHECK_DEADLOCK FALSE
