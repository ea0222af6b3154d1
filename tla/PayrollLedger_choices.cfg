SPECIFICATION Spec
CONSTANTS
    ana = ana
    bea = bea
    acme = acme
    landlord = landlord
    none = none
    NoParty = none
    Users <- TwoUsers
    Employers <- OneEmployer
    Recipients <- OneRecipient
    Amounts <- OneAmount
    PolicyForms <- ChoiceForms
    RunIds <- OneRunId
    Adjustments <- RentShare
    Labels <- OneLabel
    MaxTx = 6
SYMMETRY UserSymmetry
INVARIANTS
    TypeOK
    LedgerInv
    AllocationOwned
PROPERTY
    GateImplemented
\* Behaviours end at the bound on transactions.
CHECK_DEADLOCK FALSE
