SPECIFICATION Spec
CONSTANTS
    ana = ana
    bea = bea
    acme = acme
    landlord = landlord
    none = none
    NoParty = none
    Users <- OneUser
    Employers <- Nothing
    Recipients <- OneRecipient
    Amounts <- OneAmount
    PolicyForms <- RuledForms
    RunIds <- OneRunId
    Adjustments <- Nothing
    Labels <- Nothing
    MaxTx = 7
INVARIANT ApprovalRulesRouted
\* Behaviours end at the bound on transactions.
CHECK_DEADLOCK FALSE
