SPECIFICATION Spec
CONSTANTS
    ann = ann
    bob = bob
    NoUser = NoUser
    Users = {ann, bob}
    Policies <- MCPolicies
    Workloads <- MCWorkloads
    Alone = {"fullFlow", "payroll", "confirm"}
    Payrolls <- MCPayrolls
    Parties <- MCParties
    RoundedUp <- MCRoundedUp
    Concurrency = 2
    MaxFaults = 1
SYMMETRY Symmetric
INVARIANTS
    TypeOK
    LedgerConserves
    UserKeepsPolicy
    SerialUserConsistent
PROPERTIES
    OthersUndisturbed
CHECK_DEADLOCK FALSE
