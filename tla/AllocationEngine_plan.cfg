SPECIFICATION FairSpec
CONSTANTS
    Policies <- AllPolicies
    Amounts <- SmallAmounts
    Assets <- ThreeAssets
    Parties <- OneParty
    NewRecipients <- NoneOrRent
INVARIANTS
    TypeOK
    SharesFair
    SplitConserves
    LargeSharesWait
    PlansAreValid
