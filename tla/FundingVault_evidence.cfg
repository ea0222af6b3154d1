SPECIFICATION Spec
CONSTANTS
    ann = ann
    bob = bob
    main = main
    old = old
    other = other
    key = key
    mainnet = mainnet
    Unset = Unset
    Invalid = Invalid
    Refused = Refused
    DemoToken = DemoToken
    DemoVault = DemoVault
    BaseSepolia = BaseSepolia
    ChainIds = {BaseSepolia, mainnet}
    Usdc = Usdc
    Owner = Owner
    Agent = Agent
    Nobody = Nobody
    Users = {ann, bob}
    Vaults = {main, old}
    Tokens = {Usdc, other}
    Accounts = {Owner, Agent}
    Environments <- MCEnvironments
    Trafficked <- MCTrafficked
    Amounts = {1}
    Wealth = 1
    MaxCalls = 4
    MaxTransaction = 2
    MaxEvents = 3
    MaxRows = 2
SYMMETRY Symmetric
INVARIANTS
    TypeOK
    DepositsAreHeld
    VerifiedIsBacked
    
CHECK_DEADLOCK FALSE
