SPECIFICATION FairSpec
CONSTANTS
    ada = ada
    ben = ben
    Accounts = {ada, ben}
    Rewards = {coffee}
    Price <- MCPrice
    Balance <- MCBalance
    Opening = 1
    Configured = TRUE
    Visited = {"Overview", "Activity"}
    None = None
INVARIANTS TypeOK ClaimIsTheMembers ClaimIsVisible DemoAddsUp
PROPERTIES RedeemsOnAFreshBalance ErrorsAreKeptApart ClaimAppears
