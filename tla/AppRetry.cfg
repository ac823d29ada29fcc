SPECIFICATION Spec
CONSTANTS
    ada = ada
    ben = ben
    Accounts = {ada, ben}
    Rewards = {coffee}
    Price <- MCPrice
    Balance <- MCBalance
    Opening = 1
    Configured = TRUE
    Visited = {"Overview", "Activity"}
    None = None
INVARIANTS RetryIsOffered
