CONSTANTS
    root = root
    x = x
    Accounts = {root, x}
    Root = root
    Registered = {x}
    r1 = r1
    r2 = r2
    Requests = {r1, r2}
    MaxTokens = 2
    MaxEvents = 3
SPECIFICATION AccountsSpec
SYMMETRY RequestSymmetry
PROPERTIES TokenSingleUse
CHECK_DEADLOCK FALSE
