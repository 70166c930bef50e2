CONSTANTS
    Workers = {w1, w2}
    Deciders = {w1}
    Phones = {p1, p2}
    Accounts = {a1, a2}
    Agents = {g1}
    Ops = {"login", "confirm", "close", "claim", "approve", "reject"}
    NoPhone = NoPhone
    NoAccount = NoAccount
    NoAgent = NoAgent
SPECIFICATION Spec
CHECK_DEADLOCK FALSE
INVARIANTS GrantedOnce BindingWasProved
PROPERTIES ImplementsProfiles
