CONSTANTS
    r1 = r1  u1 = u1  u2 = u2  a1 = a1  w1 = w1  w2 = w2  i1 = i1  i2 = i2
    Workers = {w1, w2}
    Users = {u1, u2}
    Watchers = {u2}
    Areas = {a1}
    Reviews = {r1}
    Endpoints = {e1, e2}
    Rows = {i1, i2}
    Kinds = {"review"}
    Author <- WrittenByU1
    Home <- OneArea
    MaxFailures = 2
    Ops = {"watch", "subscribe", "unsubscribe", "approve", "close"}
    NoUser = NoUser  NoReview = NoReview  NoRow = NoRow  NoEndpoint = NoEndpoint
SYMMETRY Symmetric
SPECIFICATION Spec
CHECK_DEADLOCK FALSE
INVARIANTS NoDeadRowStays
PROPERTIES DroppedForCause
