CONSTANTS
    r1 = r1  r2 = r2  u1 = u1  u2 = u2  p1 = p1
    plain = plain  risky = risky
    NoContent = NoContent  NoUser = NoUser
    Workers = {w1}
    Users = {u1}
    Properties = {p1}
    Reviews = {r1, r2}
    Contents = {plain, risky}
    Risky = {risky}
    Short = {}
    VelocityLimit = 1
    ReplyTexts = {"plain", "blank"}
    Ops = {"submit", "edit", "delete", "approve", "request_edits", "reply", "time"}
    Author <- SameAuthor
    Home <- OneHome
    TenancyStart <- LaterIsR2
    Rent <- RentOf
SPECIFICATION Spec
CHECK_DEADLOCK FALSE
INVARIANTS ScoresExact CountExact RiskyIsFlagged
PROPERTIES ReplyKeepsItsWords UnflaggedIsUnsuspicious
