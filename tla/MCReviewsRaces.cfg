CONSTANTS
    r1 = r1  r2 = r2  u1 = u1  u2 = u2  p1 = p1
    plain = plain  risky = risky
    NoContent = NoContent  NoUser = NoUser
    Workers = {w1, w2}
    Users = {u1}
    Properties = {p1}
    Reviews = {r1}
    Contents = {plain}
    Risky = {}
    Short = {}
    VelocityLimit = 3
    ReplyTexts = {"plain"}
    Ops = {"submit", "edit", "delete", "approve", "reject", "reply", "withdraw", "anonymise"}
    Author <- SameAuthor
    Home <- OneHome
    TenancyStart <- LaterIsR2
    Rent <- RentOf
SPECIFICATION FairSpec
CHECK_DEADLOCK FALSE
INVARIANTS TypeOK PublicationAudited AuditedRowsSurvive ScoreCountsOnlyModerated
PROPERTIES RequestsEnd ImplementsPublication
