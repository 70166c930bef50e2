CONSTANTS
    Workers = {w1, w2}
    Phones = {p1}
    PerHour = 1
    PerDay = 1
    IpFactor = 1
    MaxAttempts = 2
    HourWindow = 1
    DayWindow = 2
    Slack = 1
    Metered = "ip"
    DiesAt = {"incr", "clear_attempts"}
SPECIFICATION FairSpec
CHECK_DEADLOCK FALSE
INVARIANTS GuessesBounded SmsWithinQuota CountersWillExpire
PROPERTIES ThrottleLifts
