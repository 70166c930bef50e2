CONSTANTS
    p1 = p1  p2 = p2  c1 = c1  c2 = c2  c3 = c3
    Procs = {p1, p2}
    Callers = {c1, c2, c3}
    Proc <- TwoAndOne
    Terms = {t1}
    Interval = 2
    Poll = 1
    MaxWait = 3
    Kinds = {"traffic", "free_flow"}
    KeyPoints = 2
    MaxTown = 4
SPECIFICATION FairSpec
INVARIANTS TornByCrashOnly LabelsHonest MeasuredIsOwn
PROPERTIES WithinPolicy LookupsEnd
