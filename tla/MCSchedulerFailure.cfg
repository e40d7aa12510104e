SPECIFICATION Spec
CONSTANTS
    s1 = s1
    s2 = s2
    o1 = o1
    Sources = {s1, s2}
    Scheduler = Scheduler
    Others = {o1}
    Interval = 1
    Unchecked = {}
    MaxFaults = 1
    None = None
PROPERTY FailureRecorded
