SPECIFICATION FairCronSpec
CONSTANTS
    s1 = s1  s2 = s2  p1 = p1  t1 = t1
    every = every  once = once
    Null = Null
    Schedules = {s1, s2}
    Minutes <- Rare
    Horizon = 5
    MaxTime = 4
    Limit = 1
    Patches = {p1}
    Triggers = {t1}
    MaxRequests = 1
    MaxRestarts = 1
    MaxMisses = 1
CHECK_DEADLOCK FALSE
INVARIANTS
    CronTypeOK
    RepeatsHaveAReason
PROPERTIES
    DueRunsAreInvoked
    DueSchedulesFire
