SPECIFICATION FairSpec
CONSTANTS
    a = a
    b = b
    r1 = r1
    r2 = r2
    r3 = r3
    r4 = r4
    r5 = r5
    r6 = r6
    None = None
    Dojos <- MCDojos
    Schedules <- MCSchedules
    Failing <- MCFailing
    Reservations <- MCReservations
    Depth = 2
    MaxRounds = 2
    MaxReschedules = 2
    MayDie = TRUE
INVARIANTS
    BuiltFollowsSchedule
    PinsAccounted
    QuietBetweenRounds
PROPERTIES
    FeedSpec
    FeedSettles
