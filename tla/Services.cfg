SPECIFICATION FairSpec

CONSTANTS
    Users = {u1, u2}
    Reviews = {r1, r2}
    MaxEntries = 2
    Calls = {c1, c2}
    MaxErrors = 2
    Timeout = 3
    Processes = {p1, p2}
    Requests = {q1, q2}
    Nobody = Nobody
    Quota = 1
    BufferSize = 2
    Threshold = 2
    KeepDivisor = 1
    MaxMetered = 3
    Months = {0, 1}
    StripeIds = {s}
    NoStripe = NoStripe
    MaxInvoices = 4
    Tiers = {"community", "team"}
    MaxCustomers = 2
    MaxEvents = 3
    Replicas = {a1, a2}
    Checks = {k1, k2}
    ShortTTL = 1
    LongTTL = 2
    MaxDelay = 1
    LastTick = 4
    Reporters = {t}
    UsageEvents = {e1, e2}
    Interval = 2
    LastInstant = 7
    Names = {n1, n2}
    Catalogs = {x, y}
    Snapshots = {z}
    Promoters = {m}
    MaxRows = 3
    MaxPromotions = 1
    Callers = {b1, b2}
    Daily = 2
    Monthly = 3
    MaxCost = 2
    MonthLength = 2
    MaxAge = 2
    MaxDays = 4
    HourLength = 2
    DayLength = 2
    WeekLength = 2
    Schedulers = {l}
    MaxMinute = 6
    Absent = Absent
    Emails = {f1, f2, f3}
    LockNumbers = {1, 2}
    SeatLimit = 2
    Window = 4
    BurstLimit = 2
    Late = 1
    Early = 1
    Grace = 2
    MaxClock = 7
    MaxHits = 4

INVARIANTS
    TypesOK
    ReviewedBeforeApplied
    NoPhantomSuccess
    BilledOnce
    ReportedOnce
    RevocationSpreads
    PromotionsNameOneEnvironment
    NumbersAreDense
    TierComesFromStripe
    OvershootIsOneCall
    SlotsAreServedOnce
    SeatsAreLimited
    BurstIsLimited

PROPERTY CallsEnd

CHECK_DEADLOCK FALSE
