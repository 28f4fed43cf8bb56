SPECIFICATION PlatformSpec
CONSTANTS
    u1 = u1
    u2 = u2
    u3 = u3
    d1 = d1
    d2 = d2
    ta = ta
    tb = tb
    tc = tc
    w1 = w1
    w2 = w2
    w3 = w3
    p1 = p1
    p2 = p2
    Scenes = {"accounts", "pricing", "coupons", "tickets", "ratings", "chat",
              "dashboards", "order pages", "web session", "order form", "throttle", "tasks",
              "coupon console"}
    Users = {u1, u2}
    FirstAdmin = u1
    Names = {n1, n2}
    Role = {"client", "admin"}
    Tokens = {t1, t2}
    NoToken = NoToken
    Sessions = {s1}
    Servers = {r1, r2}
    Versions = {v1, v2, v3}
    FirstVersion = v1
    Lists = {full, half}
    FirstList = half
    CompleteLists = {full}
    NoList = NoList
    Admins = {r1, r2}
    AdminCoupons = {k1, k2}
    Codes = {x, y}
    NoCode = NoCode
    CouponAdmins = {r1, r2}
    MaxEvents = 3
    TicketIds = {t1}
    Desks = {r1, r2}
    MaxThread = 4
    Deals = {d1, d2}
    PartiesOf <- MCPartiesOf
    Scores = {1, 2}
    Raters = {r1, r2}
    Talkers = {p1, p2}
    PageSize = 1
    Slots = {1, 2}
    MaxPosts = 2
    MaxLosses = 1
    Client = u1
    Boosters = {u2}
    NoBooster = NoBooster
    NoScreen = NoScreen
    Screens = {w1, w2, w3}
    UserOf <- MCUserOf
    MaxChanges = 2
    MaxFailures = 1
    PageOrders = {1, 2}
    m1 = m1
    PageBoosters = {m1, m2}
    Unassigned = Unassigned
    Buyer = Buyer
    Admin = Admin
    Viewers = {m1, Buyer, Admin}
    WorkLimit = 1
    ClientLimit = 1
    AdminLimit = 2
    Tabs = {b1, b2}
    MaxLogins = 2
    MaxTokens = 3
    Top = 4
    Leagues = 2
    Divisions = 2
    MaxPdl = 250
    PdlInputs = {0, 99, 250}
    Services = {"elo_boost", "duo_boost"}
    Offered <- MCOffered
    Extras = {"mmr_nerfed", "priority"}
    MinTotal = 100
    OrderLists <- MCOrderLists
    MaxEdits = 3
    UnpricedServices = {"coaching"}
    Queues = {"solo"}
    Emails = {e1}
    BadCode = BadCode
    Amounts = {40, 250}
    ExtraCounts = {1, 3}
    RankChoices = {1, 3}
    MaxFills = 3
    Callers = {c1, c2}
    HitLimit = 1
    Ttl = 2
    PruneThreshold = 2
    Horizon = 6
    MaxHits = 4
    TaskNames = {ta, tb, tc}
    Crons = {"x", "y"}
    NotArmed = NotArmed
    Builds = 2
    Declares <- MCDeclares
    JobAttempts = 3
    MaxMishaps = 2
SYMMETRY MCSymmetry
CONSTRAINT Bounded
INVARIANTS
    PlatformTypeOK
    OneActiveVersion
    CredentialsAreProven
    AuthorityIsOnRecord
    ScreensFollowTheServer
    RecordsAddUp
    CookieFollowsTheSession
    FormsFollowThePrices
PROPERTIES
    ImplementsPriceList
CHECK_DEADLOCK FALSE
