CONSTANTS
    Admins = {a1, a2}
    Editors = {e1}
    Newcomers = {n1}
    Slots = {s1, s2}
    Ops = {"sso", "createUser", "apiToken", "login", "refresh", "logout", "updateUser", "deleteUser", "create", "update",
           "enable", "disable", "rotate", "deleteAuto", "run"}
    Bodies = {"editor", "deactivate", "admin", "activate"}
    AccessTTL = 1
    RefreshTTL = 2
    MaxRequests = 2
    MaxTime = 2
    Firings = {"webhook", "schedule", "run"}
    Clients = {c1, c2}
    Proxies = {p1}
    NoHeader = none
    Burst = 2
    Cost = 2
    MaxBuckets = 1
    PruneAge = 4
    StaleAge = 4
    MaxTicks = 5
    MaxAdmitted = 4
    Lines = {l1, l2}
    Keyed = {l1}
    MaxMessages = 4
    BatchRows = 2
    QueueRoom = 2
    MaxLogFaults = 2
    Tags = {t1, t2}
    FirstTag = t1
    NoPin = none
    Builds = {1, 2}
    Updaters = {s1, s2}
    MaxUpdates = 2
    MaxPushes = 1
    DbNames = {d1, d2}
    PortMin = 1
    PortMax = 2
    OtherPorts = {}
    StackPorts = {1}
    Asks = {s1, s2}
    MaxInstances = 2
    AdminClients = {s1, s2}
    MaxAdminSessions = 1
    SendBuffer = 1
    Topics = {w1}
    StackNames = {k1}
    RetiredNames = {k2}
    DatabaseNames = {k3}
    NoList = none
    MaxNews = 2
    MaxScans = 2
    MaxTopicEdits = 1
    MaxOther = 1
    NumFiles = 2
    NumStatements = 2
    Runners = {s1, s2}
    MaxRestarts = 2
    Columns = {x1}
    SettingKeys = {x2}
    SecretValues = {v1, v2, empty}
    EmptyValue = empty
    MaxSecretWrites = 3
    MaxEncryptRuns = 2
SPECIFICATION PartSpec
SYMMETRY Symmetry
INVARIANTS LogoutHolds AdminRemains NoEscalation DeletedIsDead TokenFitsTrigger
    WithinLimit LinesKept RetryMends ConfigRestored ClaimsHold
    AnomaliesReachClients MigrationsInOrder SecretsKept
CHECK_DEADLOCK FALSE
