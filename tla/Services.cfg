SPECIFICATION ServicesSpec
CONSTANTS
    \* OfficialPosts: two posts, polled in one batch, a poll beside a webhook
    Posts = {1, 2}
    SharedPosts = {1}
    Pollers = {poll}
    Hooks = {hook}
    OFFICIAL_POST_POLLING_ENABLED = TRUE
    FETCH_LIMIT = 2
    MAX_ATTEMPTS = 2
    MaxPostFaults = 1
    \* ServiceDay, for PublicFeed and LineStatus
    INSTANTS_PER_DAY = 2
    DAY_START_HOUR = 1
    \* PublicFeed: three links over two days, pages of one
    LinkIds = {1, 2, 3}
    Automated = {3}
    Instants = {2, 3, 4}
    Now = 4
    DAYS_BACK = 1
    PAGE_SIZE = 1
    Forests <- MCForests
    Walks <- MCWalks
    MaxEdits = 1
    \* PushAlerts: two incidents on two lines, three browsers, chunks of two
    Lines = {"A", "B"}
    Users = {"u1", "u2"}
    Tokens = {"t1", "t2", "t3"}
    LineChoices = {{"A", "B"}}
    Incidents = {"i1", "i2"}
    LinesOf <- MCLinesOf
    MAX_TOKENS_PER_USER = 2
    FCM_MULTICAST_LIMIT = 2
    MAX_RETRIES_PUSH = 1
    Nobody = Nobody
    InitialSubs <- MCSubs
    Browsers <- MCBrowsers
    Payloads <- MCPayloads
    MaxChanges = 1
    MaxPushFaults = 1
    \* TelegramEgress: two messages to a chat that takes one per window
    Calls = {"m1", "m2"}
    Chats = {"admin"}
    AdminChat = "admin"
    max_per_window = 1
    window_ticks = 2
    MAX_RETRIES = 2
    Backoffs = {1}
    MaxTicks = 3
    \* CreditLedger: two overlapping requests of up to three charges
    Charged = {"r1", "r2"}
    Prices <- MCPrices
    Grants = {1, 3}
    MaxGrants = 2
    \* BotAccounts
    Accounts = {"u1", "u2"}
    Telegrams = {"t1", "t2"}
    Codes = {"c1", "c2"}
    NoTelegram = "none"
    NoAccount = "none"
    MaxVerifies = 2
    \* LineStatus: weeks of two days of two hours
    StatusLines = {"A"}
    SEVERITY <- MCSeverity
    TaggedLinks = {"x"}
    NoLink = "none"
    Voters = {"v"}
    WINDOW = 1
    DAYS_IN_WEEK = 2
    weeks = 1
    MaxReports = 3
    MaxHour = 5
    \* SpottingDigest: two digests, the second up to a day late; one is given up
    Spottings = {"e1", "e2"}
    Channels = {"c1", "c2"}
    DELETABLE_DAYS = 1
    MaxInstant = 6
    MaxUndelivered = 1
    \* RangeImport
    Traces <- MCTraces
    NoValue = "null"
    Joined <- MCJoined
    THRESHOLD = 4
    MaxBreaks = 1
INVARIANTS
    ServicesTypeOK
    TwinsOnlyAcrossPaths
    AnnouncedByOneSend
    StayingLinksShownOnce
    PagesEndWithTheDay
    BadgeMatchesNesting
    CardsCoverTheWindow
    OneAlertPerCooldown
    EgressIsGoverned
    FreeCreditsNotOverdrawn
    SuccessMeansLinked
    
    EachEventInOneDigest
    SpansCoverTrace
PROPERTIES
    AckedIsLinked
    EveryPostIsLinkedOrPassed
    LiveTokensSurvive
CHECK_DEADLOCK FALSE
