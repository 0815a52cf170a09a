SPECIFICATION AuthSpec
CONSTANTS
    Emails = {a, b}
    Clients = {c1, c2}
    Browsers = {b1, b2}
    Providers = {github, google}
    Subjects = {s1}
    Window = 2
    PerIp = 2
    PerEmail = 1
    MagicMaxAge = 1
    PurgeAfter = 2
    StateMaxAge = 1
    RefreshAfter = 0
    SessionMaxAge = 1
    EmailMode = "smtp"
    Configured = TRUE
    PublicHttps = TRUE
    Quotas <- MCOneQuota
    None = None
SYMMETRY MCSymmetry
CHECK_DEADLOCK FALSE
INVARIANTS
    SameAddressOneAccount
