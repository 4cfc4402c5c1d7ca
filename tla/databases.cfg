CONSTANTS
    Clients = {c1, c2}
    Names = {ann, bob}
    Passwords = {p1, p2}
    NoPassword = NoPassword
    MaxRequests = 3
    Calls = {d1, d2}
    Ids = {i1, i2}
    Records <- SampleRecords
    MaxOps = 3
    ListLimit = 1
    Servers = {s1, s2}
    MaxStarts = 3
    Files <- SampleFiles
    Environments <- SampleEnvironments
SPECIFICATION PartsSpec
SYMMETRY Symmetry
CHECK_DEADLOCK FALSE
INVARIANTS
    TokenIsTheAccounts
    OneSchema
    
PROPERTIES
    AccountsStay
    PasswordsStay
    ImplementsRegister
