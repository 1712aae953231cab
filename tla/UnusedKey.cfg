CONSTANTS
    Account <- MCAccount
    Token = {t1,t2}
    Char = {c1}
    Owner <- MCOwner
    ServerId = {0}
    Self = 0
    AccountList <- MCAccountList
    NoChar = NoChar
    NoToken = NoToken
    MaxQueue = 1
    MaxVer = 1
    Faults = {}
    MaxFaults = 0
    PromptLinks = {"login", "map"}
    Timers = {"charAccounts"}
    PromptRegistries = TRUE
SPECIFICATION Spec
CHECK_DEADLOCK FALSE
INVARIANTS AuthNodeExpires
