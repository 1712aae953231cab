CONSTANTS
    Account <- MCAccount
    Token = {t1}
    Char = {c1}
    Owner <- MCOwner
    ServerId = {0}
    Self = 0
    AccountList <- MCAccountList
    NoChar = NoChar
    NoToken = NoToken
    MaxQueue = 2
    MaxVer = 2
    Faults = {"mapLink", "charCrash", "mapCrash", "loginLink"}
    MaxFaults = 1
    PromptLinks = {}
    Timers = {"loginKick", "loginCleanup", "charKick", "charCleanup", "charAccounts", "delayQuit", "authCleanup"}
    PromptRegistries = TRUE
SPECIFICATION AnyLoginSpec
CHECK_DEADLOCK FALSE
INVARIANTS TypeOK NoRollback NothingLost
PROPERTIES KeepsLedger
