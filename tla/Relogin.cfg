CONSTANTS
    Account <- MCAccount
    Token = {t1,t2}
    Char = {c1}
    Owner <- MCOwner
    ServerId = {0}
    Self = 0
    AccountList <- MCAccountList
    NoChar = NoChar
    NoToken = NoToken
    MaxQueue = 1
    MaxVer = 2
    Faults = {}
    MaxFaults = 0
    PromptLinks = {}
    Timers = {"loginKick", "loginCleanup", "charKick", "charCleanup", "charAccounts", "delayQuit", "authCleanup"}
    PromptRegistries = TRUE
SPECIFICATION AnyLoginSpec
CHECK_DEADLOCK FALSE
INVARIANTS PlayingOrInAuthDb SessionData
SYMMETRY Symm
