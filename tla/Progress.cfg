CONSTANTS
    Account <- MCAccount
    Token = {t1}
    Char = {c1}
    Owner <- MCOwner
    ServerId = {0}
    Self = 0
    AccountList <- MCAccountList
    NoChar = NoChar
    NoToken = NoToken
    MaxQueue = 1
    MaxVer = 1
    Faults = {"mapLink", "charCrash", "loginLink"}
    MaxFaults = 1
    PromptLinks = {"login", "map"}
    Timers = {"authCleanup", "loginKick", "charKick", "delayQuit"}
    PromptRegistries = TRUE
SPECIFICATION FairSpec
CHECK_DEADLOCK FALSE
PROPERTIES RetriedGetsIn LeftIsSaved
