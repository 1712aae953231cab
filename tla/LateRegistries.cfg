CONSTANTS
    Account <- MCAccount
    Token = {t1}
    Char = {c1}
    Owner <- MCOwner
    ServerId = {0}
    Self = 0
    AccountList <- MCAccountList
    NoChar = NoChar
    NoToken = NoToken
    MaxQueue = 2
    MaxVer = 1
    Faults = {}
    MaxFaults = 0
    PromptLinks = {"login"}
    Timers = {}
    PromptRegistries = FALSE
SPECIFICATION Spec
CHECK_DEADLOCK FALSE
INVARIANTS NoRollback
