CONSTANTS
    Account <- MCAccount
    Token = {t1}
    ServerId = {0}
    RequestId = {r1}
    Char = {c1}
    AccountList <- MCAccountList
    MaxQueue = 1
    NoToken = NoToken
SPECIFICATION Spec
CHECK_DEADLOCK FALSE
PROPERTIES ListMarksOnline
