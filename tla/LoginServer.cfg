CONSTANTS
    Account <- MCOneAccount
    Token = {t1, t2}
    ServerId = {0, 1}
    RequestId = {r1}
    Char = {c1}
    AccountList <- MCAccountList
    MaxQueue = 1
    NoToken = NoToken
SPECIFICATION Spec
INVARIANTS TypeOK GrantedOnce AuthIsNewest HeldByConnected
CHECK_DEADLOCK FALSE
