CONSTANTS
    Player = {1, 2, 3}
    PartyId = {1, 2}
    MaxParty = 3
    Level = {1, 2, 3, 4}
    ShareLevel = 2
    MaxLosses = 1
    Setups <- MCSetups
SPECIFICATION Spec
CHECK_DEADLOCK FALSE
INVARIANTS TypeOK CopiesAgree LeadersAgree DataIsOfMembers SdIsOfParty RowsFollow NobodyTwice ShareInRange
PROPERTIES MembersAsAsked AskedIsAnswered
