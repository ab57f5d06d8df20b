SPECIFICATION Spec
CONSTANTS
    r1 = r1
    r2 = r2
    NoCall = NoCall
    Requests <- MCRequests
    Processes <- MCProcesses
    Sites <- MCSites
    Calls <- MCCalls
    Results <- MCResults
    Modules <- MCModules
    Asks <- MCAsks
    Uris = {u}
    Contents = {old, new}
INVARIANTS
    Answered
    NoEarlierClient
    BlamedIsUndone
    FaultsTraceable
    KeyErrorOnlyByClear
PROPERTY
    RequestsEnd
CHECK_DEADLOCK FALSE
