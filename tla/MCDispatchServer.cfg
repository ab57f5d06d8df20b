SPECIFICATION Spec
CONSTANTS
    r1 = r1
    r2 = r2
    NoCall = NoCall
    Requests <- MCRequests
    Processes <- MCProcesses
    Sites <- ServerSites
    Calls <- ServerCalls
    Results <- MCResults
    Modules <- MCModules
    Asks <- MCAsks
    Uris = {u}
    Contents = {old, new}
INVARIANT
    CalledIsAnswered
CHECK_DEADLOCK FALSE
