CONSTANTS
    c1 = c1
    c2 = c2
    c3 = c3
    d1 = d1
    d2 = d2
    r = r
    local = local
    other = other
    NoCall = NoCall
    Calls <- MCCalls
    Requests <- MCRequests
    Orgs <- MCOrgs
    LocalOrg = local
    RequestOf <- MCRequestOf
    OrgOf <- MCOrgOf
SPECIFICATION FairSpec
INVARIANT FlightIsShared
PROPERTY EveryCallEnds
CHECK_DEADLOCK FALSE
