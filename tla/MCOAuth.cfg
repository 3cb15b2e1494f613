SPECIFICATION Spec
CONSTANTS
    c1 = c1
    i1 = i1
    i2 = i2
    e1 = e1
    e2 = e2
    p1 = p1
    p2 = p2
    k1 = k1
    k2 = k2
    k3 = k3
    b1 = b1
    b2 = b2
    None = None
    Reqs <- MCReqs
    Codes <- MCCodes
    Tokens <- MCTokens
    Users <- MCUsers
    Members <- MCMembers
    Logins <- MCLogins
    Idents <- MCIdents
    Emails <- MCEmails
    Replicas <- MCReplicas
    Keys <- MCKeys
    Urls <- MCUrls
    Work <- MCWork
    CodeTTL = 0
    TokenTTL = 1
    Retention = 2
    MaxTime = 4
    AutoProvision = TRUE
    MaxStops = 1
INVARIANTS
    TypeOK
    ReuseRevokes
    NoRevival
    SubjectFirst
    NotAnothers
    Powerless
    Ready
PROPERTIES
    RedeemedOnce
    Settles
CHECK_DEADLOCK FALSE
