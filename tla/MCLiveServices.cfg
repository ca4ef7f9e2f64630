SPECIFICATION FairSpec
CONSTANTS
    MaxRequests = 2
    CaseOf <- MCCaseOf
    PublicSuffixes <- MCPublicSuffixes
    Starred <- MCStarred
    Escapes <- MCEscapes
    NotUtf8 <- MCNotUtf8
    Revisions <- MCRevisions
    NoIndex = NoIndex
    MaxFailures = 1
    Operator <- MCOperator
    Inputs <- MCInputs
    Passthrough = FALSE
    AllowHostPort = FALSE
INVARIANTS
    LiveListUsable
    RoutesBySpecificity
    KeysNameObjects
PROPERTIES
    RefreshCatchesUp
