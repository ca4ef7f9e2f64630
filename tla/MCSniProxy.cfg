SPECIFICATION SniFairSpec
CONSTANTS
    http = http
    sni = sni
    t1 = t1
    t2 = t2
    h1 = h1
    h2 = h2
    p1 = p1
    p2 = p2
    Listeners <- MCListeners
    Conns <- MCConns
    Peers <- MCPeers
    PeerOf <- MCPeerOf
    Max = 2
    PerPeer = 2
    NoConn = NoConn
    MAX_CLIENT_HELLO = 40
    AllowPrivate = FALSE
    Tls <- MCTls
    TlsListener = sni
    Clients <- MCClients
    Reads <- MCReads
    Lists <- MCLists
    Answers <- MCAnswers
    Passthrough = FALSE
INVARIANTS
    TypeOK
    GlobalCeiling
    PeerAccounting
    NameSurvivesFragments
    RelaysAreFaithful
PROPERTIES
    AcceptLoopReturns
    PermitsComeBack
\* Every attempt has come and gone.
CHECK_DEADLOCK FALSE
