SPECIFICATION Spec
CONSTANTS
    PathBytes <- MCPathBytes
    TypeWords <- MCTypeWords
    WELL_KNOWN <- MCWellKnown
    c1 = c1
    c2 = c2
    p1 = p1
    p2 = p2
    Clients <- MCClients
    Proxies <- MCProxies
    Trusted <- MCTrusted
    Local = Local
    Junk = Junk
    None = None
    BanKeys = {"peer", "forwarded"}
    MaxPath = 7
    MaxType = 5
    MaxLines = 2
    MaxTokens = 3
    MaxHops = 2
INVARIANTS
    DotfileExact
    ScannableExact
    KeyIsNearestPeer
    LastTokenExact
CHECK_DEADLOCK FALSE
