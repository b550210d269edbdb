CONSTANTS
    n1 = n1
    i1 = i1
    own = own
    lnk = lnk
    area = area
    LinkKeys = {own, lnk}
    AreaKeys = {area}
    SelfKeys = {own}
    MaxSeq = 1
    MAXAGE = 2
    MAX_AGE_DIFF = 1
    MAX_SEQUENCE_NUMBER = 9
    Nbrs = {n1}
    Ifs = {i1}
    NbrIf <- MCNbrIf
    KeyIf <- MCKeyIf
    Broadcast = {i1}
    RouterId <- MCRouterId
    MyId = 1
    RouterKeys = {}
    DdSeqMod = 3
    PerPacket = 1
    N = n1
    PeerHdrs <- MCPeerHdrs
    MaxFaults = 1
    NetMax = 1
SPECIFICATION FairSpec
PROPERTIES AdjacencyForms
