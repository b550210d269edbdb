CONSTANTS
    n1 = n1
    n2 = n2
    i1 = i1
    i2 = i2
    area = area
    lnk = lnk
    rtr = rtr
    LinkKeys = {lnk}
    AreaKeys = {area, rtr}
    SelfKeys = {rtr}
    MaxSeq = 3
    MAXAGE = 2
    MAX_AGE_DIFF = 1
    MAX_SEQUENCE_NUMBER = 3
    Nbrs = {n1, n2}
    Ifs = {i1, i2}
    NbrIf <- MCNbrIf
    KeyIf <- MCKeyIf
    Broadcast = {i2}
    RouterId <- MCRouterId
    MyId = 1
    RouterKeys = {rtr}
    DdSeqMod = 4
    PerPacket = 1
    Loaders = {n2}
    Asked = area
    DbKeys = {area, rtr}
    Received <- MCReceived
    MaxRecv = 3
    MaxDds = 3
    MaxTicks = 1
SPECIFICATION MCSpec
INVARIANTS FloodedToAll 
PROPERTIES DatabaseNeverOlder
CHECK_DEADLOCK FALSE
