SPECIFICATION FairNetworkSpec
CONSTANTS
    Servers <- MCServers
    InitialBufSize = 2
    MaxHeaderSize = 4
    MaxBodySize = 3
    ReadSize = 2
    Wires <- MCWires
    Layouts <- MCLayouts
    MAX_POINTER_DEPTH = 2
    Queries <- MCQueries
    Uris <- MCUris
    Numbers <- MCNumbers
    Lower <- MCLower
    Ipv6Words <- MCIpv6
    Timeout = 2
    MaxPacket = 3
    MaxLength = 4
    Sockets = {s1, s2}
    Fds = {3, 4, 5}
    Length = 2
    MaxCalls = 3
    MdnsSources <- MCSources
    Links <- MCLinks
    IfNames <- MCIfNames
    MdnsDatagrams <- MCDatagrams
    MdnsTimeout = 2
INVARIANTS SplitIndependent NameIsReference AnswerIsOwn CancelIsPrompt
           DescriptorsAreOwn SuccessIsWhole MulticastIsClean QueryIsRead
PROPERTIES NetworkEnds OriginIsStable
CHECK_DEADLOCK FALSE
