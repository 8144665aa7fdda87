CONSTANTS
    Leases = {"a"}
    MaxDhcpTries = 4
    CoopTries = 9
    SelectTries = 5
    TriesCap = 10
    LinkLocals <- ThreeLinkLocals
    ProbeNum = 3
    AnnounceNum = 2
    MaxMsgs = 2
SPECIFICATION Spec
INVARIANT StaticAddressKept
