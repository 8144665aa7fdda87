CONSTANTS
    Leases = {"a", "b"}
    MaxDhcpTries = 4
    CoopTries = 9
    SelectTries = 5
    TriesCap = 10
    LinkLocals <- ThreeLinkLocals
    ProbeNum = 3
    AnnounceNum = 2
    MaxMsgs = 8
SPECIFICATION FairSpec
INVARIANTS
    LinkLocalProbed
    BoundHasLease
PROPERTIES
    BootLeavesAddress
    StaticOnlyAfterSilence
    BootEnds
