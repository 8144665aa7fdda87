CONSTANTS
    Cyclic = {"arp", "dhcp_fine"}
    Tcp = "tcp"
    Interval <- MCInterval
    Periodic <- MCPeriodic
    PoolSize = 3
    Modulus = 50
    TickMs = 4
    StartTime = 8
    MaxLate = 16
SPECIFICATION FairSpec
INVARIANTS
    TimersKept
PROPERTIES
    ImplementsTimerService
    PeriodicTickLate
    CheckReturns
    TimersServed
