SPECIFICATION Spec
CONSTANTS
    home = home
    busy = busy
    quiet = quiet
    empty = empty
    Channels = {home, busy, quiet, empty}
    Configured <- ConfiguredDef
    Directory <- DirectoryDef
    Users <- UsersDef
    MaxChannels = 2
    MaxMessages = 2
    MaxFaults = 2
    MaxCalls = 1
    Requested = {home, busy}
    Absent = Absent
INVARIANTS
    StreamIsWhole
    SubscribedToAll
    DisconnectLeavesNothing
PROPERTIES
    DiscoveryRespectsMax
    StaysSubscribed
    DiscoveryGoesOn
CHECK_DEADLOCK FALSE
