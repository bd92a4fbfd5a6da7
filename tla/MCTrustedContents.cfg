SPECIFICATION MCSpec
CONSTANTS
    v1 = v1
    v2 = v2
    p1 = p1
    p2 = p2
    script = script
    old = old
    new = new
    plain = plain
    Places <- MCPlaces
    Versions <- MCVersions
    Procs <- MCProcs
    MaxCommands = 3
    MaxMishaps = 1
    Requests <- MCRequests
    Runners <- MCProcs
    Paths <- MCPaths
    Contents <- MCContents
    Declares <- MCDeclares
    Order <- MCOrder
    Console <- MCConsole
    Grants <- MCGrants
    Asks <- MCAsks
    MaxTrustCommands = 2
    MaxTrustMishaps = 1
    MaxChanges = 1
SYMMETRY MCSymmetry
INVARIANTS
    TrustedContentsRun
CHECK_DEADLOCK FALSE
