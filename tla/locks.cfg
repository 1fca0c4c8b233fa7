CONSTANTS
    p1 = p1
    p2 = p2
    p3 = p3
    s1 = s1
    s2 = s2
    c1 = c1
    c2 = c2
    c3 = c3
    b1 = b1
    k1 = k1
    Procs <- MCProcs
    MaxEpoch = 3
    TreeProcs <- MCProcs
    NoToken = NoToken
    MaxReaders = 3
    Savers <- MCSavers
    Contents <- MCContents
    NoContent = NoContent
    MaxVersions = 3
    Declarations <- MCDeclarations
    Configured = {"token", "key"}
    Connections <- MCConnections
    LeaseRequests <- MCRequests
    MaxAsked = 2
    Putters <- MCProcs
    Blobs = {b1}
    MaxInodes = 3
    Openers <- MCOpeners
    NoOpener = NoOpener
    Releases = {2, 3}
    Tables = 2
    Claimable = {k1}
    MaxEvents = 3
    MaxOpens = 3
SPECIFICATION LocksSpec
INVARIANTS BorrowKept LockUnlessRaced LeasesAreKept ArtifactsAreKept StorageIsSound
PROPERTY LibraryIsKept
CHECK_DEADLOCK FALSE
