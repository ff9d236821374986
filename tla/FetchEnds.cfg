CONSTANTS
    site = site
    other = other
    public1 = public1
    public2 = public2
    private = private
    Hosts = {site, other, private}
    Addresses = {public1, public2, private}
    Public = {public1, public2}
    Ports = {80, 443, 8080}
    AllowedPorts = {80, 443}
    Target <- Site
    Targets <- All
    HasSecondary = TRUE
    MaxRedirects = 2
    MaxBody = 3
    Chunks = {1, 2}
    TotalTimeout = 1
    Promised = 8
CHECK_DEADLOCK FALSE
SPECIFICATION FairFetchSpec
INVARIANTS
    OnlyPublicReached
    RequestsBounded
PROPERTIES
    EveryFetchEnds
