SPECIFICATION ShellFairSpec
CONSTANTS
    Segments <- MCSegments
    Paths <- MCPaths
    Listings <- MCListings
    MaxNavigations = 4
    MaxHistory = 2
    Null = Null
INVARIANTS
    ShellTypeOK
    HighlightFollowsLocation
    NewestShowsLocation
PROPERTY NavigationSettles
