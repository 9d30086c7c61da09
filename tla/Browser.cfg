\* Up to two renders waiting at a time.
SPECIFICATION FairSpec
CONSTANTS
    Path <- MCPath
    Unmatched <- MCUnmatched
    Refreshing <- MCRefreshing
    Awaits <- MCAwaits
    Hits <- MCHits
    None = None
    MaxPending = 2
PROPERTY RefreshesWhileShown
