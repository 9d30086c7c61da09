\* Every request of the instance, with up to two commits while it is served.
CONSTANTS
    Block <- MCBlock
    NoBlock = "none"
    Height <- MCHeight
    Prev <- MCPrev
    BatchSize = 2
    Tx <- MCTx
    Vin <- MCVin
    Vout <- MCVout
    Fee <- MCFee
    Null = Null
    FastMerkle <- MCFastMerkle
    Pending <- MCPending
    Contents <- MCContents
    Request <- MCRequest
    Amount <- MCAmount
    Rank <- MCRank
    Lower <- MCLower
    NotFound = NotFound
    MaxPageSize = 4
    MaxPageOffset = 4
    OverviewRows = 2
    SampleWindow = 2
    MaxCommits = 2
SPECIFICATION ApiSpec
INVARIANTS
    BlockReplyWhole
    TransactionReplyWhole
    CursorWalkExact
    OffsetWalkMissesNothing
    SupplyNotContradicted
    BalancesExact
    SearchComplete
    OverviewInOrder
