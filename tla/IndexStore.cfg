\* Every valid way to spread five transactions over a tree of five blocks.
CONSTANTS
    Block <- MCBlock
    NoBlock = "none"
    Height <- MCHeight
    Prev <- MCPrev
    BatchSize = 2
    Tx <- MCTx
    Vin <- MCVin
    Vout <- MCVout
    Fee <- MCFee
    Null = Null
    FastMerkle <- MCFastMerkle
    Pending <- MCPending
    Contents <- MCContents
SPECIFICATION Spec
INVARIANTS
    SpentMarkersExact
    HistoryExact
    AssetsExact
    FeesExact
