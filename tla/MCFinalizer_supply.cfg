CONSTANTS
    Users = {u1}
    Masternodes = {m1, m2}
    Rewards <- MCRewards
    GasCosts <- MCGasCosts
    BigBalance = 2
    InitBalance = 1
    SnapshotTotal = 2
    MigrationHeight = 2
    MaxBlocks = 3
    MaxTxs = 2

SPECIFICATION Spec

PROPERTY
    SealPreservesSupply
