\* Drafts and shipments while one worker indexes three forks.
SPECIFICATION LifecycleSpec
CONSTANTS
    k1 = k1
    w1 = w1
    alice = alice
    Keys = {k1}
    Workers = {w1}
    Addresses = {alice}
    NoWorker = NoWorker
    NoBlock = NoBlock
    NoProduct = NoProduct
    NoShipment = NoShipment
    Unbound = Unbound
    Nobody = Nobody
    NoUri = NoUri
    NoTx = NoTx
    NoEvent = NoEvent
    Genesis = "g"
    Blocks <- MCBlocks
    Height <- MCHeight
    Path <- MCPath
    Logs <- MCLogs
    Texts <- MCTexts
    Txs <- MCTxs
    EventIds <- MCEventIds
    Products <- MCProducts
    Histories <- MCHistories
    StartBlock <- MCStart
    ForksReturn = FALSE
    Confirmations = 0
    MaxBatch = 2
    MaxReorgDepth = 3
    HeadLag = 0
    MaxFaults = 0
    Names <- MCNames
    MaxEdits = 1
INVARIANTS
    LifecycleInv
    DraftGivenBack
PROPERTIES
    RegisteredOnlyByChain
