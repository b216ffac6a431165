\* Two workers, legacy rows, two deployment anchors, a recovery window of one block, a failure.
SPECIFICATION Spec
CONSTANTS
    k1 = k1
    k2 = k2
    w1 = w1
    w2 = w2
    alice = alice
    bob = bob
    Keys = {k1}
    Workers = {w1, w2}
    Addresses = {alice, bob}
    NoWorker = NoWorker
    NoBlock = NoBlock
    NoProduct = NoProduct
    NoShipment = NoShipment
    Unbound = Unbound
    Nobody = Nobody
    NoUri = NoUri
    NoTx = NoTx
    NoEvent = NoEvent
    Genesis = "g"
    Blocks <- MCBlocks
    Height <- MCHeight
    Path <- MCPath
    Logs <- MCLogs
    Texts <- MCTexts
    Txs <- MCTxs
    EventIds <- MCEventIds
    Products <- MCProducts
    Histories <- MCHistories
    StartBlock <- MCStart
    ForksReturn = FALSE
    Confirmations = 0
    MaxBatch = 2
    MaxReorgDepth = 1
    HeadLag = 0
    MaxFaults = 1
INVARIANTS
    JournalExact
    HistoryExact
PROPERTIES
    ImplementsLedger
    AdoptionSound
