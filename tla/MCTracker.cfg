\* Every sequence of calls that emits up to seven events in two blocks.
SPECIFICATION Spec
CONSTANTS
    ProductIds = {product, zero}
    ZeroId = zero
    Wallets = {maker, carrier}
    Zero = Zero
    Names = {"", "a"}
    EmptyString = ""
    Unregistered = Unregistered
    MaxEvents = 7
    MaxBlocks = 2
    NoBlock = NoBlock
    NoProduct = NoProduct
    Unbound = Unbound
    NoShipment = NoShipment
    Nobody = Nobody
    NoUri = NoUri
    NoTx = NoTx
    NoEvent = NoEvent
INVARIANTS
    TrackerInv
    NeverRefused
    ProjectionShowsContract
CHECK_DEADLOCK FALSE
