\* Liveness: every attempt is refreshed now and again; a failing call.
SPECIFICATION FairSpec
CONSTANTS
    first = first
    cancel = cancel
    update = update
    Txs = {first, cancel}
    Kind <- MCKind
    Nonce <- MCNonce
    Says <- MCSays
    Texts = {"n0"}
    NoTx = NoTx
    NoText = NoText
    NoNonce = NoNonce
    NoBlock = NoBlock
    NoAttempt = NoAttempt
    NoObservation = NoObservation
    Confirmations = 1
    MaxAttempts = 2
    MaxBlocks = 3
    MaxFaults = 1
    MaxEdits = 0
PROPERTIES
    Settles
