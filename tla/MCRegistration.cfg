\* A registration, a cancellation of its nonce, a metadata update of the next,
\* and an edited draft.
SPECIFICATION AllSpec
CONSTANTS
    first = first
    cancel = cancel
    update = update
    Txs = {first, cancel, update}
    Kind <- MCKind
    Nonce <- MCNonce
    Says <- MCSays
    Texts = {"n0", "n1"}
    NoTx = NoTx
    NoText = NoText
    NoNonce = NoNonce
    NoBlock = NoBlock
    NoAttempt = NoAttempt
    NoObservation = NoObservation
    Confirmations = 1
    MaxAttempts = 2
    MaxBlocks = 3
    MaxFaults = 0
    MaxEdits = 1
INVARIANTS
    RegistrationInv
PROPERTIES
    RetiredOnlyByConfirmed
    IndexedIsTrue
