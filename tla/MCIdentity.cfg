SPECIFICATION Spec
CONSTANTS
    Keys <- MCKeys
    Ids <- MCIds
    KeyOf <- MCKeyOf
    Rank <- MCRank
    Hex <- MCHex
    Past <- MCPast
    Wallets = {m, x}
    Maker = m
    Stranger = x
    Names = {n, o}
    Name = n
    OtherName = o
    Texts = {chain}
    ChainText = chain
    NoRow = NoRow
    Nobody = Nobody
    NoText = NoText
    MaxForks = 2
    MaxEdits = 1
INVARIANTS
    IdentityInv
    RightsProven
    DraftReturns
    ReconciledIsIndexable
CHECK_DEADLOCK FALSE
