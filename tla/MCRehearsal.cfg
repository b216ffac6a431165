\* Two runs of one environment: branches, ledgers, plans and reports.
SPECIFICATION MCSpec
CONSTANTS
    r1 = r1
    r2 = r2
    history = history
    product = product
    doubtful = doubtful
    Runs <- MCRuns
    Environments = {"testing"}
    EnvironmentOf <- MCEnvironmentOf
    Rows = {history, product, doubtful}
    Named = {product}
    Conflicting = {doubtful}
    None = None
    MaxForks = 1
    MaxFaults = 1
INVARIANTS
    ReportHonest
    ResultBacked
    AppliedAsApproved
    RehearsalInv
PROPERTIES
    EveryBranchGoes
CHECK_DEADLOCK FALSE
