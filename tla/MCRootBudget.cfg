SPECIFICATION Spec
CONSTANTS
    c1 = c1
    c2 = c2
    g1 = g1
    r1 = r1
    s1 = s1
    Roots = {r1}
    Groups = {g1}
    Calls = {c1, c2}
    Sources = {s1}
    UsageIds = {u1, u2}
    GroupRoot <- MCGroupRoot
    GroupOf <- MCGroupOf
    SourcesOf <- MCSourcesOf
    KindOf <- MCKinds
    CostOf <- MCCost
    TotalLimit <- MCLimit
    PerCallCap <- MCCap
    Amounts = {0, 2}
    MaxInt = 3
    MaxLeases = 3
    JobLeases = {0, 2}
    LeaseTerms = {1}
    MaxTime = 2
    MaxEpoch = 2
SYMMETRY UsageSymmetry
INVARIANTS
    LedgerSafe
    CommittedWithinLimit
    LedgerMatchesCalls
PROPERTIES
    BooksAreFinal
    OutputOnlyOverLiveSources
CHECK_DEADLOCK FALSE
