SPECIFICATION FairSpec
CONSTANTS
    k1 = k1
    k2 = k2
    k3 = k3
    alice = alice
    bob = bob
    fa = fa
    fb = fb
    None = None
    Conn = {k1, k2, k3}
    ClientID = {alice, bob}
    Path = {fa, fb}
    Setups <- MCSetups
INVARIANTS
    SessionKeyAgreed
    PartialExplained
    FinishedMeansCommitted
    ExitExplained
PROPERTIES
    ImplementsFileSessions
    EverySessionEnds
CHECK_DEADLOCK FALSE
