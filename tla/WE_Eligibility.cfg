SPECIFICATION FairEligSpec
CONSTANTS
    None = None
    Node = {1, 2, 3}
    UnreachableAfter = 1
    LiveAfter = 1
    RefusalBackoff = 1
    MaxHealthyLag = 1
    EligFault = {"crash", "elect", "member", "slow", "lose"}
    MaxEligFaults = 3
    MaxAppends = 1
INVARIANTS
    HysteresisTrue
PROPERTIES
    DeadDemoted
    RecoveredPromoted
