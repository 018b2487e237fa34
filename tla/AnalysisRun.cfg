SPECIFICATION Spec
CONSTANTS
    Matches = {m1, m2}
    Runs = {r1, r2, r3}
    Dives = {d1, d2}
    Slots = {a, b}
    MaxGen = 2
    None = None
INVARIANTS
    SupersededIsSilent
    LatestIsDelivered
    RunningIsTrue
    QuietLeavesNothing
    SlotIsOneAnalysis
SYMMETRY Symmetry
CHECK_DEADLOCK FALSE
