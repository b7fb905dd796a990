SPECIFICATION Spec
CONSTANTS
    p1 = p1
    p2 = p2
    d1 = d1
    d2 = d2
    u1 = u1
    k1 = k1
    c1 = c1
    c2 = c2
    t1 = t1
    People = {p1, p2}
    Dets = {d1, d2}
    Photos = {u1}
    Faces <- MCFaces
    Shows <- MCShows
    Sim <- MCSim
    Tracks = {t1}
    TrackOf <- MCTrackOf
    Blends <- MCBlends
    Seen <- MCSeen
    LowQuality = {d1, d2}
    Threshold = 55
    Margin = 5
    NegWeight = 1
    DedupSim = 90
    MaxPerAction = 8
    Clusters = {k1}
    Callers = {c1, c2}
    Starts <- MCStarts
    None = None
    Gone = Gone
    Absent = Absent
    Undecided = Undecided
    Idle = Idle
    MaxCopies = 2
    MaxRequests = 2
SYMMETRY Symm
CHECK_DEADLOCK FALSE
INVARIANTS ErasureHolds StrangersExplained DiversePool
