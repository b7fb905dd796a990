SPECIFICATION FairSpec
CONSTANTS
    front = front
    yard = yard
    Cameras = {front, yard}
    Segs = {1, 2, 3}
    CamOf <- MCCamOf
    Detecting = {front}
    Full = 2
    Quota <- MCQuota
    Capacity = 3
    Batch = 1
    MaxFailures = 1
    MaxDetections = 1
    MaxEdits = 1
    None = None
INVARIANTS GhostsExplained SidecarFollowsVideo
PROPERTIES ProtectedKept DropsNoMoreThanNeeded EventuallySettled
