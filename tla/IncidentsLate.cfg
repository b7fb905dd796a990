\* Detections handled late, and so out of the order of their timestamps.
SPECIFICATION Spec
CONSTANTS
    c1 = c1
    c2 = c2
    anyRule = anyRule
    cooledRule = cooledRule
    freshRule = freshRule
    hotlist = hotlist
    i1 = i1
    i2 = i2
    i3 = i3
    Cameras = {c1}
    Rules = {anyRule, cooledRule}
    DirectSources = {hotlist}
    Ids = {i1, i2}
    NoRow = NoRow
    Never = Never
    NoDet = NoDet
    NoSource = NoSource
    Matches <- MCMatches
    Phase <- MCPhase
    CooldownSec <- MCCooldown
    MergeWindowSec <- MCMergeWindow
    Severity <- MCSeverity
    DefaultMergeWindow = 1
    MaxDelay = 2
    MaxTime = 2
SYMMETRY Symm
CHECK_DEADLOCK FALSE
INVARIANTS TypeOK AnnouncedOnce SeverityCoversRules CooldownSpacing
PROPERTIES FreshWindowOnly VisitsApart
