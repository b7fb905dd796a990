\* Two cameras, detections in timestamp order, a rule that never merges and a sequence rule.
SPECIFICATION Spec
CONSTANTS
    c1 = c1
    c2 = c2
    anyRule = anyRule
    cooledRule = cooledRule
    freshRule = freshRule
    hotlist = hotlist
    i1 = i1
    i2 = i2
    i3 = i3
    Cameras = {c1, c2}
    Rules = {anyRule, freshRule}
    DirectSources = {hotlist}
    Ids = {i1, i2}
    NoRow = NoRow
    Never = Never
    NoDet = NoDet
    NoSource = NoSource
    Matches <- MCMatches
    Phase <- MCPhaseSequence
    CooldownSec <- MCCooldown
    MergeWindowSec <- MCMergeWindow
    Severity <- MCSeverity
    DefaultMergeWindow = 1
    MaxDelay = 0
    MaxTime = 2
SYMMETRY Symm
CHECK_DEADLOCK FALSE
PROPERTIES ImplementsLog
