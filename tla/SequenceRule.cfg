SPECIFICATION Spec
CONSTANTS
    car = car
    person = person
    asPlanned = asPlanned
    asEdited = asEdited
    Kinds <- MCKinds
    Versions <- MCVersions
    Initial = asPlanned
    Steps <- MCSteps
    MaxSteps = 3
    Window = 2
    CooldownSec = 1
    Never = Never
    NoDet = NoDet
    MaxDelay = 1
    MaxTime = 4
INVARIANTS SightingsBounded
PROPERTIES FiredWithinWindow NoChainMissed
