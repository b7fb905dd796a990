SPECIFICATION Spec
CONSTANTS
    person = person
    d1 = d1
    z1 = z1
    c1 = c1
    Slugs = {person}
    Seeded = {person}
    Dets = {d1}
    ClassOf <- MCClassOf
    Callers = {c1}
    Taxonomies <- MCTaxonomies
    None = None
    NoFile = NoFile
    Empty = Empty
    Idle = Idle
    MaxFlags = 1
    MaxRequests = 3
    MaxFailures = 1
    Kinds = {"object", "face"}
    KindOf <- MCKindOf
    Inside <- MCInside
    Alike <- MCAlike
    Zones = {z1}
    Exclusions <- MCExclusions
    CameraRows <- MCCameraRows
    MuteBodies <- MCMuteBodies
CHECK_DEADLOCK FALSE
PROPERTIES GateOfOneMoment EventuallyGated
