SPECIFICATION FlagsSpec
CONSTANTS
    person = person
    kite = kite
    ball = ball
    d1 = d1
    d2 = d2
    c1 = c1
    c2 = c2
    Slugs = {person, kite, ball}
    Seeded = {person}
    Dets = {d1, d2}
    ClassOf <- MCClassOf
    Callers = {c1, c2}
    Taxonomies <- MCTaxonomies
    None = None
    NoFile = NoFile
    Empty = Empty
    Idle = Idle
    MaxFlags = 2
    MaxRequests = 3
    MaxFailures = 1
SYMMETRY Symm
CHECK_DEADLOCK FALSE
INVARIANTS LabelsDenote DatasetExplained NamesAgree
