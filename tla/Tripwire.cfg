SPECIFICATION LineSpec
CONSTANTS
    person = person
    car = car
    Tracks = {person, car}
    Places <- MCPlaces
    WithFaces = {person}
    WithPlates = {car}
    Offset <- MCOffset
    Lines <- MCLines
    StaleSec = 1
    KeepSec = 2
    TableSize = 1
    Unknown = Unknown
    MaxLate = 1
    MaxTime = 4
INVARIANTS LineTypeOK PassagesAddUp
PROPERTIES PassagesMeetLine EvictionHarmless
