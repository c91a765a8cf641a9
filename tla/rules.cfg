SPECIFICATION FairSpec
CONSTANTS
    Handlers = {h1}
    Hydrators = {y1}
    MaxReloads = 1
    MaxVersion = 3
    Ids = {i1, i2, i3}
    DefaultId = i1
    i1 = i1
    i2 = i2
    i3 = i3
    Malformed = {2}
    Referred <- MCReferred
    Present <- MCPresent
    NoOne = NoOne
INVARIANTS TypeOK RulesSwappedTogether
PROPERTIES MissNeedsUpdate EventuallyFresh RequestsEnd
