SPECIFICATION Spec
CONSTANTS
    Handlers = {h1, h2}
    Ids = {i1, i2}
    i1 = i1
    i2 = i2
    DefaultId = i1
    Generations = {g1, g2}
    g1 = g1
    g2 = g2
    Present <- MCPresent
    Requests <- MCRequests
    Traffic <- MCTraffic
    Quoted <- MCQuoted
    Underscored <- MCUnderscored
    NoHeaders = NoHeaders
    SignatureLists <- MCSignatureLists
    Headerless = {i2}
    NoName = NoName
    Unbalanced = "("
    NoBody = NoBody
SYMMETRY Symmetry
INVARIANTS
    ChosenIsFirstBest
    CheckerAgrees
    IteratesUndisturbed
    LengthIsOfBody
PROPERTY RecordedUnlessBroken
