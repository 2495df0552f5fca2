CONSTANTS
    Worker = {1, 2, 3}
    Time = {1}
    Writer = {b1, b2}
    RegisterInput <- MCRegisterInput
    Report <- MCReport
    PageSizes = {5}
    DefaultPageSize = 1
    MaxPageSize = 2
SPECIFICATION Spec
INVARIANTS
    KeysetWalkIsExact
    OffsetWalkIsExact
    ReadersSeeTheLastReport
PROPERTY MarkLostKeepsInventory
SYMMETRY Symmetry
CONSTRAINT OneWriterDuringWalk
