SPECIFICATION Spec
CONSTANTS
    Handlers = {h1, h2}
    ListSets <- EachList
    WriteSets <- EachWrite
    MaxWrites = 2
    MaxRestarts = 1
SYMMETRY HandlerSymmetry
INVARIANTS TypeOK OwnRowsFresh StalenessBounded
