SPECIFICATION Spec
CONSTANTS
    NumNodes = 10
    NumEpochs = 5
    LineVertices = 3
    SubEpochs = 2
    MaxReref = 3
    Offset = 1
    Ways = 2
    Regular = {r}
    Graphs <- MCGraphs
    Accessed <- MCAccessed
INVARIANTS
    MatrixExact
    LookupSafe
    WriteBackPlaced
