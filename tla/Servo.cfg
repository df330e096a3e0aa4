SPECIFICATION Spec
CONSTANT Axes <- MCAxes
INVARIANTS
    TypeOK
    SetUpDone
    InPosition
