SPECIFICATION Spec
CONSTANTS
    Cells = {c1, c2, c3, c4}
    NULL = NULL
    MaxFrames = 8
    MaxForms = 2
    MaxThrows = 2
    NestedDef = FALSE
SYMMETRY Symmetry
INVARIANTS ScopesBalanced MarkerRunning EnvsAlive CapturesAlive DefsStayInside TraceUntilThrow
