SPECIFICATION Spec
CONSTANTS
    Writers = {w1, w2, w3}
    Data = {d1, d2}
    MaxRows = 4
SYMMETRY Symmetry
INVARIANTS TypeOK BadRowsAreForks EditIsDetected DeletionIsDetected
CHECK_DEADLOCK FALSE
