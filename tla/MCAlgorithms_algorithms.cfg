SPECIFICATION Spec
INVARIANTS
    BootsRight
    ParsesRight
    LineAsTyped
