SPECIFICATION Spec
CONSTANT MaxCommands = 4
INVARIANTS OwnResponse
PROPERTIES OwnResponseNoticed
CHECK_DEADLOCK FALSE
