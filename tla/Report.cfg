SPECIFICATION Spec
INVARIANT FiguresAsMeasured
PROPERTY ReachesEnd
CHECK_DEADLOCK FALSE
