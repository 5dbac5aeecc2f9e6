SPECIFICATION NumSpec
CONSTANT MaxSources = 300
INVARIANTS NamesDistinct NamesReadable
CHECK_DEADLOCK FALSE
