SPECIFICATION Spec
CONSTANTS
    N = 1
    MaxEmpty = 1
    Empty = {"trap"}
    Shells <- OwnTrap
    Lines = {"cmd"}
PROPERTIES LabelStands
CHECK_DEADLOCK FALSE
