SPECIFICATION Spec
CONSTANTS
    N = 4
    MaxEmpty = 1
    Empty = {"preexec", "zsh"}
    Shells <- FittingShells
    Lines = {"cmd", "pipe", "subshell", "shell"}
INVARIANTS OnePerLine OwnProgram LabelTrue
PROPERTIES LabelStands ReservationStands
CHECK_DEADLOCK FALSE
