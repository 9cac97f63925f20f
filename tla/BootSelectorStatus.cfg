SPECIFICATION Spec
CONSTANTS
    Proc = {p1}
    Selectors = {0, 1, 2}
    AllOnes = 2
    Rest = {"blob", "blank"}
    Blank = "blank"
    Exclusive = TRUE
INVARIANT StatusTellsWhatWasWritten
