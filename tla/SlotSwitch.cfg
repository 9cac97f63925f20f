SPECIFICATION FairSpec
CONSTANTS
    Proc = {p1}
    Selectors = {0, 1, 2}
    AllOnes = 2
    Rest = {"blank"}
    Blank = "blank"
    Exclusive = TRUE
    OEM = "oem"
    Pad = "ff"
    Slot15 <- MCSlot15
    Slot16 <- MCSlot16
INVARIANTS
    OnlyVerifiedSelected
    PassDecidesNextBoot
    RefusedForAReason
PROPERTY SessionEnds
