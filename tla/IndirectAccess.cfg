SPECIFICATION Spec
CONSTANTS
    Proc = {p1, p2}
    PhyReg = {r1}
    Vlan = {v1}
    Mac = {m1}
    Data = {d0, d1}
    Port = {k1}
    None = None
INVARIANTS
    TypeOK
    ReadIsOwn
    EntryWritten
PROPERTY OnlyWhatWasAsked
SYMMETRY MCSymmetry
