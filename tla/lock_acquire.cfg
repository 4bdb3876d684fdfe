CONSTANTS
    Proc = {p1, p2, p3}
    File = {f1, f2, f3, f4}
    NoProc = NoProc
    NoFile = NoFile
SPECIFICATION LockSpec
SYMMETRY Symmetry
INVARIANTS UnracedExclusion HolderNamed
