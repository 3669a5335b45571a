SPECIFICATION Spec
CONSTANTS
    Writer = {w1, w2}
    Value = {v1, v2}
    Nothing = Nothing
    Torn = Torn
    Inode = {i1, i2, i3, i4}
    NoInode = NoInode
    Alone = TRUE
SYMMETRY Renaming
INVARIANT NoOrphan
PROPERTY ImplementsRegister
