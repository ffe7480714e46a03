SPECIFICATION Spec
CONSTANTS
    Tabs = {t1, t2}
    Chats = {k1, k2, k3}
    MaxQuestions = 3
INVARIANTS
    TypeOK
    MirrorIsStored
    RepliesAreKept
PROPERTY
    NothingIsForgotten
SYMMETRY Symmetry
