CONSTANTS
    Keys = {k1, k2}
    Versions = {1, 2}
    Nodes = {n1, n2, n3}
    Readers = {r1}
    Writers = {w1, w2}
    Callbacks = {c1}
    NULL = NULL
SPECIFICATION Spec
SYMMETRY Symmetry
INVARIANTS RefCountExact NoLeak ToldDeletedIsGone
PROPERTIES OnlyPutFreesHeldNode VersionsOnlyRise ImplementsFlagMap
