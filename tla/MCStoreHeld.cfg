CONSTANTS
    Keys = {k1}
    Versions = {1, 2}
    Nodes = {n1, n2}
    Readers = {r1}
    Writers = {w1}
    Callbacks = {}
    NULL = NULL
SPECIFICATION Spec
INVARIANTS HeldNodesLive
