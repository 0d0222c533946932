SPECIFICATION ServiceFairSpec
CONSTANTS
    p1 = p1
    l1 = l1
    l2 = l2
    Peer = {p1}
    Activate = 1
    Deactivate = 0
    Lookup = {l1, l2}
    MaxStarts = 2
INVARIANTS LoopPerStart NothingLeaks
PROPERTIES KnownWhenUp StartCompletes Forgotten
