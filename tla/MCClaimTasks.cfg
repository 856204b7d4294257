SPECIFICATION FairSpec
CONSTANTS
    Node = {n1, n2}
    Request = {r1, r2}
    None = None
PROPERTIES
    SearchEnds
CHECK_DEADLOCK FALSE
