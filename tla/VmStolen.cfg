SPECIFICATION Spec
CONSTANTS
    NULL = NULL
    p1 = p1
    p2 = p2
    f1 = f1
    Proc = {p1, p2}
    PGSIZE = 2
    UPAGES = 6
    WORD = 32
    FRAMES = 2
    Slot = {s1, s2, s3, s4}
    IN_FILE = IN_FILE
    MAPPED = MAPPED
    MAX_STACK_SIZE = 6
    PUSH = 1
    PUSHA = 2
    BUFFER = 2
    Data = {9}
    Exe <- MCExe
    Segments <- MCSegments
    File <- MCFile
    FileOf <- MCFileOf
    Buffers <- MCBuffers
    Touch <- MCTouch
    MapAddr <- MCMapAddr
    Serial = FALSE
SYMMETRY SlotSymmetry
INVARIANTS
    LoadKeepsFrame
CHECK_DEADLOCK FALSE
