SPECIFICATION SpoolSpec
CONSTANTS
    Nil = Nil  Missing = Missing  Empty = Empty
    Users = {u1, u2}
    FirstSeq = 7
    Now = 5
    SeqLimit = 8
    Base = 4
    SpoolFaults = 0
INVARIANT NeverLost
\* The programs come to their end and the queue runs empty.
CHECK_DEADLOCK FALSE
