SPECIFICATION EmptySpec
CONSTANTS
    Caller = Caller  Answerer = Answerer
    fData = fData  fExec = fExec  fBack = fBack
    fAsked = fAsked  fVain = fVain
    j1 = j1  j2 = j2  j3 = j3
    None = None
    Files <- StuckFiles
    Size <- StuckSize
    Copied = {fData, fExec}
    Spooled = {fData, fExec}
    Denied = {}
    Unreadable = {fBack, fAsked}
    Temps <- StuckFiles
    Tmp <- StuckTmp
    Jobs <- StuckJobs
    At <- StuckAt
    Lines <- StuckLines
    Later = {j1}
    Resend = {TRUE, FALSE}
    SendOnly = {}
    SameDrive = TRUE
    MaxFaults = 2
    Faults = {"drop", "crash", "unlink"}
    Nil = Nil
    Users = {u1, u2}
    Missing = Missing  Empty = Empty
    FirstSeq = 7
    Now = 5
    SeqLimit = 8
    Base = 4
    SpoolFaults = 2
PROPERTY EmptyEnds
\* The programs come to their end and the queues run empty.
CHECK_DEADLOCK FALSE
