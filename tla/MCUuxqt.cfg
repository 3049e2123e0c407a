CONSTANTS
    p1 = p1  p2 = p2
    batch = batch  mail = mail  odd = odd
    None = None
    Procs <- MC_Procs
    Jobs <- MC_Jobs
    Mails <- MC_Mails
    NoData = {odd}
    Unknown = {mail}
    MaxFaults = 2
SPECIFICATION FairSpec
INVARIANTS OncePerRun KeptUntilDone RejectedIsWhole
PROPERTY Handled
