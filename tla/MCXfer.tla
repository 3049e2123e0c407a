------------------------------- MODULE MCXfer -------------------------------
(***************************************************************************)
(* Instances of Xfer.tla, and Spool.tla with two runs of uux, each in      *)
(* behaviours of its own: `which` says whose steps are taken.              *)
(*   stuck: Xfer.tla with a file on either side that cannot be read        *)
(*          (fAsked, fBack), and a command (fExec) with its data file      *)
(*          (fData) that is queued while the hosts run or before           *)
(*   live:  the command, its data file and a file asked for (fAsked) in    *)
(*          one host's queue, a file sent (fBack) in the other's; the line *)
(*          drops, hosts crash                                             *)
(*   disk:  with a third job, so that one host has two to scan, a file     *)
(*          (fVain) that is asked for in vain and an empty one; the disk   *)
(*          fails, the files move to another drive                         *)
(*   empty: one file each way, one of them empty                           *)
(*   spool: Spool.tla                                                      *)
(***************************************************************************)
EXTENDS Xfer, Spool, TLC

CONSTANTS fData, fExec, fBack, fAsked, fVain, j1, j2, j3

S(f) == [type |-> "S", file |-> f]
R(f) == [type |-> "R", file |-> f]

Own(F) == [f \in F |-> f]   \* a temporary file for each file

StuckFiles == {fData, fExec, fBack, fAsked}
StuckSize  == [f \in StuckFiles |-> 1]
StuckTmp   == Own(StuckFiles)
StuckJobs  == {j1, j2, j3}
StuckAt    == j1 :> Caller @@ j2 :> Answerer @@ j3 :> Caller
StuckLines == j1 :> <<S(fData), S(fExec)>> @@ j2 :> <<S(fBack)>> @@ j3 :> <<S(fAsked)>>

LiveFiles == StuckFiles
LiveSize  == fData :> 1 @@ fExec :> 1 @@ fBack :> 2 @@ fAsked :> 1
LiveJobs  == {j1, j2}
LiveAt    == j1 :> Caller @@ j2 :> Answerer
LiveLines == j1 :> <<S(fData), S(fExec), R(fAsked)>> @@ j2 :> <<S(fBack)>>

DiskFiles == LiveFiles \cup {fVain}
DiskSize  == [LiveSize EXCEPT ![fExec] = 0] @@ fVain :> 1
DiskJobs  == {j1, j2, j3}
DiskAt    == LiveAt @@ j3 :> Caller
DiskLines == j1 :> <<S(fData), S(fExec)>> @@ j2 :> <<S(fBack)>>
             @@ j3 :> <<R(fAsked), R(fVain)>>

PairFiles == {fData, fBack}
PairSize  == fData :> 0 @@ fBack :> 1
PairLines == j1 :> <<S(fData)>> @@ j2 :> <<S(fBack)>>

\* The state of Live, of Disk and of Vain.
VARIABLES dp, dqueue, dsrc, dtemp, dplace, dinb, dup, dresend, dlater, dfaults,
          ddelivered, drefused
VARIABLE which

Live == INSTANCE Xfer WITH
    p <- dp, queue <- dqueue, src <- dsrc, temp <- dtemp, place <- dplace,
    inb <- dinb, up <- dup, resend <- dresend, later <- dlater,
    faults <- dfaults, delivered <- ddelivered, refused <- drefused,
    Files <- LiveFiles, Size <- LiveSize, Copied <- {fData, fExec},
    Spooled <- {fData, fExec}, Denied <- {}, Unreadable <- {},
    Temps <- LiveFiles, Tmp <- Own(LiveFiles),
    Jobs <- LiveJobs, At <- LiveAt, Lines <- LiveLines, Later <- {},
    Resend <- BOOLEAN, SendOnly <- {}, SameDrive <- TRUE,
    MaxFaults <- 2, Faults <- {"drop", "crash", "unlink"}

Disk == INSTANCE Xfer WITH
    p <- dp, queue <- dqueue, src <- dsrc, temp <- dtemp, place <- dplace,
    inb <- dinb, up <- dup, resend <- dresend, later <- dlater,
    faults <- dfaults, delivered <- ddelivered, refused <- drefused,
    Files <- DiskFiles, Size <- DiskSize, Copied <- {fData, fExec},
    Spooled <- {fData, fExec}, Denied <- {fBack, fVain}, Unreadable <- {fExec},
    Temps <- DiskFiles, Tmp <- Own(DiskFiles),
    Jobs <- DiskJobs, At <- DiskAt, Lines <- DiskLines, Later <- {j3},
    Resend <- BOOLEAN, SendOnly <- {Answerer}, SameDrive <- FALSE,
    MaxFaults <- 1, Faults <- {"disk", "crash", "unlink"}

Vain == INSTANCE Xfer WITH
    p <- dp, queue <- dqueue, src <- dsrc, temp <- dtemp, place <- dplace,
    inb <- dinb, up <- dup, resend <- dresend, later <- dlater,
    faults <- dfaults, delivered <- ddelivered, refused <- drefused,
    Files <- PairFiles, Size <- PairSize, Copied <- {fData},
    Spooled <- {fData}, Denied <- {}, Unreadable <- {},
    Temps <- PairFiles, Tmp <- Own(PairFiles),
    Jobs <- LiveJobs, At <- LiveAt, Lines <- PairLines, Later <- {},
    Resend <- BOOLEAN, SendOnly <- {}, SameDrive <- TRUE,
    MaxFaults <- 1, Faults <- {"drop"}

ASSUME Live!XferConstants /\ Disk!XferConstants /\ Vain!XferConstants

diskVars == <<dp, dqueue, dsrc, dtemp, dplace, dinb, dup, dresend, dlater,
              dfaults, ddelivered, drefused>>
allVars  == <<vars, diskVars, spoolVars, which>>

NoStuck == Init /\ resend = FALSE
NoDisk  == Disk!Init /\ dresend = FALSE
NoSpool == SpoolInit /\ seqfile = FirstSeq

MCInit == \/ which = "stuck" /\ Init /\ NoDisk /\ NoSpool
          \/ which = "live" /\ Live!Init /\ NoStuck /\ NoSpool
          \/ which = "disk" /\ Disk!Init /\ NoStuck /\ NoSpool
          \/ which = "spool" /\ SpoolInit /\ NoStuck /\ NoDisk

MCNext == /\ UNCHANGED which
          /\ \/ which = "stuck" /\ Next /\ UNCHANGED <<diskVars, spoolVars>>
             \/ which = "live" /\ Live!Next /\ UNCHANGED <<vars, spoolVars>>
             \/ which = "disk" /\ Disk!Next /\ UNCHANGED <<vars, spoolVars>>
             \/ which = "spool" /\ SpoolNext /\ UNCHANGED <<vars, diskVars>>

\* The fairness of Live and of Spool, each of its own steps only.
LiveStep(h) == which = "live" /\ Live!Step(h)
LiveCall    == which = "live" /\ \E h \in Hosts : Live!Call(h)
Uux(u)      == which = "spool" /\ uux(u)
Daemon      == which = "spool" /\ Session

MCSpec == /\ MCInit /\ [][MCNext]_allVars
          /\ \A h \in Hosts : WF_diskVars(LiveStep(h))
          /\ WF_diskVars(LiveCall)
          /\ \A u \in Users : WF_spoolVars(Uux(u))
          /\ WF_spoolVars(Daemon)

EmptyInit == which = "empty" /\ Vain!Init /\ NoStuck /\ NoSpool
EmptyNext == Vain!Next /\ UNCHANGED <<vars, spoolVars, which>>
\* The fairness of Vain.
EmptySpec == /\ EmptyInit /\ [][EmptyNext]_allVars
             /\ \A h \in Hosts : WF_diskVars(Vain!Step(h))
             /\ WF_diskVars(\E h \in Hosts : Vain!Call(h))

\* Every session ends, also one with an empty file.
EmptyEnds == Vain!Ends

\* The same as of the stuck files is true of work for both hosts (live), and with
\* failing disks, refused and unreadable files and a job that is queued late: no
\* step loses or damages a file, and Delivery's promise is kept (ssfile, seof,
\* reof, newrequest).
LiveStepSafe ==
    /\ Live!FilesSafe' /\ Live!InOrder' /\ Live!NotIdle
    /\ [Live!Promise!Next]_(Live!Promise!vars)
DiskStepSafe ==
    /\ Disk!FilesSafe' /\ Disk!NotIdle
    /\ [Disk!Promise!Next]_(Disk!Promise!vars)
SafeElsewhere == [][/\ which = "live" => LiveStepSafe
                    /\ which = "disk" => DiskStepSafe]_diskVars

\* Every session ends, and in the end everything has arrived (scandir, process);
\* a job that uux has queued gets to the other host (Spool's Served).
QueuesDrain == /\ which = "live" => Live!Ends /\ Live!AllDelivered
               /\ Served
=============================================================================
