------------------------------- MODULE Xfer -------------------------------
(***************************************************************************)
(* The file transfer protocol of UUPC/extended: the machine of process()   *)
(* (dcp.c) and its handlers (dcpxfer.c), run by two hosts against each     *)
(* other in one session after another until their queues are empty.        *)
(*                                                                         *)
(* A session runs over a packet protocol that delivers in order and once   *)
(* each, until the line drops (ReliableLink.tla; GPacket.tla implements    *)
(* it).  A file is a sequence of blocks.  A handler that sends a command   *)
(* and reads the answer is two actions.                                    *)
(***************************************************************************)
EXTENDS Integers, Sequences, Functions

CONSTANTS
    Caller, Answerer,  \* the two hosts (either may call)
    Files,
    Size,              \* Size[f]: blocks of f
    Copied,            \* files queued as spool copies (dname is not D.0)
    Spooled,           \* files received into the spool directory (D., X.)
    Denied,            \* files whose path the receiver or giver refuses
    Unreadable,        \* files fopen fails on, with errno other than ENOENT
    Temps, Tmp,        \* Tmp[f]: the temporary file f is received into
    Jobs,              \* work files (C.)
    At,                \* At[j]: the host whose queue j is in
    Lines,             \* Lines[j]: its requests
    Later,             \* jobs queued while the hosts run
    Resend,            \* what the hosts may agree on for "-R"
    SendOnly,          \* hosts run with send_only
    SameDrive,         \* tempdir and the targets are on the same drive
    MaxFaults, Faults, \* bound on the faults, and their kinds ("unlink": a crash
                       \* may also come between reof's unlink and RENAME)
    None

Hosts == {Caller, Answerer}
Other(h) == IF h = Caller THEN Answerer ELSE Caller

Requests(j) == Range(Lines[j])
JobOf(f)    == CHOOSE j \in Jobs : \E r \in Requests(j) : r.file = f

\* All of f, and the n-th of its blocks on its way.
Block(f, n) == [file |-> f, off |-> n]
Whole(f)    == [n \in 1..Size[f] |-> Block(f, n)]

HostsAssumption == Caller # Answerer
FilesAssumption ==
    /\ Size \in [Files -> Nat]
    /\ Copied \subseteq Files /\ Spooled \subseteq Files
    /\ Denied \subseteq Files /\ Unreadable \subseteq Files
    /\ Tmp \in [Files -> Temps]
JobsAssumption ==
    /\ At \in [Jobs -> Hosts]
    /\ Lines \in [Jobs -> Seq([type : {"S", "R"}, file : Files])]
    /\ Later \subseteq Jobs
    /\ \A f \in Files : \E j \in Jobs : \E r \in Requests(j) : r.file = f
    /\ \A j, k \in Jobs : \A m \in DOMAIN Lines[j], n \in DOMAIN Lines[k] :
           Lines[j][m].file = Lines[k][n].file => j = k /\ m = n
BoundsAssumption ==
    /\ Resend \subseteq BOOLEAN /\ SendOnly \subseteq Hosts /\ SameDrive \in BOOLEAN
    /\ MaxFaults \in Nat /\ Faults \subseteq {"drop", "crash", "disk", "unlink"}
    /\ None \notin Files \cup Jobs \cup Temps
    /\ None \notin Seq([file : Files, off : Nat])
XferConstants == HostsAssumption /\ FilesAssumption /\ JobsAssumption /\ BoundsAssumption
ASSUME XferAssumption == XferConstants

VARIABLES
    p,         \* p[h]: the memory of h's uucico
    queue,     \* work files on disk
    src,       \* files their sender still has
    temp,      \* temp[t]: contents of a temporary file
    place,     \* place[f]: contents of f where it is received to
    inb,       \* inb[h]: packets on their way to h
    up,        \* the line is up
    resend,    \* the session restarts files (resend)
    later,     \* jobs still to be queued
    faults,    \* faults still to come
    delivered, \* history: how often f was given its final name
    refused    \* history: files a sender was told are refused

disk == <<queue, src, temp, place>>
net  == <<inb, up, resend>>
hist == <<later, faults, delivered, refused>>
vars == <<p, disk, net, hist>>

Reading == {"putreply", "getreply", "eofreply", "breakreply", "chkreply",
            "recvhdr", "recvdata"}
States  == Reading \cup {"over", "nextjob", "request", "putfile", "getfile",
            "senddata", "sendeof", "nolocal", "noremote", "takefile", "givefile",
            "recveof", "endp", "closing"}
Statuses == {"nocall", "inprogress", "called", "call_failed"}
Types    == {"S", "R", "SY", "SN", "RY", "RN", "data", "eof", "CY", "CN",
             "H", "HY", "HN", "CLOSE"}

Msg(type, f, off) == [type |-> type, file |-> f, off |-> off]
Word(type) == Msg(type, None, 0)

Contents == {None} \cup Seq([file : Files, off : Nat])
Process  == [state : States, master : BOOLEAN,
             job : Jobs \cup {None},   \* fwork
             line : Nat,               \* requests of job already read
             errs : BOOLEAN,           \* errors_per_request # 0
             todo : SUBSET Jobs,       \* what readdir has still to return
             scan_not_needed : BOOLEAN,
             file : Files \cup {None}, \* the request in progress
             stream : BOOLEAN,         \* xfer_stream # NULL
             pos : Nat,                \* blocks of file already read
             spool : BOOLEAN, tmp : Temps \cup {None},
             hstatus : Statuses,
             aborted : BOOLEAN,
             tried : SUBSET Jobs] \* history: what the last scan of its queue
                                  \* began with, unless it was asked since

TypeOK ==
    /\ p \in [Hosts -> Process]
    /\ \A h \in Hosts : p[h].file # None => p[h].pos <= Size[p[h].file]
    /\ queue \subseteq Jobs /\ src \subseteq Files
    /\ temp \in [Temps -> Contents] /\ place \in [Files -> Contents]
    /\ inb \in [Hosts -> Seq([type : Types, file : Files \cup {None}, off : Nat])]
    /\ up \in BOOLEAN /\ resend \in BOOLEAN
    /\ later \subseteq Later /\ faults \in 0..MaxFaults
    /\ delivered \in [Files -> Nat] /\ refused \subseteq Files

\* A process that has just started.
Fresh == [state |-> "over", master |-> TRUE, job |-> None, line |-> 0,
          errs |-> FALSE, todo |-> {}, scan_not_needed |-> TRUE,
          file |-> None, stream |-> FALSE, pos |-> 0, spool |-> FALSE,
          tmp |-> None, hstatus |-> "nocall", aborted |-> FALSE,
          tried |-> {}]

Init ==
    /\ p = [h \in Hosts |-> Fresh]
    /\ queue = Jobs \ Later /\ later = Later
    /\ src = Files
    /\ temp = [t \in Temps |-> None] /\ place = [f \in Files |-> None]
    /\ inb = [h \in Hosts |-> <<>>] /\ up = FALSE /\ resend \in Resend
    /\ faults = MaxFaults
    /\ delivered = [f \in Files |-> 0] /\ refused = {}

Mine(h) == {j \in queue : At[j] = h}

\* A disk that is full, an open, read or write that fails.
DiskFault == /\ "disk" \in Faults /\ faults > 0
             /\ faults' = faults - 1

-----------------------------------------------------------------------------
(***************************************************************************)
(* How a handler ends.  Each operator below gives the memory a process     *)
(* goes on with; become sets it.                                           *)
(***************************************************************************)
Lost(q)  == [q EXCEPT !.state = "over", !.hstatus = "call_failed",
                      !.stream = FALSE, !.job = None]
Abort(q) == [q EXCEPT !.state = "endp", !.hstatus = "call_failed",
                      !.stream = FALSE, !.job = None, !.aborted = TRUE]
\* XFER_FILEDONE
FileDone(q) == [q EXCEPT !.state = IF q.master THEN "request" ELSE "recvhdr",
                         !.file = None]
\* XFER_MASTER, on to XFER_NEXTJOB: scandir opens the directory.
Master(q, h) == [q EXCEPT !.state = "nextjob", !.master = TRUE,
                          !.todo = Mine(h), !.tried = Mine(h),
                          !.scan_not_needed = TRUE]
Slave(q)  == [q EXCEPT !.state = "recvhdr", !.master = FALSE]

\* Start to send f, n blocks of which are already there.
StartSending(q, f, n) == [q EXCEPT !.state = IF n = Size[f] THEN "sendeof" ELSE "senddata",
                           !.stream = TRUE, !.pos = n]

become(h, q) == p' = [p EXCEPT ![h] = q]

\* The other host is not in the session any more (the line drops when a host
\* leaves it), or it has said so; a read then fails once nothing is left to
\* read, and a send fails or may fail.
Left(h) == ~up \/ p[Other(h)].state = "over"
HasClosed(h) == \E i \in DOMAIN inb[h] : inb[h][i].type = "CLOSE"

post(h, m) == inb' = [inb EXCEPT ![Other(h)] = Append(@, m)]

\* sendpkt or wrmsg of m: on to q, or to XFER_LOST.
send(h, m, q) ==
    /\ \/ ~Left(h) /\ post(h, m) /\ become(h, q)
       \/ /\ Left(h) \/ HasClosed(h)
          /\ become(h, Lost(q)) /\ UNCHANGED inb
    /\ UNCHANGED <<up, resend>>

\* In state s, a packet of one of the types has come; pop reads it.
awaits(h, s, types) ==
    /\ p[h].state = s
    /\ inb[h] # <<>> /\ Head(inb[h]).type \in types
pop(h) == inb' = [inb EXCEPT ![h] = Tail(@)] /\ UNCHANGED <<up, resend>>

\* getpkt or rdmsg fails: the line is down, or the other host closes.
ReadFails(h) ==
    /\ p[h].state \in Reading
    /\ \/ inb[h] = <<>> /\ Left(h)
       \/ inb[h] # <<>> /\ Head(inb[h]).type = "CLOSE"
    /\ become(h, Lost(p[h]))
    /\ UNCHANGED <<disk, net, hist>>

-----------------------------------------------------------------------------
(***************************************************************************)
(* The master: scandir, newrequest, ssfile, srfile, sbreak.                *)
(***************************************************************************)
\* Mutant: the errors of one work file count for the next ones.
NextJob_ErrsStay(h) ==
    LET q == p[h]
        found == q.todo \cap queue
    IN /\ q.state = "nextjob"
       /\ \/ \E j \in found :
                become(h, [q EXCEPT !.state = "request", !.job = j, !.line = 0,
                                    !.todo = found \ {j}])
          \/ /\ found = {} /\ ~q.scan_not_needed
             /\ become(h, Master(q, h))
          \/ /\ found = {} /\ q.scan_not_needed
             /\ become(h, [q EXCEPT !.state = "nolocal"])
       /\ UNCHANGED <<disk, net, hist>>

\* scandir: the next work file, the directory once more if one was deleted,
\* or none.
NextJob(h) ==
    LET q == p[h]
        found == q.todo \cap queue
    IN /\ q.state = "nextjob"
       /\ \/ \E j \in found :
                become(h, [q EXCEPT !.state = "request", !.job = j, !.line = 0,
                                    !.errs = FALSE, !.todo = found \ {j}])
          \/ /\ found = {} /\ ~q.scan_not_needed
             /\ become(h, Master(q, h))
          \/ /\ found = {} /\ q.scan_not_needed
             /\ become(h, [q EXCEPT !.state = "nolocal"])
       /\ UNCHANGED <<disk, net, hist>>

\* newrequest at the end of the work file
JobDone(h) ==
    LET q == p[h]
    IN /\ q.state = "request" /\ q.line = Len(Lines[q.job])
       /\ queue' = IF q.errs THEN queue ELSE queue \ {q.job}
       /\ become(h, [q EXCEPT !.state = "nextjob", !.job = None, !.file = None,
                              !.scan_not_needed = @ /\ q.errs])
       /\ UNCHANGED <<src, temp, place, net, hist>>

\* Mutant: the lines are taken from the last to the first.
NewRequest_LastFirst(h) ==
    LET q == p[h]
        r == Lines[q.job][Len(Lines[q.job]) - q.line]
    IN /\ q.state = "request" /\ q.line < Len(Lines[q.job])
       /\ become(h, [q EXCEPT !.state = IF r.type = "S" THEN "putfile" ELSE "getfile",
                              !.line = @ + 1, !.file = r.file, !.pos = 0])
       /\ UNCHANGED <<disk, net, hist>>

\* newrequest with another line
NewRequest(h) ==
    LET q == p[h]
        r == Lines[q.job][q.line + 1]
    IN /\ q.state = "request" /\ q.line < Len(Lines[q.job])
       /\ become(h, [q EXCEPT !.state = IF r.type = "S" THEN "putfile" ELSE "getfile",
                              !.line = @ + 1, !.file = r.file, !.pos = 0])
       /\ UNCHANGED <<disk, net, hist>>

\* ssfile, up to its command.  A file that is not there has been sent before.
PutFile(h) ==
    LET q == p[h]
        f == q.file
    IN /\ q.state = "putfile"
       /\ \/ /\ f \notin src
             /\ become(h, FileDone(q)) /\ UNCHANGED net
          \/ /\ f \in src /\ f \in Unreadable
             /\ become(h, FileDone([q EXCEPT !.errs = TRUE])) /\ UNCHANGED net
          \/ /\ f \in src /\ f \notin Unreadable
             /\ send(h, Msg("S", f, 0), [q EXCEPT !.state = "putreply", !.stream = TRUE])
       /\ UNCHANGED <<disk, hist>>

\* ssfile, from the answer on.  The answer says where to restart.
PutReply(h) ==
    LET q == p[h]
        m == Head(inb[h])
    IN /\ awaits(h, "putreply", {"SY", "SN"}) /\ pop(h)
       /\ IF m.type = "SN"
          THEN /\ become(h, FileDone([q EXCEPT !.stream = FALSE]))
               /\ refused' = refused \cup {q.file}
          ELSE /\ become(h, IF m.off > Size[q.file] THEN Abort(q)
                            ELSE StartSending(q, q.file, m.off))
               /\ UNCHANGED refused
       /\ UNCHANGED <<disk, later, faults, delivered>>

\* srfile, up to its command
GetFile(h) ==
    LET q == p[h]
        f == q.file
    IN /\ q.state = "getfile"
       /\ send(h, Msg("R", f, 0), [q EXCEPT !.state = "getreply", !.tmp = Tmp[f],
                                            !.spool = f \in Spooled])
       /\ UNCHANGED <<disk, hist>>

\* srfile, from the answer on
GetReply(h) ==
    LET q == p[h]
    IN /\ awaits(h, "getreply", {"RY", "RN"}) /\ pop(h)
       /\ \/ /\ Head(inb[h]).type = "RN"
             /\ become(h, FileDone(q)) /\ refused' = refused \cup {q.file}
             /\ UNCHANGED <<temp, faults>>
          \/ /\ Head(inb[h]).type = "RY"
             /\ become(h, [q EXCEPT !.state = "recvdata", !.stream = TRUE])
             /\ temp' = [temp EXCEPT ![q.tmp] = <<>>]
             /\ UNCHANGED <<refused, faults>>
          \/ /\ Head(inb[h]).type = "RY" /\ DiskFault
             /\ become(h, Abort(q))
             /\ UNCHANGED <<temp, refused>>
       /\ UNCHANGED <<queue, src, place, later, delivered>>

\* sbreak, up to its command
NoLocal(h) ==
    /\ p[h].state = "nolocal"
    /\ send(h, Word("H"), [p[h] EXCEPT !.state = "breakreply"])
    /\ UNCHANGED <<disk, hist>>

\* sbreak: the other host has work (HN) ...
BreakHN(h) ==
    /\ awaits(h, "breakreply", {"HN"}) /\ pop(h)
    /\ become(h, IF h \in SendOnly THEN [p[h] EXCEPT !.state = "endp"]
                                   ELSE Slave(p[h]))
    /\ UNCHANGED <<disk, hist>>

\* ... or it has none (HY): say so too and end
BreakHY(h) ==
    LET q == [p[h] EXCEPT !.state = "endp", !.hstatus = "called"]
        rest == Tail(inb[h])
    IN /\ awaits(h, "breakreply", {"HY"})
       /\ \/ ~Left(h) /\ become(h, q)
             /\ inb' = [inb EXCEPT ![h] = rest, ![Other(h)] = Append(@, Word("HY"))]
          \/ Left(h) /\ become(h, Lost(q)) /\ inb' = [inb EXCEPT ![h] = rest]
       /\ UNCHANGED <<disk, up, resend, hist>>

-----------------------------------------------------------------------------
(***************************************************************************)
(* The slave: rheader, rrfile, rsfile, schkdir.                            *)
(***************************************************************************)
RecvHdr(h) ==
    LET q == p[h]
        m == Head(inb[h])
    IN /\ awaits(h, "recvhdr", {"S", "R", "H"}) /\ pop(h)
       /\ become(h, IF m.type = "H" THEN [q EXCEPT !.state = "noremote"]
                    ELSE [q EXCEPT !.state = IF m.type = "S" THEN "takefile" ELSE "givefile",
                                   !.file = m.file, !.pos = 0, !.tried = {}])
       /\ UNCHANGED <<disk, hist>>

\* Mutant: what is left of the file is kept, but sent again from the start.
TakeFile_FromStart(h) ==
    LET q == p[h]
        t == Tmp[q.file]
        old == IF resend /\ temp[t] # None THEN temp[t] ELSE <<>>
        there == [q EXCEPT !.spool = q.file \in Spooled, !.tmp = t]
    IN /\ q.state = "takefile"
       /\ temp' = [temp EXCEPT ![t] = old]
       /\ send(h, Msg("SY", None, 0), [there EXCEPT !.state = "recvdata", !.stream = TRUE])
       /\ UNCHANGED <<queue, src, place, hist>>

\* rrfile: refuse the path, fail to create the temporary file, or take the
\* file, from what is left of an earlier session on if the hosts restart.
TakeFile(h) ==
    LET q == p[h]
        f == q.file
        t == Tmp[f]
        old == IF resend /\ temp[t] # None THEN temp[t] ELSE <<>>
        there == [q EXCEPT !.spool = f \in Spooled, !.tmp = t]
    IN /\ q.state = "takefile"
       /\ \/ /\ f \in Denied \ Spooled
             /\ send(h, Word("SN"), FileDone([q EXCEPT !.spool = FALSE]))
             /\ UNCHANGED <<temp, faults>>
          \/ /\ f \notin Denied \ Spooled /\ DiskFault
             /\ send(h, Word("SN"), FileDone(there))
             /\ UNCHANGED temp
          \/ /\ f \notin Denied \ Spooled
             /\ temp' = [temp EXCEPT ![t] = old]
             /\ send(h, Msg("SY", None, Len(old)),
                     [there EXCEPT !.state = "recvdata", !.stream = TRUE])
             /\ UNCHANGED faults
       /\ UNCHANGED <<queue, src, place, later, delivered, refused>>

\* rsfile
GiveFile(h) ==
    LET q == p[h]
        f == q.file
    IN /\ q.state = "givefile"
       /\ IF f \in Denied \/ f \in Unreadable \/ f \notin src
          THEN send(h, Word("RN"), FileDone(q))
          ELSE send(h, Word("RY"), StartSending(q, f, 0))
       /\ UNCHANGED <<disk, hist>>

\* Mutant: schkdir does not look into the queue.
NoRemote_AlwaysHY(h) ==
    /\ p[h].state = "noremote"
    /\ send(h, Word("HY"), [p[h] EXCEPT !.state = "chkreply", !.hstatus = "called"])
    /\ UNCHANGED <<disk, hist>>

\* schkdir, up to its command: become the master if a work file is there
NoRemote(h) ==
    LET q == p[h]
    IN /\ q.state = "noremote"
       /\ IF Mine(h) = {}
          THEN send(h, Word("HY"), [q EXCEPT !.state = "chkreply", !.hstatus = "called"])
          ELSE send(h, Word("HN"), Master(q, h))
       /\ UNCHANGED <<disk, hist>>

\* schkdir, the answer to HY
ChkReply(h) ==
    /\ awaits(h, "chkreply", {"HY"}) /\ pop(h)
    /\ become(h, [p[h] EXCEPT !.state = "endp"])
    /\ UNCHANGED <<disk, hist>>

-----------------------------------------------------------------------------
(***************************************************************************)
(* The data: sdata, seof, rdata, reof.                                     *)
(***************************************************************************)
\* sdata: send a block and fill the buffer with the next
SendData(h) ==
    LET q == p[h]
    IN /\ q.state = "senddata"
       /\ send(h, Msg("data", q.file, q.pos + 1), StartSending(q, q.file, q.pos + 1))
       /\ UNCHANGED <<disk, hist>>

\* scandir, also schkdir's, has found a work file and cannot open it.
CannotOpen(h) == \/ p[h].state = "nextjob" /\ p[h].todo \cap queue # {}
                 \/ p[h].state = "noremote" /\ Mine(h) # {}

\* bufill or scandir fails
ReadError(h) ==
    /\ p[h].state = "senddata" \/ CannotOpen(h)
    /\ DiskFault
    /\ become(h, Abort(p[h]))
    /\ UNCHANGED <<disk, net, later, delivered, refused>>

\* Mutant: a line lost at the end of file is taken for the answer.
SendEof_LostIsDone(h) ==
    LET q == p[h]
    IN /\ q.state = "sendeof"
       /\ \/ ~Left(h) /\ post(h, Word("eof"))
             /\ become(h, [q EXCEPT !.state = "eofreply", !.stream = FALSE])
          \/ /\ Left(h) /\ UNCHANGED inb
             /\ become(h, FileDone([q EXCEPT !.stream = FALSE]))
       /\ UNCHANGED <<disk, up, resend, hist>>

\* seof, up to the end of file.  eofpkt's S_LOST, when the line is down, is the
\* number seof takes for RETRY; CLOSE makes it fail.
SendEof(h) ==
    LET q == p[h]
    IN /\ q.state = "sendeof"
       /\ \/ /\ ~Left(h) /\ post(h, Word("eof"))
             /\ become(h, [q EXCEPT !.state = "eofreply", !.stream = FALSE])
          \/ /\ Left(h) /\ become(h, StartSending(q, q.file, 0)) /\ UNCHANGED inb
          \/ /\ HasClosed(h) /\ become(h, Abort(q)) /\ UNCHANGED inb
       /\ UNCHANGED <<disk, up, resend, hist>>

\* Mutant: the spool copy is deleted whatever the answer is.
EofReply_PurgesOnCN(h) ==
    LET q == p[h]
    IN /\ awaits(h, "eofreply", {"CY", "CN"}) /\ pop(h)
       /\ become(h, IF Head(inb[h]).type = "CY" THEN FileDone(q) ELSE Abort(q))
       /\ src' = IF q.master THEN src \ ({q.file} \cap Copied) ELSE src
       /\ UNCHANGED <<queue, temp, place, hist>>

\* seof, from the answer on; a master's spool copy is deleted
EofReply(h) ==
    LET q == p[h]
        cy == Head(inb[h]).type = "CY"
    IN /\ awaits(h, "eofreply", {"CY", "CN"}) /\ pop(h)
       /\ become(h, IF cy THEN FileDone(q) ELSE Abort(q))
       /\ src' = IF cy /\ q.master THEN src \ ({q.file} \cap Copied) ELSE src
       /\ UNCHANGED <<queue, temp, place, hist>>

\* rdata
RecvData(h) ==
    LET q == p[h]
        m == Head(inb[h])
    IN /\ awaits(h, "recvdata", {"data", "eof"}) /\ pop(h)
       /\ \/ /\ m.type = "eof"
             /\ become(h, [q EXCEPT !.state = "recveof"]) /\ UNCHANGED <<temp, faults>>
          \/ /\ m.type = "data"
             /\ temp' = [temp EXCEPT ![q.tmp] = Append(@, Block(m.file, m.off))]
             /\ UNCHANGED <<p, faults>>
          \/ /\ m.type = "data" /\ DiskFault
             /\ become(h, Abort(q)) /\ UNCHANGED temp
       /\ UNCHANGED <<queue, src, place, later, delivered, refused>>

\* reof with everything well: RENAME gives the file its name
RecvEof(h) ==
    LET q == p[h]
    IN /\ q.state = "recveof"
       /\ place' = [place EXCEPT ![q.file] = temp[q.tmp]]
       /\ temp' = [temp EXCEPT ![q.tmp] = None]
       /\ delivered' = [delivered EXCEPT ![q.file] = @ + 1]
       /\ send(h, Word("CY"), FileDone([q EXCEPT !.stream = FALSE, !.spool = FALSE]))
       /\ UNCHANGED <<queue, src, later, faults, refused>>

\* reof when fclose fails: the temporary file is deleted
CloseFails(h) ==
    LET q == p[h]
    IN /\ q.state = "recveof" /\ DiskFault
       /\ temp' = [temp EXCEPT ![q.tmp] = None]
       /\ send(h, Word("CN"), Abort(q))
       /\ UNCHANGED <<queue, src, place, later, delivered, refused>>

\* reof when RENAME fails: the temporary file stays, and what had the file's
\* name is gone (unlink in reof for a spool file, in RENAME for a copy)
RenameFails(h) ==
    LET q == p[h]
    IN /\ q.state = "recveof" /\ DiskFault
       /\ place' = [place EXCEPT ![q.file] = None]
       /\ send(h, Word("CN"), Abort([q EXCEPT !.spool = FALSE]))
       /\ UNCHANGED <<queue, src, temp, later, delivered, refused>>

-----------------------------------------------------------------------------
(***************************************************************************)
(* The end of a session.                                                   *)
(***************************************************************************)
\* XFER_ENDP and closepk's first packet
EndP(h) ==
    LET q == p[h]
        s == IF ~q.aborted /\ q.hstatus = "inprogress" THEN "called" ELSE q.hstatus
    IN /\ q.state = "endp"
       /\ \/ /\ ~Left(h) /\ post(h, Word("CLOSE"))
             /\ become(h, [q EXCEPT !.state = "closing", !.hstatus = s])
          \/ /\ Left(h) /\ become(h, Lost(q)) /\ UNCHANGED inb
       /\ UNCHANGED <<disk, up, resend, hist>>

\* closepk returns, having heard CLOSE or given up waiting for it; the rest of
\* endp.  Or the line drops before that.
Closing(h) ==
    LET q == p[h]
    IN /\ q.state = "closing"
       /\ \/ /\ up \/ HasClosed(h)
             /\ temp' = IF q.spool THEN [temp EXCEPT ![q.tmp] = None] ELSE temp
             /\ become(h, [q EXCEPT !.state = "over", !.spool = FALSE])
          \/ /\ ~up
             /\ become(h, Lost(q)) /\ UNCHANGED temp
       /\ UNCHANGED <<queue, src, place, net, hist>>

\* A new session.  A process that did not abort may be the one of the last
\* session: it still has spool and tempname.
Call(h) ==
    LET keeps(x, same) == IF same THEN [Fresh EXCEPT !.spool = p[x].spool, !.tmp = p[x].tmp]
                                  ELSE Fresh
    IN /\ \A x \in Hosts : p[x].state = "over"
       /\ queue # {}
       /\ \E same \in [Hosts -> BOOLEAN], r \in Resend :
             /\ \A x \in Hosts : same[x] => ~p[x].aborted
             /\ p' = [x \in Hosts |->
                        LET q == [keeps(x, same[x]) EXCEPT !.hstatus = "inprogress"]
                        IN IF x = h THEN Master(q, h) ELSE Slave(q)]
             /\ resend' = r
       /\ up' = TRUE /\ inb' = [x \in Hosts |-> <<>>]
       /\ UNCHANGED <<disk, hist>>

-----------------------------------------------------------------------------
(***************************************************************************)
(* The rest of the world.                                                  *)
(***************************************************************************)
\* uux, uucp or rmail queue a job; a scan under way may see it.
Submit(j) ==
    /\ j \in later
    /\ later' = later \ {j} /\ queue' = queue \cup {j}
    /\ \E seen \in BOOLEAN :
          p' = [p EXCEPT ![At[j]].todo = IF seen /\ p[At[j]].state # "over"
                                         THEN @ \cup {j} ELSE @]
    /\ UNCHANGED <<src, temp, place, net, faults, delivered, refused>>

\* The line drops; what has come by then can still be read.
CutLine == /\ up' = FALSE
           /\ \E n \in [Hosts -> 0..(Len(inb[Caller]) + Len(inb[Answerer]))] :
                 /\ \A h \in Hosts : n[h] <= Len(inb[h])
                 /\ inb' = [h \in Hosts |-> SubSeq(inb[h], 1, n[h])]

Fault(kind) == kind \in Faults /\ faults > 0 /\ faults' = faults - 1

Drop ==
    /\ up /\ Fault("drop") /\ CutLine
    /\ UNCHANGED <<p, disk, resend, later, delivered, refused>>

\* h's machine stops; of a file being written some of the blocks reached the
\* disk.
Crash(h) ==
    LET q == p[h]
        writing == q.stream /\ q.state \in {"recvdata", "recveof"}
    IN /\ q.state # "over" /\ Fault("crash") /\ CutLine
       /\ become(h, Fresh)
       /\ IF writing
          THEN \E n \in 0..Len(temp[q.tmp]) :
                  temp' = [temp EXCEPT ![q.tmp] = SubSeq(@, 1, n)]
          ELSE UNCHANGED temp
       /\ UNCHANGED <<queue, src, place, resend, later, delivered, refused>>

\* h's machine stops in reof between unlink and RENAME, or while RENAME copies.
CrashCopying(h) ==
    LET q == p[h]
        f == q.file
    IN /\ q.state = "recveof" /\ Fault("crash") /\ CutLine
       /\ become(h, Fresh)
       /\ \/ /\ "unlink" \in Faults /\ q.spool
             /\ place' = [place EXCEPT ![f] = None]
          \/ /\ ~SameDrive \/ (f \notin Spooled /\ place[f] # None)
             /\ \E n \in 0..Len(temp[q.tmp]) :
                   place' = [place EXCEPT ![f] = SubSeq(temp[q.tmp], 1, n)]
       /\ UNCHANGED <<queue, src, temp, resend, later, delivered, refused>>

-----------------------------------------------------------------------------
Step(h) ==
    \/ ReadFails(h)
    \/ NextJob(h) \/ JobDone(h) \/ NewRequest(h)
    \/ PutFile(h) \/ PutReply(h) \/ GetFile(h) \/ GetReply(h)
    \/ NoLocal(h) \/ BreakHN(h) \/ BreakHY(h)
    \/ RecvHdr(h) \/ TakeFile(h) \/ GiveFile(h) \/ NoRemote(h) \/ ChkReply(h)
    \/ SendData(h) \/ ReadError(h) \/ SendEof(h) \/ EofReply(h)
    \/ RecvData(h) \/ RecvEof(h) \/ CloseFails(h) \/ RenameFails(h)
    \/ EndP(h) \/ Closing(h)

Next ==
    \/ \E h \in Hosts : Step(h) \/ Call(h) \/ Crash(h) \/ CrashCopying(h)
    \/ \E j \in Jobs : Submit(j)
    \/ Drop

Spec == Init /\ [][Next]_vars

\* A running process goes on, and while there is work hosts call.
Fairness == /\ \A h \in Hosts : WF_vars(Step(h))
            /\ WF_vars(\E h \in Hosts : Call(h))
FairSpec == Spec /\ Fairness

-----------------------------------------------------------------------------
(***************************************************************************)
(* Safety.                                                                 *)
(***************************************************************************)
\* A file is either where it should be, whole, or its sender still has both it
\* and the work file that names it, or the sender was told it is refused.
\* The purge in seof and the unlink in newrequest are the steps at risk.
NothingLost ==
    \A f \in Files : \/ place[f] = Whole(f)
                     \/ f \in src /\ JobOf(f) \in queue \cup later
                     \/ f \in refused

\* What has a file's name is the file, whole: no part of it, none of its blocks
\* twice, no other file's.  A crash may cut a copy short, when RENAME copies
\* over an old file or to another drive: then the sender still has all it needs
\* to send the file again, or has been told that it is refused.
Prefixes(f) == {SubSeq(Whole(f), 1, n) : n \in 0..Size[f]}
Intact ==
    \A f \in Files :
        \/ place[f] \in {None, Whole(f)}
        \/ /\ "crash" \in Faults /\ (f \notin Spooled \/ ~SameDrive)
           /\ place[f] \in Prefixes(f)
           /\ (f \in src /\ JobOf(f) \in queue) \/ f \in refused

\* A file is in its place only if those before it in its work file are: uux
\* puts the X. file that starts a command after the D. files it needs.
DataBeforeExec ==
    \A j \in Jobs : \A m, n \in DOMAIN Lines[j] :
        LET f == Lines[j][m].file
            x == Lines[j][n].file
        IN m < n /\ place[x] # None => place[f] = Whole(f) \/ f \in refused

\* A file is received twice only if a session failed in between.
DuplicateOnlyAfterLoss ==
    \A f \in Files : delivered[f] <= 1 + MaxFaults - faults

\* The hosts agree on whose turn it is: what a host reads is a packet it knows
\* what to do with (the "invalid response" branches, the XN of rheader and the
\* "previous request not completed" of newrequest are never taken), and they
\* are not both waiting for each other.
Expects == [putreply  |-> {"SY", "SN"}, getreply |-> {"RY", "RN"},
            eofreply  |-> {"CY", "CN"}, breakreply |-> {"HN", "HY"},
            chkreply  |-> {"HY"},       recvhdr  |-> {"S", "R", "H"},
            recvdata  |-> {"data", "eof"}]
InTurn ==
    /\ \A h \in Hosts :
         /\ p[h].state \in Reading /\ inb[h] # <<>> =>
              Head(inb[h]).type \in Expects[p[h].state] \cup {"CLOSE"}
         /\ p[h].state = "request" => ~p[h].stream
    /\ ~ /\ \A h \in Hosts : p[h].state \in Reading /\ inb[h] = <<>>
         /\ up

\* A job that stays in its queue however often it is tried.
Stuck(j) == \E r \in Requests(j) : r.type = "S" /\ r.file \in Unreadable

\* A host that has said H, and got nothing to do from the other host since, tries
\* its queue again (schkdir) only if there is something in it, and all of that has
\* come since its last scan began or has a file that cannot be read.  (The comment
\* of sbreak knows of the first kind only: hosts that both have one of the second
\* hand the line to each other for ever.)
NotIdle == \A h \in Hosts :
              p[h].state = "noremote" /\ p'[h].state = "nextjob" =>
                 /\ Mine(h) # {}
                 /\ \A j \in Mine(h) : j \in p[h].tried => Stuck(j)
NoIdleRetry == [][NotIdle]_vars

\* This machine implements what Delivery.tla promises.
Promise == INSTANCE Delivery WITH
    pending  <- {f \in Files : JobOf(f) \in queue \cup later},
    kept     <- src,
    arrivals <- delivered
Delivers == Promise!Spec

(***************************************************************************)
(* Liveness.                                                               *)
(***************************************************************************)
\* Every session ends.
AllOver == \A h \in Hosts : p[h].state = "over"
Ends == []<>AllOver

\* Every job is done in the end and its files have arrived.
Settled == queue = {} /\ \A f \in Files \ refused : place[f] = Whole(f)
AllDelivered == <>[]Settled

\* Of every file there is always a whole copy somewhere, never a damaged one
\* under its name, and the two ends agree on whose turn it is.
FilesSafe == TypeOK /\ NothingLost /\ Intact /\ InTurn

\* Files come in order, and again only after a loss.
InOrder == DataBeforeExec /\ DuplicateOnlyAfterLoss
=============================================================================
