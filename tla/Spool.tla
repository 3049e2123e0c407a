-------------------------------- MODULE Spool --------------------------------
(***************************************************************************)
(* How a job gets into the queue of a remote system and out of it: several *)
(* uux programs (do_remote with standard input) queue commands while       *)
(* uucico works through the queue.                                         *)
(*                                                                         *)
(* A job is three files named after one sequence number (getseq): the data *)
(* file, the execute file (sent as X.) and the call file that lists the    *)
(* two (C.).  Nothing locks the queue.  A job appears in it with its call  *)
(* file, so the order in which uux creates and closes the files is all     *)
(* that keeps uucico from sending half a job.                              *)
(*                                                                         *)
(* A file's contents reach the disk when it is closed: they are shorter    *)
(* than a stdio buffer, and until then the writer's fd_lock keeps others   *)
(* from reading it (both of flock.c and of the share support).             *)
(***************************************************************************)
EXTENDS Integers, Sequences, FiniteSets

CONSTANTS
    Users,      \* runs of uux; each queues one job
    FirstSeq,   \* number in the sequence file, if there is one
    Now,        \* the clock, in seconds: no second passes
    SeqLimit,   \* getseq wraps there (0x40000000)
    Base,       \* JobNumber's numbers: 0..Base-1 (62^3)
    SpoolFaults,  \* bound: programs that die and connections that drop
    Missing,    \* the sequence file is not there
    Empty,      \* it has been created and not written to yet
    Nil

Names == 0..(Base - 1)
Kinds == {"data", "exec", "call"}

\* A spool file: whose job it is, whether it is all there, whether that job's
\* uux still has it open.
SpoolFile == [job : Users, whole : BOOLEAN, open : BOOLEAN]

ASSUME SpoolAssumption ==
    /\ Users # {} /\ IsFiniteSet(Users)
    /\ FirstSeq \in Nat /\ Now \in Nat
    /\ SeqLimit \in Nat \ {0} /\ Base \in Nat \ {0} /\ SpoolFaults \in Nat
    /\ Nil \notin Users \cup Nat \cup SpoolFile
    /\ {Missing, Empty} \cap Nat = {} /\ Missing # Empty

VARIABLES
    seqfile,  \* contents of the sequence file
    seqlock,  \* who holds its fd_lock
    pc, seq,  \* pc[u]: uux's next step; seq[u]: the number it got
    file,     \* file[k][n]: the spool file of kind k and job number n
    daemon,   \* uucico: "idle", "scan" (scandir), "read" or "send" (newrequest)
    work,     \* number of the call file uucico has open
    lines,    \* kinds of the files still to send of those it lists
    seen,     \* call files this scan of the directory has been through
    again,    \* ~scan_not_needed: a call file was deleted, scan once more
    remote,   \* what the other host got
    spoolfaults,
    byClock,  \* history: users that numbered their job from the clock
    peeked    \* history: users whose call file was read while they wrote it

seqVars  == <<seqfile, seqlock, seq, byClock>>
uucico   == <<daemon, work, lines, seen, again, remote, peeked>>
spoolVars == <<pc, seqVars, file, uucico, spoolfaults>>

Steps == {"open seq", "make seq", "lock seq", "read seq", "write seq",
          "open exec", "open data", "close data", "close exec",
          "open call", "close call"}

SpoolTypeOK ==
    /\ seqfile \in 0..SeqLimit \cup {FirstSeq, Missing, Empty}
    /\ seqlock \in Users \cup {Nil}
    /\ pc \in [Users -> Steps \cup {"queued", "dead"}]
    /\ seq \in [Users -> Nat \cup {Nil}]
    /\ file \in [Kinds -> [Names -> SpoolFile \cup {Nil}]]
    /\ daemon \in {"idle", "scan", "read", "send"}
    /\ work \in Names \cup {Nil} /\ lines \in Seq({"data", "exec"})
    /\ seen \subseteq Names /\ again \in BOOLEAN
    /\ remote \subseteq [kind : {"data", "exec"}, name : Names, job : Users,
                         whole : BOOLEAN]
    /\ spoolfaults \in 0..SpoolFaults
    /\ byClock \subseteq Users /\ peeked \subseteq Users

SpoolInit ==
    /\ seqfile \in {FirstSeq, Missing} /\ seqlock = Nil
    /\ pc = [u \in Users |-> "open seq"] /\ seq = [u \in Users |-> Nil]
    /\ file = [k \in Kinds |-> [n \in Names |-> Nil]]
    /\ daemon = "idle" /\ work = Nil /\ lines = <<>>
    /\ seen = {} /\ again = FALSE /\ remote = {}
    /\ spoolfaults = 0 /\ byClock = {} /\ peeked = {}

JobNumber(u) == seq[u] % Base

Goto(u, here, next) == pc[u] = here /\ pc' = [pc EXCEPT ![u] = next]

-----------------------------------------------------------------------------
(***************************************************************************)
(* getseq.                                                                 *)
(***************************************************************************)

\* FOPEN "r+"
OpenSeq(u) ==
    /\ Goto(u, "open seq", IF seqfile = Missing THEN "make seq" ELSE "lock seq")
    /\ UNCHANGED <<seqVars, file, uucico, spoolfaults>>

\* FOPEN "w": it empties the file, whoever has created it in the meantime.
MakeSeq(u) ==
    /\ Goto(u, "make seq", "lock seq")
    /\ seqfile' = Empty
    /\ byClock' = byClock \cup {u}
    /\ UNCHANGED <<seqlock, seq, file, uucico, spoolfaults>>

\* Mutant: the sequence file is not locked.
LockSeq_Shared(u) ==
    /\ Goto(u, "lock seq", "read seq")
    /\ seqlock' = u
    /\ UNCHANGED <<seqfile, seq, byClock, file, uucico, spoolfaults>>

\* fd_lock waits for the file.
LockSeq(u) ==
    /\ Goto(u, "lock seq", "read seq")
    /\ seqlock = Nil /\ seqlock' = u
    /\ UNCHANGED <<seqfile, seq, byClock, file, uucico, spoolfaults>>

\* The number in the file; the clock if u has just created it or finds none.
ReadSeq(u) ==
    LET clock == u \in byClock \/ seqfile = Empty
    IN  /\ Goto(u, "read seq", "write seq")
        /\ seq' = [seq EXCEPT ![u] = (IF clock THEN Now ELSE seqfile) % SeqLimit]
        /\ byClock' = IF clock THEN byClock \cup {u} ELSE byClock
        /\ UNCHANGED <<seqfile, seqlock, file, uucico, spoolfaults>>

\* fclose writes the next number and gives up the lock.
WriteSeq(u) ==
    /\ Goto(u, "write seq", "open exec")
    /\ seqfile' = seq[u] + 1
    /\ seqlock' = Nil
    /\ UNCHANGED <<seq, byClock, file, uucico, spoolfaults>>

-----------------------------------------------------------------------------
(***************************************************************************)
(* do_remote: the execute file is opened first and closed last of the two  *)
(* files to send, as the data file's name goes into it.                    *)
(***************************************************************************)

\* FOPEN "w" empties a file that is there already.
Open(u, k) ==
    file' = [file EXCEPT ![k][JobNumber(u)] =
               [job |-> u, whole |-> FALSE, open |-> TRUE]]
Close(u, k) ==
    file' = [file EXCEPT ![k][JobNumber(u)] =
               [job |-> u, whole |-> TRUE, open |-> FALSE]]

OpenExec(u)  == /\ Goto(u, "open exec", "open data") /\ Open(u, "exec")
                /\ UNCHANGED <<seqVars, uucico, spoolfaults>>
OpenData(u)  == /\ Goto(u, "open data", "close data") /\ Open(u, "data")
                /\ UNCHANGED <<seqVars, uucico, spoolfaults>>
CloseData(u) == /\ Goto(u, "close data", "close exec") /\ Close(u, "data")
                /\ UNCHANGED <<seqVars, uucico, spoolfaults>>

CloseExec(u) == /\ Goto(u, "close exec", "open call") /\ Close(u, "exec")
                /\ UNCHANGED <<seqVars, uucico, spoolfaults>>
OpenCall(u)  == /\ Goto(u, "open call", "close call") /\ Open(u, "call")
                /\ UNCHANGED <<seqVars, uucico, spoolfaults>>
CloseCall(u) == /\ Goto(u, "close call", "queued") /\ Close(u, "call")
                /\ UNCHANGED <<seqVars, uucico, spoolfaults>>

\* uux dies, or a file cannot be opened and it returns: its files are closed
\* as they are and its lock is gone; so is a number it has not written back.
Die(u) ==
    /\ pc[u] \in Steps
    /\ spoolfaults < SpoolFaults /\ spoolfaults' = spoolfaults + 1
    /\ pc' = [pc EXCEPT ![u] = "dead"]
    /\ seqlock' = IF seqlock = u THEN Nil ELSE seqlock
    /\ file' = [k \in Kinds |-> [n \in Names |->
                  IF file[k][n] # Nil /\ file[k][n].job = u
                  THEN [file[k][n] EXCEPT !.open = FALSE] ELSE file[k][n]]]
    /\ seq' = [seq EXCEPT ![u] = IF pc[u] = "write seq" THEN Nil ELSE @]
    /\ UNCHANGED <<seqfile, byClock, uucico>>

-----------------------------------------------------------------------------
(***************************************************************************)
(* uucico's side: scandir and newrequest, a call at a time.                *)
(***************************************************************************)
Queue == {n \in Names : file["call"][n] # Nil}

CallUp ==
    /\ daemon = "idle" /\ Queue # {}
    /\ daemon' = "scan" /\ seen' = {} /\ again' = FALSE
    /\ UNCHANGED <<pc, seqVars, file, work, lines, remote, peeked, spoolfaults>>

\* scandir: the next call file of the directory.
scandir ==
    /\ daemon = "scan"
    /\ \E n \in Queue \ seen : work' = n /\ seen' = seen \cup {n}
    /\ daemon' = "read"
    /\ UNCHANGED <<pc, seqVars, file, lines, again, remote, peeked, spoolfaults>>

\* scandir: no more; another scan if a job was done in this one.
NoMore ==
    /\ daemon = "scan" /\ Queue \subseteq seen
    /\ daemon' = IF again THEN "scan" ELSE "idle"
    /\ seen' = {} /\ again' = FALSE
    /\ UNCHANGED <<pc, seqVars, file, work, lines, remote, peeked, spoolfaults>>

\* newrequest: the first fgets takes all the call file holds, nothing if uux
\* has not closed it.
ReadCall ==
    LET c == file["call"][work]
    IN  /\ daemon = "read"
        /\ lines' = IF c # Nil /\ c.whole THEN <<"data", "exec">> ELSE <<>>
        /\ peeked' = IF c # Nil /\ c.open THEN peeked \cup {c.job} ELSE peeked
        /\ daemon' = "send"
        /\ UNCHANGED <<pc, seqVars, file, work, seen, again, remote, spoolfaults>>

\* A file is sent and deleted; one that is not there has been sent before.
Send ==
    LET k == Head(lines)
        f == file[k][work]
    IN  /\ daemon = "send" /\ lines # <<>>
        /\ lines' = Tail(lines)
        /\ IF f = Nil THEN UNCHANGED <<file, remote>>
           ELSE /\ remote' = remote \cup {[kind |-> k, name |-> work,
                                           job |-> f.job, whole |-> f.whole]}
                /\ file' = [file EXCEPT ![k][work] =
                              IF f.open THEN f ELSE Nil]
        /\ UNCHANGED <<pc, seqVars, daemon, work, seen, again, peeked, spoolfaults>>

\* newrequest at the end of the call file: it is deleted unless uux has it
\* open, which unlink does not get past.
EndOfCall ==
    LET gone == file["call"][work] = Nil \/ ~file["call"][work].open
    IN  /\ daemon = "send" /\ lines = <<>>
        /\ file' = [file EXCEPT !["call"][work] = IF gone THEN Nil ELSE @]
        /\ again' = (again \/ gone)
        /\ daemon' = "scan" /\ work' = Nil
        /\ UNCHANGED <<pc, seqVars, lines, seen, remote, peeked, spoolfaults>>

\* The connection drops, or uucico dies: the call file stays.
LoseLine ==
    /\ daemon # "idle"
    /\ spoolfaults < SpoolFaults /\ spoolfaults' = spoolfaults + 1
    /\ daemon' = "idle" /\ work' = Nil /\ lines' = <<>>
    /\ UNCHANGED <<pc, seqVars, file, seen, again, remote, peeked>>

-----------------------------------------------------------------------------
uux(u) == \/ OpenSeq(u) \/ MakeSeq(u) \/ LockSeq(u) \/ ReadSeq(u) \/ WriteSeq(u)
          \/ OpenExec(u) \/ OpenData(u) \/ CloseData(u) \/ CloseExec(u)
          \/ OpenCall(u) \/ CloseCall(u)

Session == CallUp \/ scandir \/ NoMore \/ ReadCall \/ Send \/ EndOfCall

SpoolNext == \/ \E u \in Users : uux(u) \/ Die(u)
        \/ Session \/ LoseLine

SpoolSpec == SpoolInit /\ [][SpoolNext]_spoolVars

\* Programs run on, and the other host is called as long as there is work.
SpoolFairness == WF_spoolVars(Session) /\ \A u \in Users : WF_spoolVars(uux(u))
FairSpoolSpec == SpoolSpec /\ SpoolFairness

-----------------------------------------------------------------------------
(***************************************************************************)
(* Properties                                                              *)
(***************************************************************************)
Numbered == {u \in Users : seq[u] # Nil}

\* u's job shares its file names with no other.
Alone(u) == u \in Numbered =>
               \A v \in Numbered \ {u} : JobNumber(v) # JobNumber(u)

\* Two jobs get different names however the programs interleave, the number
\* wraps or a program dies while it holds the sequence file, as long as at most
\* one of them had to take its number from the clock (getseq, JobNumber).
UniqueNames == Cardinality(byClock) <= 1 => \A u \in Numbered : Alone(u)

\* What uucico sends is whole and both files of a call file are of its job:
\* the call file, written last, is what makes a job visible (do_remote).
WholeJobs ==
    /\ \A r \in remote : Alone(r.job) => r.whole
    /\ \A n \in Names :
          LET c == file["call"][n]
          IN  c # Nil /\ c.whole /\ Alone(c.job) =>
                \A k \in {"data", "exec"} :
                   \/ file[k][n] # Nil /\ file[k][n].whole /\ file[k][n].job = c.job
                   \/ \E r \in remote : r.kind = k /\ r.job = c.job

Sent(u) == \A k \in {"data", "exec"} : \E r \in remote : r.kind = k /\ r.job = u

\* A job that uux has queued is in the queue until the other host has both
\* files, whatever connections drop in between; except that a call file that
\* uucico read while uux was writing it may be taken for a finished one
\* (newrequest's unlink, see NeverLost).
StaysQueued ==
    \A u \in Users :
       pc[u] = "queued" /\ Alone(u) /\ u \notin peeked =>
          \/ Sent(u)
          \/ /\ file["call"][JobNumber(u)] # Nil
             /\ file["call"][JobNumber(u)].job = u

\* A queued job gets to the other host and leaves nothing in the spool.
Served ==
    \A u \in Users :
       pc[u] = "queued" ~>
          \/ ~Alone(u) \/ u \in peeked
          \/ Sent(u) /\ \A k \in Kinds, n \in Names :
                           file[k][n] = Nil \/ file[k][n].job # u

\* newrequest: when the call file has no more lines, "the job is complete and
\* we can delete all the files we worked on" (dcpxfer.c:399).
NeverLost ==
    \A u \in Users :
       pc[u] = "queued" /\ Alone(u) =>
          \/ Sent(u)
          \/ /\ file["call"][JobNumber(u)] # Nil
             /\ file["call"][JobNumber(u)].job = u

\* Jobs have names of their own, are sent whole, and stay queued until then.
QueueSafe == SpoolTypeOK /\ UniqueNames /\ WholeJobs /\ StaysQueued
=============================================================================
