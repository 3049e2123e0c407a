-------------------------------- MODULE Uuxqt --------------------------------
(***************************************************************************)
(* uuxqt: the commands of one remote system are executed, at most one      *)
(* program at a time, while uucico goes on receiving others.               *)
(*                                                                         *)
(* A command is an execute file (X.) and, as a rule, a data file (D.) that *)
(* uucico has received before it (Xfer.tla, DataBeforeExec).  Executing it *)
(* hands the mails of the data file to rmail one after the other; only     *)
(* then are the two files deleted, so a program that dies leaves the       *)
(* command to be executed again, from its first mail.                      *)
(***************************************************************************)
EXTENDS Integers, FiniteSets

CONSTANTS
    Procs,      \* uuxqt programs: uucico starts one after every call
    Jobs,       \* commands received from the system
    Mails,      \* Mails[j]: mails in j's data file (1 for rmail)
    NoData,     \* commands whose data file never comes
    Unknown,    \* commands that are not supported or make no sense
    MaxFaults,  \* bound: programs that die, mails refused, moves that fail
    None

ASSUME UuxqtAssumption ==
    /\ Procs # {} /\ None \notin Procs \cup Jobs
    /\ Mails \in [Jobs -> Nat \ {0}]
    /\ NoData \subseteq Jobs /\ Unknown \subseteq Jobs
    /\ MaxFaults \in Nat

VARIABLES
    queue,    \* execute files in the spool directory
    data,     \* data files in the spool directory
    bad,      \* execute files in bad.job
    lock,     \* who holds the LCX lock of the system
    pc, job,  \* pc[p]: what p does next, to job[p]
    seen,     \* seen[p]: files p's scan of the directory (readnext) gave
    done,     \* done[p]: mails of job[p] that p has delivered
    faults,
    brought,  \* history: data files that have arrived
    arrived,  \* history: execute files that have arrived
    given,    \* history: given[j][i]: how often mail i of j was delivered
    dead,     \* history: dead[j]: programs that died executing j
    dropped   \* history: commands deleted as they could not be moved

spool   == <<queue, data, bad>>
program == <<lock, pc, job, seen, done>>
history == <<brought, arrived, given, dead, dropped>>
vars    == <<spool, program, faults, history>>

Busy == {"deliver", "unlink exec", "unlink data", "reject"}

TypeOK ==
    /\ queue \subseteq Jobs /\ data \subseteq Jobs /\ bad \subseteq Jobs
    /\ lock \in Procs \cup {None}
    /\ pc \in [Procs -> {"idle", "scan", "lock", "open"} \cup Busy]
    /\ job \in [Procs -> Jobs \cup {None}]
    /\ seen \in [Procs -> SUBSET Jobs] /\ done \in [Procs -> Nat]
    /\ faults \in 0..MaxFaults
    /\ brought \subseteq Jobs /\ arrived \subseteq Jobs
    /\ dead \in [Jobs -> 0..MaxFaults] /\ dropped \subseteq Jobs
    /\ \A p \in Procs : pc[p] \in Busy => lock = p /\ job[p] \in Jobs

Init ==
    /\ queue = {} /\ data = {} /\ bad = {} /\ lock = None
    /\ pc = [p \in Procs |-> "idle"] /\ job = [p \in Procs |-> None]
    /\ seen = [p \in Procs |-> {}] /\ done = [p \in Procs |-> 0]
    /\ faults = 0 /\ brought = {} /\ arrived = {}
    /\ given = [j \in Jobs |-> [i \in 1..Mails[j] |-> 0]]
    /\ dead = [j \in Jobs |-> 0] /\ dropped = {}

Goto(p, here, next) == pc[p] = here /\ pc' = [pc EXCEPT ![p] = next]
Fault == faults < MaxFaults /\ faults' = faults + 1

-----------------------------------------------------------------------------
(***************************************************************************)
(* uucico puts a file it has received whole into the spool directory.      *)
(***************************************************************************)
DataArrives(j) ==
    /\ j \notin brought \cup NoData
    /\ data' = data \cup {j} /\ brought' = brought \cup {j}
    /\ UNCHANGED <<queue, bad, program, faults, arrived, given, dead, dropped>>

ExecArrives(j) ==
    /\ j \notin arrived /\ j \in brought \cup NoData
    /\ queue' = queue \cup {j} /\ arrived' = arrived \cup {j}
    /\ UNCHANGED <<data, bad, program, faults, brought, given, dead, dropped>>

-----------------------------------------------------------------------------
(***************************************************************************)
(* do_uuxqt: the files of the system one by one, under its lock, which is  *)
(* only asked for when there is a first file.                              *)
(***************************************************************************)
Start(p) ==
    /\ Goto(p, "idle", "scan")
    /\ seen' = [seen EXCEPT ![p] = {}]
    /\ UNCHANGED <<spool, lock, job, done, faults, history>>

readnext(p) ==
    /\ Goto(p, "scan", IF lock = p THEN "open" ELSE "lock")
    /\ \E j \in queue \ seen[p] : /\ job' = [job EXCEPT ![p] = j]
                                  /\ seen' = [seen EXCEPT ![p] = @ \cup {j}]
    /\ UNCHANGED <<spool, lock, done, faults, history>>

\* Mutant: the lock of another program does not count.
LockSystem_Shared(p) ==
    /\ Goto(p, "lock", "open")
    /\ lock' = p
    /\ UNCHANGED <<spool, job, seen, done, faults, history>>

LockSystem(p) ==
    /\ Goto(p, "lock", "open")
    /\ lock = None /\ lock' = p
    /\ UNCHANGED <<spool, job, seen, done, faults, history>>

\* Another uuxqt is at work for the system.
Locked(p) ==
    /\ Goto(p, "lock", "idle")
    /\ lock \notin {None, p}
    /\ UNCHANGED <<spool, lock, job, seen, done, faults, history>>

\* The directory holds no more files.
UnlockSystem(p) ==
    /\ Goto(p, "scan", "idle")
    /\ queue \subseteq seen[p]
    /\ lock' = IF lock = p THEN None ELSE lock
    /\ UNCHANGED <<spool, job, seen, done, faults, history>>

-----------------------------------------------------------------------------
(***************************************************************************)
(* process: one execute file.                                              *)
(***************************************************************************)

\* It is gone: another program has dealt with it since readnext found it.
Gone(p) ==
    /\ Goto(p, "open", "scan")
    /\ job[p] \notin queue
    /\ UNCHANGED <<spool, lock, job, seen, done, faults, history>>

\* A file it needs (its F line) is missing, or there is no telling what to do.
Skip(p) ==
    /\ Goto(p, "open", "reject")
    /\ job[p] \in queue /\ (job[p] \notin data \/ job[p] \in Unknown)
    /\ UNCHANGED <<spool, lock, job, seen, done, faults, history>>

Execute(p) ==
    /\ Goto(p, "open", "deliver")
    /\ job[p] \in queue \cap data /\ job[p] \notin Unknown
    /\ done' = [done EXCEPT ![p] = 0]
    /\ UNCHANGED <<spool, lock, job, seen, faults, history>>

\* The next mail goes to rmail, which delivers it.
Deliver(p) ==
    LET j == job[p]
        i == done[p] + 1
    IN  /\ Goto(p, "deliver", IF i = Mails[j] THEN "unlink exec" ELSE "deliver")
        /\ given' = [given EXCEPT ![j][i] = @ + 1]
        /\ done' = [done EXCEPT ![p] = i]
        /\ UNCHANGED <<spool, lock, job, seen, faults, brought, arrived, dead,
                       dropped>>

\* Mutant: rmail's result is not looked at.
Refuse_Goes(p) ==
    /\ pc[p] = "deliver" /\ Fault
    /\ done' = [done EXCEPT ![p] = @ + 1]
    /\ pc' = [pc EXCEPT ![p] = IF done[p] + 1 = Mails[job[p]]
                               THEN "unlink exec" ELSE "deliver"]
    /\ UNCHANGED <<spool, lock, job, seen, history>>

\* rmail fails: no more mails of this batch, the command counts as failed.
Refuse(p) ==
    /\ Goto(p, "deliver", "reject") /\ Fault
    /\ UNCHANGED <<spool, lock, job, seen, done, history>>

\* Mutant: the data file goes instead of the execute file.
UnlinkExec_Data(p) ==
    /\ Goto(p, "unlink exec", "unlink data")
    /\ data' = data \ {job[p]}
    /\ UNCHANGED <<queue, bad, lock, job, seen, done, faults, history>>

UnlinkExec(p) ==
    /\ Goto(p, "unlink exec", "unlink data")
    /\ queue' = queue \ {job[p]}
    /\ UNCHANGED <<data, bad, lock, job, seen, done, faults, history>>

\* Mutant: the data file stays.
UnlinkData_Not(p) ==
    /\ Goto(p, "unlink data", "scan")
    /\ UNCHANGED <<spool, lock, job, seen, done, faults, history>>

UnlinkData(p) ==
    /\ Goto(p, "unlink data", "scan")
    /\ data' = data \ {job[p]}
    /\ UNCHANGED <<queue, bad, lock, job, seen, done, faults, history>>

\* The execute file is moved to bad.job, or deleted if that fails; the data
\* file stays where it is.
Reject(p) ==
    /\ Goto(p, "reject", "scan")
    /\ queue' = queue \ {job[p]}
    /\ \/ bad' = bad \cup {job[p]} /\ UNCHANGED <<dropped, faults>>
       \/ dropped' = dropped \cup {job[p]} /\ Fault /\ UNCHANGED bad
    /\ UNCHANGED <<data, lock, job, seen, done, brought, arrived, given, dead>>

-----------------------------------------------------------------------------
\* The program dies, or ends on Ctrl-Break before the next file.
Die(p) ==
    /\ pc[p] # "idle" /\ Fault
    /\ pc' = [pc EXCEPT ![p] = "idle"]
    /\ lock' = IF lock = p THEN None ELSE lock
    /\ dead' = IF pc[p] \in Busy THEN [dead EXCEPT ![job[p]] = @ + 1] ELSE dead
    /\ UNCHANGED <<spool, job, seen, done, brought, arrived, given, dropped>>

process(p) == \/ Gone(p) \/ Skip(p) \/ Execute(p) \/ Deliver(p)
              \/ UnlinkExec(p) \/ UnlinkData(p) \/ Reject(p)
do_uuxqt(p) == \/ readnext(p) \/ LockSystem(p) \/ Locked(p) \/ UnlockSystem(p)
               \/ process(p)

Next == \/ \E j \in Jobs : DataArrives(j) \/ ExecArrives(j)
        \/ \E p \in Procs : Start(p) \/ do_uuxqt(p) \/ Refuse(p) \/ Die(p)

Spec == Init /\ [][Next]_vars

\* Programs run on, and each is started again as calls go on.
FairSpec == Spec /\ \A p \in Procs : WF_vars(Start(p) \/ do_uuxqt(p))

-----------------------------------------------------------------------------
(***************************************************************************)
(* Properties                                                              *)
(***************************************************************************)
Executed(j) == \A i \in 1..Mails[j] : given[j][i] > 0

\* Every mail is delivered once, and once more at most for each program that
\* died while it executed the command: neither two programs at a time nor a
\* file name read before the lock was granted delivers it twice (do_uuxqt).
OncePerRun == \A j \in Jobs : \A i \in 1..Mails[j] : given[j][i] <= 1 + dead[j]

\* A command that has arrived is in the queue until all its mails have been
\* delivered or it is in bad.job, wherever programs die; unless it could not
\* even be moved there (process).
KeptUntilDone ==
    \A j \in arrived : j \in queue \cup bad \cup dropped \/ Executed(j)

\* A command in bad.job, kept "for later perusal", has the data file that came
\* with it: what was executed and half cleaned up is not taken for a command
\* with a missing file (the order of the two unlinks).
RejectedIsWhole == bad \cap brought \subseteq data

\* Every command is dealt with, and its data file goes too unless the command
\* is in bad.job, could not be moved or a program died over it.
Handled ==
    \A j \in Jobs :
       j \in arrived ~> /\ j \notin queue
                        /\ j \in data => j \in bad \cup dropped \/ dead[j] > 0
=============================================================================
