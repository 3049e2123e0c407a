-------------------------------- MODULE Ustat --------------------------------
(***************************************************************************)
(* uustat on a spool uucico is working through: what it lists, kills (-k,   *)
(* or all it lists with -K), rejuvenates (-r) and polls (-P).              *)
(*                                                                         *)
(* Neither program locks a job against the other.  What keeps them apart   *)
(* is that a file somebody has open cannot be deleted: uucico has a job's  *)
(* call file open while it sends the files of it.                          *)
(*                                                                         *)
(* A job's file name is taken for the job itself (module Names); hosts     *)
(* differ in the seven characters that name their directories.             *)
(***************************************************************************)
EXTENDS Integers, Sequences, FiniteSets, SequencesExt

CONSTANTS
    Hosts,      \* the remote hosts in the order of the host table
    Jobs,
    HostOf, UserOf, KindOf,  \* of a job, UserOf as in its call file
    StartsWith, \* StartsWith[h]: hosts the names of whose jobs start like h
    ValidName,  \* hosts whose names are good for a DOS name
    Me,         \* E_mailbox, who runs uustat
    Commands,   \* what uustat may be asked for
    Queues,     \* sets of jobs the spool may hold at first
    UsFaults,   \* bound: connections that drop, programs that die
    All, Absent

JobKinds == {"command", "copy", "straight", "poll"}

ASSUME UstatAssumption ==
    /\ Hosts \in Seq(Range(Hosts)) /\ Hosts # <<>>
    /\ \A i, k \in DOMAIN Hosts : Hosts[i] = Hosts[k] => i = k
    /\ HostOf \in [Jobs -> Range(Hosts)] /\ KindOf \in [Jobs -> JobKinds]
    /\ StartsWith \in [Range(Hosts) -> SUBSET Range(Hosts)]
    /\ \A h \in Range(Hosts) : h \in StartsWith[h]
    /\ \A h \in Range(Hosts) :
          Cardinality({j \in Jobs : HostOf[j] = h /\ KindOf[j] = "poll"}) = 1
    /\ Queues \subseteq SUBSET Jobs
    /\ \A c \in Commands :
          /\ c.system \in Range(Hosts) \cup {All, Absent}
          /\ c.op \in {"list", "poll"} \/ (c.op \in {"kill", "refresh"} /\ c.job \in Jobs)
    /\ UsFaults \in Nat /\ Absent \notin Jobs \cup {"data", "exec"}

VARIABLES
    calls,     \* jobs whose call files are in the spool
    data,      \* data[j]: the data files of j in the spool
    work, left, sending,  \* uucico: job, lines to do, file being sent
    sent,      \* sent[j]: files of j the other host has
    pc, cmd,   \* uustat: its next step, the command
    host,      \* host whose directory it lists
    current,   \* nexthost's place in the host table
    seen,      \* call files of that directory it has been through
    job, lines,  \* job it reads or kills, lines of it to do
    hit, usfaults,
    killed,    \* history: jobs reported killed
    told,      \* history: files reported as impossible to delete
    crossed,   \* history: jobs it was killing while uucico had them open
    broken,    \* history: jobs it died in the middle of killing
    taken,     \* history: uucico has deleted a call file
    before     \* history: jobs in the spool when it began

daemon  == <<work, left, sending, sent>>
ustat   == <<pc, cmd, host, current, seen, job, lines, hit>>
history == <<killed, told, crossed, broken, taken, before>>
usVars  == <<calls, data, daemon, ustat, history, usfaults>>

\* Data files a call file names, in its order; a straight copy ("D.0") is sent
\* from the user's own file.
Files(j) == CASE KindOf[j] = "command" -> <<"data", "exec">>
              [] KindOf[j] = "copy" -> <<"data">>
              [] OTHER -> <<>>

PollJob(h) == CHOOSE j \in Jobs : HostOf[j] = h /\ KindOf[j] = "poll"

Killing(j) == job = j /\ pc \in {"kill_data", "kill_call"}
HasOpen(j) == work = j                   \* uucico has j's call file open
Reading(j) == job = j /\ pc = "kill_data"  \* uustat has

UsInit ==
    /\ calls \in Queues
    /\ data = [j \in Jobs |-> IF j \in calls THEN Range(Files(j)) ELSE {}]
    /\ work = Absent /\ left = <<>> /\ sending = Absent
    /\ sent = [j \in Jobs |-> {}]
    /\ pc = "start" /\ cmd \in Commands
    /\ host = Absent /\ current = 1 /\ seen = {} /\ job = Absent /\ lines = <<>>
    /\ hit = FALSE /\ usfaults = 0
    /\ killed = {} /\ told = {} /\ crossed = {} /\ broken = {} /\ taken = FALSE
    /\ before = {}

-----------------------------------------------------------------------------
(***************************************************************************)
(* uucico: a job's files are sent and deleted, then its call file.         *)
(***************************************************************************)
Begin ==
    /\ work = Absent
    /\ \E j \in calls :
          /\ work' = j /\ left' = Files(j)
          /\ crossed' = IF Killing(j) THEN crossed \cup {j} ELSE crossed
    /\ UNCHANGED <<calls, data, sending, sent, ustat, killed, told, broken,
                   taken, before, usfaults>>

\* A file that is not there has been sent before.
OpenFile ==
    /\ work # Absent /\ sending = Absent /\ left # <<>>
    /\ sending' = IF Head(left) \in data[work] THEN Head(left) ELSE Absent
    /\ left' = Tail(left)
    /\ UNCHANGED <<calls, data, work, sent, ustat, history, usfaults>>

SendFile ==
    /\ sending # Absent
    /\ sent' = [sent EXCEPT ![work] = @ \cup {sending}]
    /\ data' = [data EXCEPT ![work] = @ \ {sending}]
    /\ sending' = Absent
    /\ UNCHANGED <<calls, work, left, ustat, history, usfaults>>

FinishCall ==
    /\ work # Absent /\ sending = Absent /\ left = <<>>
    /\ IF Reading(work) THEN UNCHANGED <<calls, taken>>
       ELSE calls' = calls \ {work} /\ taken' = TRUE
    /\ work' = Absent
    /\ UNCHANGED <<data, left, sending, sent, ustat, killed, told, crossed,
                   broken, before, usfaults>>

usDropLine ==
    /\ work # Absent
    /\ usfaults < UsFaults /\ usfaults' = usfaults + 1
    /\ work' = Absent /\ left' = <<>> /\ sending' = Absent
    /\ UNCHANGED <<calls, data, sent, ustat, history>>

-----------------------------------------------------------------------------
(***************************************************************************)
(* main: the command.  all goes through one host or the host table.        *)
(***************************************************************************)
User == IF cmd.user = Absent THEN IF cmd.system = Absent THEN Me ELSE All
        ELSE cmd.user
System == IF cmd.system = Absent THEN All ELSE cmd.system

usMain ==
    /\ pc = "start"
    /\ before' = calls
    /\ current' = IF System = All THEN 1 ELSE current
    /\ CASE cmd.op \in {"list", "poll"} ->
              /\ pc' = IF cmd.op = "list" THEN "readnext" ELSE "poll"
              /\ host' = IF System = All THEN Hosts[1] ELSE System
              /\ UNCHANGED job
         [] OTHER -> pc' = "is_job" /\ job' = cmd.job /\ UNCHANGED host
    /\ UNCHANGED <<calls, data, daemon, cmd, seen, lines, hit, killed, told,
                   crossed, broken, taken, usfaults>>

\* nexthost( FALSE ), if all hosts are wanted; what follows the last is `last`.
StepHost(last) ==
    IF System = All /\ current < Len(Hosts)
    THEN current' = current + 1 /\ host' = Hosts[current + 1] /\ pc' = pc
    ELSE current' = current + 1 /\ host' = Absent /\ pc' = last

\* readnext: the next call file of the host's directory, in any order; each
\* is opened by name afterwards.
usReadnext ==
    /\ pc = "readnext"
    /\ \E j \in calls \ seen :
          HostOf[j] = host /\ job' = j /\ seen' = seen \cup {j}
    /\ pc' = "status"
    /\ UNCHANGED <<calls, data, daemon, cmd, host, current, lines, hit, history,
                   usfaults>>

\* all: no more in this directory.
usNoMore ==
    /\ pc = "readnext" /\ \A j \in calls \ seen : HostOf[j] # host
    /\ StepHost(IF hit THEN "exit_0" ELSE "exit_5")
    /\ seen' = {}
    /\ UNCHANGED <<calls, data, daemon, cmd, job, lines, hit, history, usfaults>>

Displayed == User \in {All} \cup IF KindOf[job] = "poll" THEN {} ELSE {UserOf[job]}

\* open_call( JOB_STATUS ): the call file tells whose job it is; one that is
\* gone in the meantime stops the program.  The execute file is looked into.
usStatus ==
    /\ pc = "status"
    /\ IF job \notin calls THEN pc' = "panic" /\ UNCHANGED hit
       ELSE IF "exec" \in data[job] THEN pc' = "open_data" /\ UNCHANGED hit
       ELSE /\ hit' = (hit \/ Displayed)
            /\ pc' = IF Displayed /\ cmd.kill THEN "is_job" ELSE "readnext"
    /\ UNCHANGED <<calls, data, daemon, cmd, host, current, seen, job, lines,
                   history, usfaults>>

\* open_data, after the file's length was asked for.
usOpenData ==
    /\ pc = "open_data"
    /\ IF "exec" \notin data[job] THEN pc' = "panic" /\ UNCHANGED hit
       ELSE /\ hit' = (hit \/ Displayed)
            /\ pc' = IF Displayed /\ cmd.kill THEN "is_job" ELSE "readnext"
    /\ UNCHANGED <<calls, data, daemon, cmd, host, current, seen, job, lines,
                   history, usfaults>>

-----------------------------------------------------------------------------
(***************************************************************************)
(* kill_job and refresh_job.                                               *)
(***************************************************************************)

\* Hosts in whose directory is_job looks for j's call file.
Candidates(j) == {h \in Range(Hosts) : HostOf[j] \in StartsWith[h]}
Index(h) == CHOOSE i \in DOMAIN Hosts : Hosts[i] = h

\* Mutant: it looks through all of the host table.
IsJob_ToTheEnd ==
    /\ pc = "is_job"
    /\ LET found == {h \in Candidates(job) : h = HostOf[job] /\ job \in calls}
       IN  /\ pc' = IF found = {} THEN "exit_1" ELSE "open_call"
           /\ current' = Len(Hosts) + 1
    /\ UNCHANGED <<calls, data, daemon, cmd, host, seen, job, lines, hit,
                   history, usfaults>>

\* is_job: the first host in whose directory there is such a file; nexthost
\* stays there, which is where all has got to.  None: exit(1).
IsJob ==
    /\ pc = "is_job"
    /\ LET found == {h \in Candidates(job) : h = HostOf[job] /\ job \in calls}
           first == CHOOSE h \in found : \A g \in found : Index(h) <= Index(g)
       IN  IF found = {} THEN pc' = "exit_1" /\ current' = Len(Hosts) + 1
           ELSE pc' = "open_call" /\ current' = Index(first)
    /\ UNCHANGED <<calls, data, daemon, cmd, host, seen, job, lines, hit,
                   history, usfaults>>

\* open_call( JOB_KILL or JOB_REFRESH ); touch does nothing.
usOpenCall ==
    /\ pc = "open_call"
    /\ IF job \notin calls THEN pc' = "panic" /\ UNCHANGED lines
       ELSE IF cmd.op = "refresh" THEN pc' = "exit_0" /\ UNCHANGED lines
       ELSE pc' = "kill_data" /\ lines' = Files(job)
    /\ UNCHANGED <<calls, data, daemon, cmd, host, current, seen, job, hit,
                   history, usfaults>>

\* A line of the call file: its data file is deleted, unless uucico sends it.
usKillData ==
    /\ pc = "kill_data" /\ lines # <<>>
    /\ LET f == Head(lines)
           busy == HasOpen(job) /\ sending = f
       IN  /\ data' = IF busy THEN data ELSE [data EXCEPT ![job] = @ \ {f}]
           /\ told' = IF busy THEN told \cup {<<job, f>>} ELSE told
           /\ crossed' = IF HasOpen(job) THEN crossed \cup {job} ELSE crossed
    /\ lines' = Tail(lines)
    /\ UNCHANGED <<calls, daemon, pc, cmd, host, current, seen, job, hit, killed,
                   broken, taken, before, usfaults>>

\* Mutant: only the first line's file is deleted.
usCloseCall_Early ==
    /\ pc = "kill_data" /\ Len(lines) < 2
    /\ pc' = "kill_call"
    /\ UNCHANGED <<calls, data, daemon, cmd, host, current, seen, job, lines, hit,
                   history, usfaults>>

usCloseCall ==
    /\ pc = "kill_data" /\ lines = <<>>
    /\ pc' = "kill_call"
    /\ UNCHANGED <<calls, data, daemon, cmd, host, current, seen, job, lines, hit,
                   history, usfaults>>

AfterKill == IF cmd.op = "list" THEN "readnext" ELSE "exit_0"

\* Mutant: the job is reported killed whatever unlink says.
KillCall_Anyway ==
    /\ pc = "kill_call" /\ pc' = AfterKill
    /\ calls' = IF HasOpen(job) THEN calls ELSE calls \ {job}
    /\ killed' = killed \cup {job}
    /\ UNCHANGED <<data, daemon, cmd, host, current, seen, job, lines, hit, told,
                   crossed, broken, taken, before, usfaults>>

\* kill_job: the call file last.
KillCall ==
    /\ pc = "kill_call" /\ pc' = AfterKill
    /\ IF job \in calls /\ ~HasOpen(job)
       THEN calls' = calls \ {job} /\ killed' = killed \cup {job} /\ UNCHANGED told
       ELSE told' = told \cup {<<job, "call">>} /\ UNCHANGED <<calls, killed>>
    /\ UNCHANGED <<data, daemon, cmd, host, current, seen, job, lines, hit,
                   crossed, broken, taken, before, usfaults>>

-----------------------------------------------------------------------------
\* poll: an empty call file, if the host has none.
usPoll ==
    /\ pc = "poll"
    /\ IF host \in ValidName \/ System # All
       THEN calls' = calls \cup {PollJob(host)} ELSE UNCHANGED calls
    /\ StepHost("exit_0")
    /\ UNCHANGED <<data, daemon, cmd, seen, job, lines, hit, history, usfaults>>

Over == {"exit_0", "exit_1", "exit_5", "panic", "dead"}

\* uustat is stopped, or the machine.
usDie ==
    /\ pc \notin Over /\ usfaults < UsFaults /\ usfaults' = usfaults + 1
    /\ pc' = "dead"
    /\ broken' = IF pc \in {"kill_data", "kill_call"} THEN broken \cup {job}
                 ELSE broken
    /\ UNCHANGED <<calls, data, daemon, cmd, host, current, seen, job, lines, hit,
                   killed, told, crossed, taken, before>>

uustat == \/ usMain \/ usReadnext \/ usNoMore \/ usStatus \/ usOpenData
          \/ IsJob \/ usOpenCall \/ usKillData \/ usCloseCall \/ KillCall
          \/ usPoll
uucico == Begin \/ OpenFile \/ SendFile \/ FinishCall

UsNext == uustat \/ uucico \/ usDropLine \/ usDie
UsSpec == UsInit /\ [][UsNext]_usVars

-----------------------------------------------------------------------------
(***************************************************************************)
(* Properties                                                              *)
(***************************************************************************)

\* A job that uustat has reported killed sends nothing more: kill_job could
\* not have deleted the call file while uucico had it open.
NothingAfterKill == [][\A j \in killed : sent'[j] = sent[j]]_usVars

\* No data file stays behind without its call file, except one that was being
\* sent when it was to be deleted and was reported (open_call, "may to have to
\* be deleted by hand").
NoOrphan ==
    \A j \in Jobs \ calls : \A f \in data[j] : <<j, f>> \in told

\* The other host gets an execute file without its data only if the job was
\* being killed while it was sent, or uustat died in the middle of killing it.
NeverExecAlone ==
    \A j \in Jobs \ (crossed \cup broken) : "exec" \in sent[j] => "data" \in sent[j]

\* When uustat -K comes to its end, none of the jobs it was to kill is left but
\* those it has reported: is_job's search does not disturb all's.  Calls that
\* only poll a host are killed with everybody's jobs, not with one user's.
KillsAll ==
    cmd.op = "list" /\ cmd.kill /\ pc = "exit_0" =>
       \A j \in before :
          \/ System \notin {All, HostOf[j]} \/ User \notin {All, UserOf[j]}
          \/ KindOf[j] = "poll" /\ User # All
          \/ j \notin calls \/ <<j, "call">> \in told

\* uustat -K gives up half way only when uucico has deleted a call file in the
\* meantime: a host whose name is the start of another's never misleads it.
StopsOnlyInRace ==
    cmd.op = "list" /\ pc \in {"exit_1", "panic"} =>
       taken \/ \E j \in Jobs : sent[j] # {}

\* What is killed is killed whole: no data without its command and, at the other
\* host, no command without its data (kill_job's order).
KilledWhole == NoOrphan /\ NeverExecAlone

\* uustat -K kills all it is to kill, or has met uucico on the way.
KillsAllOrRaces == KillsAll /\ StopsOnlyInRace
=============================================================================
