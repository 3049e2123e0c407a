------------------------------- MODULE Status -------------------------------
(***************************************************************************)
(* The status of the hosts that several programs of one machine keep in    *)
(* one file: uucico processes that call hosts (dcpmain's loop, dcupdate)   *)
(* and uusub, which clears counters (HostReset).  A process locks a host   *)
(* while it calls it and the file while it rewrites it, and then holds     *)
(* both (PushLock, PopLock).  It keeps a copy of the file in memory and    *)
(* loads the file again only if its time stamp is another (HostStatus).    *)
(*                                                                         *)
(* Of a host's entry the model has the status and the time of the last     *)
(* attempt; the statuses of a failed dial are one, and so are those of a   *)
(* failed login.  A lock is an open, locked file: the system frees it when *)
(* the process ends, and a locked file cannot be deleted, so LockSystem    *)
(* and UnlockSystem are one step each.  SHARE is on, the file exists, and  *)
(* the systems file may name a host more than once.                        *)
(***************************************************************************)
EXTENDS Integers

CONSTANTS
    Callers,    \* uucico processes
    Resetters,  \* uusub processes
    Systems,    \* the hosts
    StatusFile, \* "*status", the name the file is locked by
    Retries,    \* attempts to lock the file (31)
    MaxTime,    \* bound on the clock
    MaxCalls,   \* bound on the calls of a process
    MaxFaults,  \* bound on crashes and failures of fopen
    None

Procs == Callers \cup Resetters
Locks == Systems \cup {StatusFile}

ASSUME StatusAssumption ==
    /\ Callers \cap Resetters = {} /\ StatusFile \notin Systems
    /\ None \notin Procs \cup Locks
    /\ Systems # {}   \* loadhost enters the local host in any case
    /\ Retries \in Nat \ {0}
    /\ MaxTime \in Nat /\ MaxCalls \in Nat /\ MaxFaults \in Nat

VARIABLES
    p,      \* p[x]: where process x is, and its locks
    mem,    \* mem[x]: its copy of the entries
    age,    \* age[x]: time stamp of the file it has seen (hstatus_age)
    owner,  \* owner[l]: the process that has l locked
    file,   \* the status file
    now,    \* the clock, in units of the file system's time stamps
    latest, \* history: the latest attempt to call each host that the file
            \* had when it was last whole
    view,   \* history: view[x]: what x has got of the file, see Views
    faults  \* faults still to come

vars == <<p, mem, age, owner, file, now, latest, view, faults>>

Never    == -1
Statuses == {"nocall", "autodial", "dial_failed", "script_failed", "startup_failed",
             "inprogress", "called", "succeeded", "call_failed"}
Entry    == [hstatus : Statuses, ltime : 0..MaxTime]
Unknown  == [s \in Systems |-> [hstatus |-> "nocall", ltime |-> 0]]
Torn     == <<>>      \* the file between fopen("w") and fclose

\* All that is in it; not what was written since; or not that and it has looked:
\* the file had the time stamp of the one it knew, or it was torn.
Views == {"new", "old", "same", "torn"}

\* A call is dial to drop; the rest of dcpmain's loop is head, init and lock;
\* dcupdate and HostReset are try to pop.
Places == {"load", "head", "init", "lock", "dial", "startup", "talk", "end",
           "drop", "try", "sync", "open", "write", "pop", "exit"}
Process == [at : Places, next : Places,
            host : Systems \cup {None},           \* hostp
            shown : Statuses,                     \* remote_stats.hstatus
            locket : Locks \cup {None},           \* NULL: not locked
            saved : Locks \cup {None},            \* savelock
            tries : 0..Retries,
            last : BOOLEAN,                       \* Front or Aborted
            calls : 0..MaxCalls]

TypeOK ==
    /\ p \in [Procs -> Process]
    /\ mem \in [Procs -> [Systems -> Entry]]
    /\ age \in [Procs -> Never..MaxTime]
    /\ owner \in [Locks -> Procs \cup {None}]
    /\ file \in [age : 0..MaxTime, body : {Torn} \cup [Systems -> Entry]]
    /\ now \in 0..MaxTime
    /\ latest \in [Systems -> 0..MaxTime]
    /\ view \in [Procs -> Views]
    /\ faults \in 0..MaxFaults

Init ==
    /\ \E front \in BOOLEAN :
         p = [x \in Procs |->
                [at |-> "load", next |-> "init", host |-> None, shown |-> "nocall",
                 locket |-> None, saved |-> None, tries |-> 0, last |-> front,
                 calls |-> 0]]
    /\ mem = [x \in Procs |-> Unknown]
    /\ age = [x \in Procs |-> Never]
    /\ owner = [l \in Locks |-> None]
    /\ file = [age |-> 0, body |-> Unknown]
    /\ now = 0
    /\ latest = [s \in Systems |-> 0]
    /\ view = [x \in Procs |-> "old"]
    /\ faults = MaxFaults

-----------------------------------------------------------------------------
Become(x, q) == p' = [p EXCEPT ![x] = q]
goto(x, place) == Become(x, [p[x] EXCEPT !.at = place])

\* HostStatus: load the file unless its time stamp is the one seen last.  The
\* entry read takes the place of the one in memory; only the later of the two
\* times is kept.  Nothing comes out of a torn file.
Merge(old, new) == [new EXCEPT !.ltime = IF old.ltime > @ THEN old.ltime ELSE @]
HostStatus(x) ==
    /\ age' = [age EXCEPT ![x] = file.age]
    /\ mem' = IF file.age = age[x] \/ file.body = Torn THEN mem
              ELSE [mem EXCEPT ![x] =
                      [s \in Systems |-> Merge(@[s], file.body[s])]]
    /\ view' = [view EXCEPT ![x] = IF @ = "new" THEN "new"
                                   ELSE IF file.age = age[x] THEN "same"
                                   ELSE IF file.body = Torn THEN "torn" ELSE "new"]

\* LOCKSTACK: the start of dcupdate and of HostReset
PushLock(q, next) ==
    [q EXCEPT !.at = "try", !.next = next, !.saved = q.locket, !.locket = None,
              !.tries = Retries]

Held(x) == {l \in Locks : owner[l] = x}

\* "if ( locked ) UnlockSystem();"
UnlockSystem(x) ==
    owner' = IF p[x].locket = None THEN owner ELSE [owner EXCEPT ![p[x].locket] = None]

\* A process that ends leaves its locks to the system.
Ended(own, x) == [l \in Locks |-> IF own[l] = x THEN None ELSE own[l]]

-----------------------------------------------------------------------------
\* The status is loaded when the program starts, without the lock.
Load(x) ==
    /\ p[x].at = "load"
    /\ HostStatus(x)
    /\ Become(x, IF x \in Callers THEN [p[x] EXCEPT !.at = "init"]
                 ELSE PushLock(p[x], "exit"))
    /\ UNCHANGED <<owner, file, now, latest, faults>>

\* The head of dcpmain's loop: save a status that has changed.
LoopHead(x) ==
    LET q == p[x]
    IN /\ q.at = "head"
       /\ Become(x, IF mem[x][q.host].hstatus # q.shown THEN PushLock(q, q.next)
                    ELSE [q EXCEPT !.at = q.next])
       /\ UNCHANGED <<mem, age, owner, file, now, latest, view, faults>>

\* Mutant: a lock that is left is not dropped.
InitializeLocked(x) ==
    /\ p[x].at = "init"
    /\ \/ \E s \in Systems :
            /\ mem[x][s].hstatus # "called" /\ p[x].calls < MaxCalls
            /\ Become(x, [p[x] EXCEPT !.at = "lock", !.host = s, !.calls = @ + 1,
                                      !.shown = mem[x][s].hstatus])
       \/ Become(x, PushLock(p[x], "exit"))
    /\ UNCHANGED <<mem, age, owner, file, now, latest, view, faults>>

\* CONN_INITIALIZE: drop a lock that is left and get the next host to call
\* (getsystem), or end with a last update (report).
Initialize(x) ==
    LET q == [p[x] EXCEPT !.locket = None]
    IN /\ p[x].at = "init"
       /\ UnlockSystem(x)
       /\ \/ \E s \in Systems :
               /\ mem[x][s].hstatus # "called" /\ q.calls < MaxCalls
               /\ Become(x, [q EXCEPT !.at = "lock", !.host = s, !.calls = @ + 1,
                                      !.shown = mem[x][s].hstatus])
          \/ Become(x, PushLock(q, "exit"))
       /\ UNCHANGED <<mem, age, file, now, latest, view, faults>>

\* CONN_CALLUP1
LockSystem(x) ==
    LET s == p[x].host
    IN /\ p[x].at = "lock"
       /\ IF owner[s] = None
          THEN /\ owner' = [owner EXCEPT ![s] = x]
               /\ mem' = [mem EXCEPT ![x][s] = [hstatus |-> "autodial", ltime |-> now]]
               /\ Become(x, [p[x] EXCEPT !.at = "head", !.next = "dial", !.locket = s])
          ELSE goto(x, "init") /\ UNCHANGED <<owner, mem>>
       /\ UNCHANGED <<age, file, now, latest, view, faults>>

\* The host's status becomes status; the loop goes on at place.
SetStatus(x, status, place) ==
    /\ mem' = [mem EXCEPT ![x][p[x].host].hstatus = status]
    /\ Become(x, [p[x] EXCEPT !.at = "head", !.next = place])
OfHost(x) == mem[x][p[x].host].hstatus

\* CONN_CALLUP2: callup notes the time again; it finds no device or the wrong
\* time, fails to dial or to log in, or has logged in, with the failure that it
\* had assumed as the status.
Dial(x) ==
    /\ p[x].at = "dial"
    /\ \E out \in {<<"dial_failed", "init">>, <<"dial_failed", "drop">>,
                   <<"script_failed", "drop">>, <<"script_failed", "startup">>} :
         /\ mem' = [mem EXCEPT ![x][p[x].host] = [hstatus |-> out[1], ltime |-> now]]
         /\ Become(x, [p[x] EXCEPT !.at = "head", !.next = out[2]])
    /\ UNCHANGED <<age, owner, file, now, latest, view, faults>>

\* CONN_PROTOCOL: startup_server
Startup(x) ==
    /\ p[x].at = "startup"
    /\ \/ SetStatus(x, "startup_failed", "drop")
       \/ SetStatus(x, "call_failed", "drop")
       \/ SetStatus(x, "inprogress", "talk")
    /\ UNCHANGED <<age, owner, file, now, latest, view, faults>>

\* CONN_SERVER: process.  Neither side has work left, or this side only sends;
\* or the line is lost, or the transfer is aborted.
Talk(x) ==
    /\ p[x].at = "talk"
    /\ \/ SetStatus(x, "called", "end")
       \/ SetStatus(x, IF OfHost(x) = "inprogress" THEN "called" ELSE OfHost(x), "end")
       \/ SetStatus(x, "call_failed", "drop")
       \/ /\ mem' = [mem EXCEPT ![x][p[x].host].hstatus = "call_failed"]
          /\ Become(x, [p[x] EXCEPT !.at = "head", !.next = "end", !.last = TRUE])
    /\ UNCHANGED <<age, owner, file, now, latest, view, faults>>

\* CONN_TERMINATE: sysend.  wmsg and rmsg note a lost line or a farewell that
\* does not come as a failed call.
Terminate(x) ==
    /\ p[x].at = "end"
    /\ \/ SetStatus(x, IF OfHost(x) = "inprogress" THEN "call_failed" ELSE OfHost(x), "drop")
       \/ SetStatus(x, "call_failed", "drop")
    /\ UNCHANGED <<age, owner, file, now, latest, view, faults>>

\* CONN_DROPLINE
DropLine(x) ==
    LET q == [p[x] EXCEPT !.locket = None]
    IN /\ p[x].at = "drop"
       /\ UnlockSystem(x)
       /\ Become(x, IF q.last THEN PushLock(q, "exit") ELSE [q EXCEPT !.at = "init"])
       /\ UNCHANGED <<mem, age, file, now, latest, view, faults>>

-----------------------------------------------------------------------------
(***************************************************************************)
(* dcupdate, and HostReset, which differs in that it does not load the     *)
(* file (uusub did when it started), clears counters, and has its own end. *)
(***************************************************************************)
\* Back in dcpmain's loop, with the locks of q, or at the end of the program.
Return(x, q, own) ==
    IF q.next = "exit"
    THEN /\ owner' = Ended(own, x)
         /\ Become(x, [q EXCEPT !.at = "exit"])
    ELSE /\ owner' = own
         /\ Become(x, [q EXCEPT !.at = q.next, !.shown = OfHost(x)])

\* Mutant: without the lock the file is rewritten all the same.
LockFileAnyway(x) ==
    /\ p[x].at = "try"
    /\ owner' = [owner EXCEPT ![StatusFile] = x]
    /\ Become(x, [p[x] EXCEPT !.at = "sync", !.locket = StatusFile])
    /\ UNCHANGED <<mem, age, file, now, latest, view, faults>>

LockFile(x) ==
    LET q == p[x]
    IN /\ q.at = "try"
       /\ \/ /\ owner[StatusFile] = None
             /\ owner' = [owner EXCEPT ![StatusFile] = x]
             /\ Become(x, [q EXCEPT !.at = IF x \in Callers THEN "sync" ELSE "open",
                                    !.locket = StatusFile])
          \/ /\ owner[StatusFile] # None /\ q.tries > 1
             /\ Become(x, [q EXCEPT !.tries = @ - 1])
             /\ UNCHANGED owner
          \/ /\ owner[StatusFile] # None /\ q.tries = 1   \* give up
             /\ Return(x, q, owner)
       /\ UNCHANGED <<mem, age, file, now, latest, view, faults>>

\* Mutant: dcupdate does not load the file.
SyncNot(x) ==
    /\ p[x].at = "sync"
    /\ goto(x, "open")
    /\ UNCHANGED <<mem, age, owner, file, now, latest, view, faults>>

Sync(x) ==
    /\ p[x].at = "sync"
    /\ HostStatus(x)
    /\ goto(x, "open")
    /\ UNCHANGED <<owner, file, now, latest, faults>>

\* FOPEN cuts the file down, or fails: then dcupdate returns as it is, and
\* HostReset panics.
Open(x) ==
    /\ p[x].at = "open"
    /\ \/ /\ file' = [age |-> now, body |-> Torn]
          /\ goto(x, "write")
          /\ UNCHANGED <<owner, faults>>
       \/ /\ faults > 0 /\ faults' = faults - 1
          /\ Return(x, p[x], owner)
          /\ UNCHANGED file
    /\ UNCHANGED <<mem, age, now, latest, view>>

\* fwrite, fclose, stater.  A call that is over is saved as succeeded.
Saved(e) == IF e.hstatus = "called" THEN [e EXCEPT !.hstatus = "succeeded"] ELSE e

Write(x) ==
    /\ p[x].at = "write"
    /\ file' = [age |-> now,
                body |-> [s \in Systems |->
                            IF x \in Callers THEN Saved(mem[x][s]) ELSE mem[x][s]]]
    /\ latest' = [s \in Systems |-> mem[x][s].ltime]
    /\ view' = [y \in Procs |-> IF y = x THEN "new" ELSE "old"]
    /\ age' = [age EXCEPT ![x] = now]
    /\ goto(x, "pop")
    /\ UNCHANGED <<mem, owner, now, faults>>

\* Mutant: the lock saved comes back first, and is the one released.
PopLockFirst(x) ==
    /\ p[x].at = "pop"
    /\ Return(x, [p[x] EXCEPT !.locket = None, !.saved = None],
              IF p[x].saved = None THEN owner
              ELSE [owner EXCEPT ![p[x].saved] = None, ![StatusFile] = None])
    /\ UNCHANGED <<mem, age, file, now, latest, view, faults>>

\* UnlockSystem and PopLock
PopLock(x) ==
    /\ p[x].at = "pop"
    /\ Return(x, [p[x] EXCEPT !.locket = p[x].saved, !.saved = None],
              [owner EXCEPT ![p[x].locket] = None])
    /\ UNCHANGED <<mem, age, file, now, latest, view, faults>>

-----------------------------------------------------------------------------
\* A process dies (panic, the break key, the machine's operator).
Crash(x) ==
    /\ faults > 0 /\ faults' = faults - 1
    /\ p[x].at # "exit"
    /\ goto(x, "exit")
    /\ owner' = Ended(owner, x)
    /\ UNCHANGED <<mem, age, file, now, latest, view>>

Tick == /\ now < MaxTime /\ now' = now + 1
        /\ UNCHANGED <<p, mem, age, owner, file, latest, view, faults>>

Step(x) == \/ Load(x) \/ LoopHead(x) \/ Initialize(x) \/ LockSystem(x) \/ Dial(x)
           \/ Startup(x) \/ Talk(x) \/ Terminate(x) \/ DropLine(x)
           \/ LockFile(x) \/ Sync(x) \/ Open(x) \/ Write(x) \/ PopLock(x)

Next == Tick \/ \E x \in Procs : Step(x) \/ Crash(x)

Spec == Init /\ [][Next]_vars

-----------------------------------------------------------------------------
InCall(x) == p[x].at \in {"dial", "startup", "talk", "end"}

\* Two uucico processes are never in a call to the same host, whatever happens
\* to the locks while the status is saved (LockSystem, PushLock, PopLock).
HostExclusive ==
    \A x, y \in Callers :
        x # y /\ InCall(x) /\ InCall(y) => p[x].host # p[y].host

\* LockSystem never finds a lock open in its own process, and UnlockSystem
\* always finds one: neither panics.
NoPanic ==
    \A x \in Procs :
        /\ p[x].at \in {"lock", "try"} => p[x].locket = None
        /\ p[x].at = "pop" => p[x].locket = StatusFile

\* dcupdate loads the file only while nobody is rewriting it, whatever has
\* failed: it finds it torn only if the process that was has died (the lock on it
\* is not released before it is closed).  HostStatus as the program starts has no
\* lock and may find it torn; NewestKept says what comes of that.
LoadsWholeFile ==
    \A x, y \in Procs : ~(p[x].at = "sync" /\ p[y].at = "write")

\* A uucico never takes the file back to an older attempt to call a host, also if
\* it has loaded a torn file when it started: before it rewrites the file it has
\* got what the others wrote, whenever it last looked ("Get new data, if
\* needed").  Two cases are left out by name: the file had the time stamp of the
\* one it knew, or it was still torn, as the process that rewrote it has died.
NewestKept ==
    [][\A x \in Callers :
          p[x].at = "write" /\ p'[x].at = "pop" /\ view[x] \notin {"same", "torn"} =>
             \A s \in Systems : file'.body[s].ltime >= latest[s]]_vars
=============================================================================
