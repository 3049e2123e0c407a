---------------------------- MODULE StatusProofs ----------------------------
(***************************************************************************)
(* Proofs about Status: the type invariant, that LockSystem and            *)
(* UnlockSystem do not panic, that two processes are never in a call to    *)
(* the same host, that a process loads a whole status file, and that no    *)
(* write takes back the newest record, for all sets of processes and       *)
(* hosts, with crashes and failures of fopen.                              *)
(*                                                                         *)
(* And about Ustat: what uustat and uucico leave of the jobs that both     *)
(* work on, for any hosts and jobs (UsInv).                                *)
(***************************************************************************)
EXTENDS Status, Ustat, FiniteSetTheorems, TLAPS

CallAt == {"dial", "startup", "talk", "end"}
HoldAt == {"sync", "open", "write", "pop"}
SaveAt == HoldAt \cup {"try"}
NextAt == CallAt \cup {"drop", "init"}

\* A call is going on, though the process may be saving the status.
OnCall(x) == \/ p[x].at \in CallAt
             \/ p[x].at \in SaveAt \cup {"head"} /\ p[x].next \in CallAt

\* Where a process may be, and what it has locked there.  A lock that dcupdate
\* has forgotten is still owned: nobody else can take it.
PlaceOK(x) ==
    /\ p[x].at \in CallAt \cup {"lock", "head", "drop"} => p[x].host \in Systems
    /\ p[x].at \in SaveAt /\ p[x].next # "exit" => p[x].host \in Systems
    /\ p[x].at = "head" => p[x].next \in NextAt
    /\ p[x].at \in SaveAt => p[x].next \in NextAt \cup {"exit"}
    /\ p[x].at \in {"lock", "try"} => p[x].locket = None
    /\ p[x].at \in HoldAt => p[x].locket = StatusFile /\ p[x].saved # StatusFile
LocksOK(x) ==
    /\ p[x].at # "exit" /\ p[x].locket # None => owner[p[x].locket] = x
    /\ p[x].at \in SaveAt /\ p[x].saved # None => owner[p[x].saved] = x
    /\ OnCall(x) => owner[p[x].host] = x

IInv == TypeOK /\ \A x \in Procs : PlaceOK(x) /\ LocksOK(x)

LEMMA ConstantFacts ==
    /\ Systems \subseteq Locks /\ StatusFile \in Locks /\ StatusFile \notin Systems
    /\ None \notin Locks /\ None \notin Procs /\ Callers \subseteq Procs
    /\ Retries \in Nat /\ Retries > 0 /\ MaxTime \in Nat /\ MaxCalls \in Nat
    /\ MaxFaults \in Nat
BY StatusAssumption DEF Locks, Procs

\* What is true at the start.
LEMMA InitIInv == Init => IInv
<1> SUFFICES ASSUME Init PROVE IInv
  OBVIOUS
<1> USE ConstantFacts DEF Init
<1>1. TypeOK
  <2>1. p \in [Procs -> Process]
    <3>1. PICK front \in BOOLEAN :
            p = [x \in Procs |->
                [at |-> "load", next |-> "init", host |-> None, shown |-> "nocall",
                 locket |-> None, saved |-> None, tries |-> 0, last |-> front,
                 calls |-> 0]]
      OBVIOUS
    <3> QED BY <3>1 DEF Process, Places, Statuses
  <2>2. Unknown \in [Systems -> Entry]
    BY DEF Unknown, Entry, Statuses
  <2> QED BY <2>1, <2>2 DEF TypeOK, Never, Views
<1>2. ASSUME NEW x \in Procs PROVE PlaceOK(x) /\ LocksOK(x)
  BY DEF PlaceOK, LocksOK, OnCall, CallAt, SaveAt, HoldAt
<1> QED BY <1>1, <1>2 DEF IInv

-----------------------------------------------------------------------------
\* The effect of an assignment to the state of one process.
LEMMA BecomeStep ==
    ASSUME TypeOK, NEW x \in Procs, NEW q \in Process, Become(x, q)
    PROVE  /\ p' \in [Procs -> Process] /\ p'[x] = q
           /\ \A y \in Procs \ {x} : p'[y] = p[y]
BY DEF TypeOK, Become

\* The other processes keep their invariant if only locks that are free or
\* one's own change hands.
LEMMA Others ==
    ASSUME IInv, NEW x \in Procs, NEW y \in Procs \ {x}, p'[y] = p[y],
           \A l \in Locks : owner'[l] # owner[l] => owner[l] \in {x, None}
    PROVE  PlaceOK(y)' /\ LocksOK(y)'
<1>1. PlaceOK(y) /\ LocksOK(y) /\ p[y] \in Process
  BY DEF IInv, TypeOK
<1>2. PlaceOK(y)'
  BY <1>1 DEF PlaceOK
<1>3. \A l \in Locks : owner[l] = y => owner'[l] = y
  BY ConstantFacts
<1>4. OnCall(y) => p[y].host \in Systems
  BY <1>1 DEF OnCall, PlaceOK, CallAt
<1>5. /\ p[y].locket # None => p[y].locket \in Locks
      /\ p[y].saved # None => p[y].saved \in Locks
  BY <1>1 DEF Process
<1>6. OnCall(y)' = OnCall(y)
  BY DEF OnCall
<1>7. LocksOK(y)'
  BY <1>1, <1>3, <1>4, <1>5, <1>6, ConstantFacts DEF LocksOK
<1> QED BY <1>2, <1>7

LEMMA EndedType ==
    ASSUME NEW own \in [Locks -> Procs \cup {None}], NEW x \in Procs
    PROVE  Ended(own, x) \in [Locks -> Procs \cup {None}]
BY DEF Ended

LEMMA MergeType ==
    ASSUME NEW a \in Entry, NEW b \in Entry PROVE Merge(a, b) \in Entry
BY ConstantFacts DEF Merge, Entry

LEMMA HostStatusType ==
    ASSUME TypeOK, NEW x \in Procs, HostStatus(x)
    PROVE  /\ mem' \in [Procs -> [Systems -> Entry]] /\ age' \in [Procs -> Never..MaxTime]
           /\ view' \in [Procs -> Views]
<1>0. view' \in [Procs -> Views]
  BY DEF TypeOK, HostStatus, Views
<1>1. age' \in [Procs -> Never..MaxTime]
  BY ConstantFacts DEF TypeOK, HostStatus, Never
<1>2. CASE file.age = age[x] \/ file.body = Torn
  BY <1>0, <1>1, <1>2 DEF TypeOK, HostStatus
<1>3. CASE ~(file.age = age[x] \/ file.body = Torn)
  <2>1. file.body \in [Systems -> Entry]
    BY <1>3 DEF TypeOK
  <2>2. ASSUME NEW s \in Systems PROVE Merge(mem[x][s], file.body[s]) \in Entry
    <3>1. mem[x][s] \in Entry /\ file.body[s] \in Entry
      BY <2>1 DEF TypeOK
    <3> QED BY <3>1, MergeType
  <2>3. [s \in Systems |-> Merge(mem[x][s], file.body[s])] \in [Systems -> Entry]
    BY <2>2
  <2> QED BY <1>0, <1>1, <1>3, <2>3 DEF TypeOK, HostStatus
<1> QED BY <1>2, <1>3

\* What the lemmas about the actions share: a step of x that gives x the state
\* q and changes hands only of locks that are free or x's own.
LEMMA StepOf ==
    ASSUME IInv, NEW x \in Procs, NEW q \in Process, Become(x, q), TypeOK',
           \A l \in Locks : owner'[l] # owner[l] => owner[l] \in {x, None},
           PlaceOK(x)', LocksOK(x)'
    PROVE  IInv'
<1>1. \A y \in Procs \ {x} : p'[y] = p[y]
  BY BecomeStep DEF IInv
<1>2. \A y \in Procs \ {x} : PlaceOK(y)' /\ LocksOK(y)'
  BY <1>1, Others
<1> QED BY <1>2 DEF IInv

-----------------------------------------------------------------------------
LEMMA PlaceFacts ==
    /\ CallAt \subseteq Places /\ SaveAt \subseteq Places /\ NextAt \subseteq Places
    /\ \A a \in {"init", "lock", "head", "exit", "try"} : a \in Places
    /\ Retries \in 0..Retries
BY ConstantFacts DEF CallAt, SaveAt, HoldAt, NextAt, Places

LEMMA PushType ==
    ASSUME NEW q \in Process, NEW next \in Places
    PROVE  PushLock(q, next) \in Process
BY PlaceFacts DEF PushLock, Process

LEMMA LoadStep == ASSUME IInv, NEW x \in Procs, Load(x) PROVE IInv'
<1> DEFINE q == IF x \in Callers THEN [p[x] EXCEPT !.at = "init"]
                ELSE PushLock(p[x], "exit")
<1>0. p[x] \in Process /\ p[x].at = "load" /\ PlaceOK(x) /\ LocksOK(x)
  BY DEF IInv, TypeOK, Load
<1>1. q \in Process
  <2>1. [p[x] EXCEPT !.at = "init"] \in Process
    BY <1>0, PlaceFacts DEF Process
  <2> QED BY <1>0, <2>1, PlaceFacts, PushType
<1>2. Become(x, q) /\ owner' = owner /\ p'[x] = q
  BY <1>1, BecomeStep DEF Load, IInv
<1>3. TypeOK'
  BY <1>1, <1>2, BecomeStep, HostStatusType DEF IInv, TypeOK, Load
<1>4. PlaceOK(x)' /\ LocksOK(x)'
  BY <1>0, <1>2 DEF PlaceOK, LocksOK, OnCall, CallAt, SaveAt, HoldAt, NextAt, PushLock, Process
<1> HIDE DEF q
<1> QED BY <1>1, <1>2, <1>3, <1>4, StepOf

LEMMA HeadStep == ASSUME IInv, NEW x \in Procs, LoopHead(x) PROVE IInv'
<1> DEFINE q == IF mem[x][p[x].host].hstatus # p[x].shown THEN PushLock(p[x], p[x].next)
                ELSE [p[x] EXCEPT !.at = p[x].next]
<1>0. p[x] \in Process /\ p[x].at = "head" /\ PlaceOK(x) /\ LocksOK(x)
  BY DEF IInv, TypeOK, LoopHead
<1>1. q \in Process
  <2>1. p[x].next \in Places
    BY <1>0 DEF Process
  <2>2. [p[x] EXCEPT !.at = p[x].next] \in Process
    BY <1>0, <2>1 DEF Process
  <2> QED BY <1>0, <2>1, <2>2, PushType
<1>2. Become(x, q) /\ owner' = owner /\ p'[x] = q
  BY <1>1, BecomeStep DEF LoopHead, IInv
<1>3. TypeOK'
  BY <1>1, <1>2, BecomeStep DEF IInv, TypeOK, LoopHead
<1>4. PlaceOK(x)' /\ LocksOK(x)'
  <2>1. CASE q = PushLock(p[x], p[x].next)
    BY <1>0, <1>2, <2>1
       DEF PlaceOK, LocksOK, OnCall, CallAt, SaveAt, HoldAt, NextAt, PushLock, Process
  <2>2. CASE q = [p[x] EXCEPT !.at = p[x].next]
    BY <1>0, <1>2, <2>2
       DEF PlaceOK, LocksOK, OnCall, CallAt, SaveAt, HoldAt, NextAt, Process
  <2> QED BY <2>1, <2>2
<1> HIDE DEF q
<1> QED BY <1>1, <1>2, <1>3, <1>4, StepOf

\* What "if ( locked ) UnlockSystem();" does to the locks.
LEMMA UnlockFacts ==
    ASSUME IInv, NEW x \in Procs, p[x].at # "exit", UnlockSystem(x)
    PROVE  /\ owner' \in [Locks -> Procs \cup {None}]
           /\ \A l \in Locks : owner'[l] # owner[l] => owner[l] = x
<1>1. p[x] \in Process /\ LocksOK(x) /\ owner \in [Locks -> Procs \cup {None}]
  BY DEF IInv, TypeOK
<1> QED BY <1>1 DEF UnlockSystem, LocksOK, Process

LEMMA InitializeStep == ASSUME IInv, NEW x \in Procs, Initialize(x) PROVE IInv'
<1> DEFINE q == [p[x] EXCEPT !.locket = None]
<1>0. p[x] \in Process /\ q \in Process /\ q.at = "init" /\ p[x].at = "init"
      /\ q.locket = None
  <2>1. p[x] \in Process /\ p[x].at = "init"
    BY DEF IInv, TypeOK, Initialize
  <2> QED BY <2>1 DEF Process
<1>1. UnlockSystem(x)
  BY DEF Initialize
<1>2. \A l \in Locks : owner'[l] # owner[l] => owner[l] \in {x, None}
  BY <1>0, <1>1, UnlockFacts
<1>3. ASSUME NEW r \in Process, Become(x, r) PROVE TypeOK' /\ p'[x] = r
  BY <1>0, <1>1, <1>3, UnlockFacts, BecomeStep DEF IInv, TypeOK, Initialize
<1>4. ASSUME NEW s \in Systems, q.calls < MaxCalls,
             Become(x, [q EXCEPT !.at = "lock", !.host = s, !.calls = @ + 1,
                                 !.shown = mem[x][s].hstatus])
      PROVE  IInv'
  <2> DEFINE r == [q EXCEPT !.at = "lock", !.host = s, !.calls = @ + 1,
                            !.shown = mem[x][s].hstatus]
  <2>1. mem[x][s].hstatus \in Statuses
    BY DEF IInv, TypeOK, Entry
  <2>2. q.calls + 1 \in 0..MaxCalls
    BY <1>0, <1>4, ConstantFacts DEF Process
  <2>3. r \in Process
    BY <1>0, <2>1, <2>2, PlaceFacts DEF Process
  <2>4. TypeOK' /\ p'[x] = r
    BY <2>3, <1>3, <1>4
  <2>5. PlaceOK(x)' /\ LocksOK(x)'
    BY <1>0, <2>4 DEF PlaceOK, LocksOK, OnCall, CallAt, SaveAt, HoldAt, NextAt, Process
  <2> HIDE DEF r
  <2> QED BY <1>2, <1>4, <2>3, <2>4, <2>5, StepOf DEF r
<1>5. ASSUME Become(x, PushLock(q, "exit")) PROVE IInv'
  <2> DEFINE r == PushLock(q, "exit")
  <2>1. r \in Process
    BY <1>0, PlaceFacts, PushType
  <2>2. TypeOK' /\ p'[x] = r
    BY <2>1, <1>3, <1>5
  <2>3. PlaceOK(x)' /\ LocksOK(x)'
    BY <1>0, <2>2 DEF PlaceOK, LocksOK, OnCall, CallAt, SaveAt, HoldAt, NextAt, PushLock, Process
  <2> QED BY <1>2, <1>5, <2>1, <2>2, <2>3, StepOf
<1> QED BY <1>4, <1>5 DEF Initialize

LEMMA LockSystemStep == ASSUME IInv, NEW x \in Procs, LockSystem(x) PROVE IInv'
<1> DEFINE s == p[x].host
<1>0. p[x] \in Process /\ p[x].at = "lock" /\ PlaceOK(x) /\ LocksOK(x)
  BY DEF IInv, TypeOK, LockSystem
<1>1. s \in Systems
  BY <1>0 DEF PlaceOK
<1>2. CASE owner[s] = None
  <2> DEFINE r == [p[x] EXCEPT !.at = "head", !.next = "dial", !.locket = s]
  <2>1. r \in Process
    <3>1. "head" \in Places /\ "dial" \in Places /\ s \in Locks
      BY <1>1, ConstantFacts DEF Places
    <3> HIDE DEF s
    <3> QED BY <1>0, <3>1 DEF Process
  <2>2. Become(x, r) /\ owner' = [owner EXCEPT ![s] = x]
    BY <1>2 DEF LockSystem
  <2>3. p'[x] = r /\ p' \in [Procs -> Process]
    BY <2>1, <2>2, BecomeStep DEF IInv
  <2>4. mem' \in [Procs -> [Systems -> Entry]]
    <3>1. [hstatus |-> "autodial", ltime |-> now] \in Entry
      BY DEF IInv, TypeOK, Entry, Statuses
    <3>2. mem \in [Procs -> [Systems -> Entry]]
      BY DEF IInv, TypeOK
    <3>3. mem' = [mem EXCEPT ![x][s] = [hstatus |-> "autodial", ltime |-> now]]
      BY <1>2 DEF LockSystem
    <3> HIDE DEF s
    <3> QED BY <1>1, <3>1, <3>2, <3>3
  <2>5. owner' \in [Locks -> Procs \cup {None}] /\ owner'[s] = x
        /\ \A l \in Locks : owner'[l] # owner[l] => owner[l] \in {x, None}
    BY <1>1, <1>2, <2>2, ConstantFacts DEF IInv, TypeOK
  <2>6. TypeOK'
    BY <2>3, <2>4, <2>5 DEF LockSystem, IInv, TypeOK
  <2>7. PlaceOK(x)' /\ LocksOK(x)'
    <3>1. r.at = "head" /\ r.next = "dial" /\ r.locket = s /\ r.host = s
      BY <1>0 DEF Process
    <3> HIDE DEF r, s
    <3> QED BY <1>1, <2>3, <2>5, <3>1
            DEF PlaceOK, LocksOK, OnCall, CallAt, SaveAt, HoldAt, NextAt
  <2> HIDE DEF r
  <2> QED BY <2>1, <2>2, <2>5, <2>6, <2>7, StepOf
<1>3. CASE owner[s] # None
  <2> DEFINE r == [p[x] EXCEPT !.at = "init"]
  <2>1. r \in Process
    BY <1>0, PlaceFacts DEF Process
  <2>2. Become(x, r) /\ owner' = owner /\ mem' = mem
    BY <1>3 DEF LockSystem, goto
  <2>3. p'[x] = r /\ TypeOK'
    BY <2>1, <2>2, BecomeStep DEF IInv, TypeOK, LockSystem
  <2>4. PlaceOK(x)' /\ LocksOK(x)'
    <3>1. r.at = "init" /\ r.locket = p[x].locket
      BY <1>0 DEF Process
    <3> HIDE DEF r, s
    <3> QED BY <1>0, <2>2, <2>3, <3>1
            DEF PlaceOK, LocksOK, OnCall, CallAt, SaveAt, HoldAt, NextAt
  <2> HIDE DEF r
  <2> QED BY <2>1, <2>2, <2>3, <2>4, StepOf
<1> QED BY <1>2, <1>3

\* The steps of a call change the status of the host, and the loop goes on at
\* another place of the call or after it.
LEMMA CallStep ==
    ASSUME IInv, NEW x \in Procs, p[x].at \in CallAt, NEW place \in NextAt,
           NEW over \in BOOLEAN,
           Become(x, [p[x] EXCEPT !.at = "head", !.next = place, !.last = over]),
           owner' = owner, TypeOK'
    PROVE  IInv'
<1> DEFINE r == [p[x] EXCEPT !.at = "head", !.next = place, !.last = over]
<1>0. p[x] \in Process /\ PlaceOK(x) /\ LocksOK(x)
  BY DEF IInv, TypeOK
<1>1. r \in Process
  BY <1>0, PlaceFacts DEF Process
<1>2. p'[x] = r
  BY <1>1, BecomeStep DEF IInv
<1>3. r.at = "head" /\ r.next = place /\ r.host = p[x].host /\ r.locket = p[x].locket
  BY <1>0 DEF Process
<1>4. p[x].host \in Systems /\ OnCall(x) /\ p[x].at # "exit"
  BY <1>0 DEF PlaceOK, OnCall, CallAt
<1> HIDE DEF r
<1>5. PlaceOK(x)' /\ LocksOK(x)'
  BY <1>0, <1>2, <1>3, <1>4 DEF PlaceOK, LocksOK, OnCall, CallAt, SaveAt, HoldAt, NextAt
<1> QED BY <1>1, <1>5, StepOf DEF r

\* The types that a step of a call keeps.
LEMMA CallType ==
    ASSUME IInv, NEW x \in Procs, p[x].at \in CallAt, NEW place \in NextAt
    PROVE  /\ p[x].host \in Systems /\ OfHost(x) \in Statuses
           /\ [p[x] EXCEPT !.at = "head", !.next = place] \in Process
           /\ p[x].last \in BOOLEAN
           /\ [p[x] EXCEPT !.at = "head", !.next = place]
                = [p[x] EXCEPT !.at = "head", !.next = place, !.last = p[x].last]
<1>1. p[x] \in Process /\ p[x].host \in Systems
  BY DEF IInv, TypeOK, PlaceOK
<1>2. OfHost(x) \in Statuses
  BY <1>1 DEF IInv, TypeOK, OfHost, Entry
<1>3. [p[x] EXCEPT !.at = "head", !.next = place] \in Process /\ p[x].last \in BOOLEAN
  BY <1>1, PlaceFacts DEF Process
<1>4. [p[x] EXCEPT !.at = "head", !.next = place]
        = [p[x] EXCEPT !.at = "head", !.next = place, !.last = p[x].last]
  BY <1>1 DEF Process
<1> QED BY <1>1, <1>2, <1>3, <1>4

LEMMA SetStatusStep ==
    ASSUME IInv, NEW x \in Procs, p[x].at \in CallAt, NEW place \in NextAt,
           NEW status \in Statuses, SetStatus(x, status, place),
           UNCHANGED <<age, owner, file, now, latest, view, faults>>
    PROVE  IInv'
<1>1. Become(x, [p[x] EXCEPT !.at = "head", !.next = place])
  BY DEF SetStatus
<1>2. p' \in [Procs -> Process]
  BY <1>1, CallType, BecomeStep DEF IInv
<1>3. mem' \in [Procs -> [Systems -> Entry]]
  <2>0. p[x].host \in Systems
    BY CallType
  <2>1. mem[x][p[x].host] \in Entry
    BY <2>0 DEF IInv, TypeOK
  <2>2. [mem[x][p[x].host] EXCEPT !.hstatus = status] \in Entry
    BY <2>1 DEF Entry
  <2> QED BY <2>0, <2>2 DEF SetStatus, IInv, TypeOK
<1>4. TypeOK'
  BY <1>2, <1>3 DEF IInv, TypeOK
<1>5. Become(x, [p[x] EXCEPT !.at = "head", !.next = place, !.last = p[x].last])
      /\ p[x].last \in BOOLEAN
  BY <1>1, CallType
<1> QED BY <1>4, <1>5, CallStep

LEMMA DialStep == ASSUME IInv, NEW x \in Procs, Dial(x) PROVE IInv'
<1> DEFINE outs == {<<"dial_failed", "init">>, <<"dial_failed", "drop">>,
                   <<"script_failed", "drop">>, <<"script_failed", "startup">>}
<1>1. PICK out \in outs :
        /\ mem' = [mem EXCEPT ![x][p[x].host] = [hstatus |-> out[1], ltime |-> now]]
        /\ Become(x, [p[x] EXCEPT !.at = "head", !.next = out[2]])
  BY DEF Dial
<1>2. out[1] \in Statuses /\ out[2] \in NextAt /\ p[x].at \in CallAt
  BY <1>1 DEF Dial, Statuses, NextAt, CallAt
<1>3. Become(x, [p[x] EXCEPT !.at = "head", !.next = out[2], !.last = p[x].last])
      /\ p[x].last \in BOOLEAN
  BY <1>1, <1>2, CallType
<1>4. p' \in [Procs -> Process]
  BY <1>1, <1>2, CallType, BecomeStep DEF IInv
<1>5. mem' \in [Procs -> [Systems -> Entry]]
  <2>1. p[x].host \in Systems
    BY <1>2, CallType
  <2>2. [hstatus |-> out[1], ltime |-> now] \in Entry
    BY <1>2 DEF IInv, TypeOK, Entry
  <2> QED BY <1>1, <2>1, <2>2 DEF IInv, TypeOK
<1>6. TypeOK' /\ owner' = owner
  BY <1>4, <1>5 DEF Dial, IInv, TypeOK
<1> QED BY <1>2, <1>3, <1>6, CallStep

\* The places and statuses that the steps of a call use.
LEMMA CallNames ==
    /\ "drop" \in NextAt /\ "talk" \in NextAt /\ "end" \in NextAt
    /\ "startup_failed" \in Statuses /\ "call_failed" \in Statuses
    /\ "inprogress" \in Statuses /\ "called" \in Statuses
BY DEF NextAt, CallAt, Statuses

LEMMA StartupStep == ASSUME IInv, NEW x \in Procs, Startup(x) PROVE IInv'
<1>1. p[x].at \in CallAt
  BY DEF Startup, CallAt
<1>2. UNCHANGED <<age, owner, file, now, latest, view, faults>>
  BY DEF Startup
<1>3. CASE SetStatus(x, "startup_failed", "drop")
  BY <1>1, <1>2, <1>3, CallNames, SetStatusStep
<1>4. CASE SetStatus(x, "call_failed", "drop")
  BY <1>1, <1>2, <1>4, CallNames, SetStatusStep
<1>5. CASE SetStatus(x, "inprogress", "talk")
  BY <1>1, <1>2, <1>5, CallNames, SetStatusStep
<1> QED BY <1>3, <1>4, <1>5 DEF Startup

LEMMA TalkStep == ASSUME IInv, NEW x \in Procs, Talk(x) PROVE IInv'
<1>1. p[x].at \in CallAt
  BY DEF Talk, CallAt
<1>2. p[x].host \in Systems /\ OfHost(x) \in Statuses
  BY <1>1, CallNames, CallType
<1>3. UNCHANGED <<age, owner, file, now, latest, view, faults>>
  BY DEF Talk
<1>4. CASE SetStatus(x, "called", "end")
  BY <1>1, <1>3, <1>4, CallNames, SetStatusStep
<1>5. CASE SetStatus(x, IF OfHost(x) = "inprogress" THEN "called" ELSE OfHost(x), "end")
  BY <1>1, <1>2, <1>3, <1>5, CallNames, SetStatusStep
<1>6. CASE SetStatus(x, "call_failed", "drop")
  BY <1>1, <1>3, <1>6, CallNames, SetStatusStep
<1>7. CASE /\ mem' = [mem EXCEPT ![x][p[x].host].hstatus = "call_failed"]
           /\ Become(x, [p[x] EXCEPT !.at = "head", !.next = "end", !.last = TRUE])
  <2>1. [p[x] EXCEPT !.at = "head", !.next = "end", !.last = TRUE] \in Process
    <3>1. p[x] \in Process
      BY DEF IInv, TypeOK
    <3> QED BY <3>1, PlaceFacts, CallNames DEF Process
  <2>2. p' \in [Procs -> Process]
    BY <1>7, <2>1, BecomeStep DEF IInv
  <2>3. mem' \in [Procs -> [Systems -> Entry]]
    <3>1. mem[x][p[x].host] \in Entry
      BY <1>2 DEF IInv, TypeOK
    <3>2. [mem[x][p[x].host] EXCEPT !.hstatus = "call_failed"] \in Entry
      BY <3>1, CallNames DEF Entry
    <3> QED BY <1>2, <1>7, <3>2 DEF IInv, TypeOK
  <2>4. TypeOK'
    BY <1>3, <2>2, <2>3 DEF IInv, TypeOK
  <2> QED BY <1>1, <1>3, <1>7, <2>4, CallNames, CallStep
<1> QED BY <1>4, <1>5, <1>6, <1>7 DEF Talk

LEMMA TerminateStep == ASSUME IInv, NEW x \in Procs, Terminate(x) PROVE IInv'
<1>1. p[x].at \in CallAt
  BY DEF Terminate, CallAt
<1>2. p[x].host \in Systems /\ OfHost(x) \in Statuses
  BY <1>1, CallNames, CallType
<1>3. UNCHANGED <<age, owner, file, now, latest, view, faults>>
  BY DEF Terminate
<1>4. CASE SetStatus(x, IF OfHost(x) = "inprogress" THEN "call_failed" ELSE OfHost(x), "drop")
  BY <1>1, <1>2, <1>3, <1>4, CallNames, SetStatusStep
<1>5. CASE SetStatus(x, "call_failed", "drop")
  BY <1>1, <1>3, <1>5, CallNames, SetStatusStep
<1> QED BY <1>4, <1>5 DEF Terminate

LEMMA DropLineStep == ASSUME IInv, NEW x \in Procs, DropLine(x) PROVE IInv'
<1> DEFINE q == [p[x] EXCEPT !.locket = None]
           r == IF q.last THEN PushLock(q, "exit") ELSE [q EXCEPT !.at = "init"]
<1>0. p[x] \in Process /\ p[x].at = "drop"
  BY DEF IInv, TypeOK, DropLine
<1>1. q \in Process /\ q.at = "drop" /\ q.locket = None
  BY <1>0 DEF Process
<1>2. /\ owner' \in [Locks -> Procs \cup {None}]
      /\ \A l \in Locks : owner'[l] # owner[l] => owner[l] \in {x, None}
  BY <1>0, UnlockFacts DEF DropLine
<1> HIDE DEF q
<1>3. r \in Process
  <2>1. [q EXCEPT !.at = "init"] \in Process
    BY <1>1, PlaceFacts DEF Process
  <2> QED BY <1>1, <2>1, PlaceFacts, PushType
<1>4. Become(x, r)
  BY DEF DropLine, q
<1>5. p'[x] = r /\ TypeOK'
  <2> HIDE DEF r
  <2> QED BY <1>2, <1>3, <1>4, BecomeStep DEF IInv, TypeOK, DropLine
<1>6. PlaceOK(x)' /\ LocksOK(x)'
  <2>1. r.locket = None /\ \/ r.at = "init"
                           \/ r.at = "try" /\ r.next = "exit" /\ r.saved = None
    BY <1>1 DEF PushLock, Process
  <2> HIDE DEF r
  <2> QED BY <1>5, <2>1 DEF PlaceOK, LocksOK, OnCall, CallAt, SaveAt, HoldAt, NextAt
<1> HIDE DEF r
<1> QED BY <1>2, <1>3, <1>4, <1>5, <1>6, StepOf

-----------------------------------------------------------------------------
\* The steps that save the status.  At each the process is in the loop, or at
\* the end of the program.
LEMMA SaveFacts ==
    ASSUME IInv, NEW x \in Procs, p[x].at \in SaveAt
    PROVE  /\ p[x] \in Process /\ PlaceOK(x) /\ LocksOK(x)
           /\ p[x].at \in Places /\ p[x].at # "exit" /\ p[x].at # "head"
           /\ owner \in [Locks -> Procs \cup {None}]
           /\ p[x].next \in NextAt \cup {"exit"}
           /\ p[x].next # "exit" => p[x].host \in Systems /\ OfHost(x) \in Statuses
<1>1. p[x] \in Process /\ PlaceOK(x) /\ LocksOK(x) /\ owner \in [Locks -> Procs \cup {None}]
  BY DEF IInv, TypeOK
<1>2. p[x].next # "exit" => p[x].host \in Systems
  BY <1>1 DEF PlaceOK
<1>3. p[x].next # "exit" => OfHost(x) \in Statuses
  BY <1>2 DEF IInv, TypeOK, OfHost, Entry
<1>4. p[x].next \in NextAt \cup {"exit"} /\ p[x].at \in Places /\ p[x].at # "exit" /\ p[x].at # "head"
  BY <1>1 DEF PlaceOK, SaveAt, HoldAt, Places
<1> QED BY <1>1, <1>2, <1>3, <1>4

\* A step from one place of saving to the next that has the file locked.
LEMMA HoldStep ==
    ASSUME IInv, NEW x \in Procs, p[x].at \in HoldAt, NEW place \in HoldAt,
           goto(x, place), owner' = owner, TypeOK'
    PROVE  IInv'
<1> DEFINE r == [p[x] EXCEPT !.at = place]
<1>1. p[x].at \in SaveAt /\ place \in Places
  BY PlaceFacts DEF SaveAt
<1>2. p[x] \in Process /\ PlaceOK(x) /\ LocksOK(x) /\ p[x].at # "exit"
  BY <1>1, SaveFacts
<1>3. r \in Process
  BY <1>1, <1>2 DEF Process
<1>4. Become(x, r) /\ p'[x] = r
  BY <1>3, BecomeStep DEF goto, IInv
<1>5. r.at = place /\ r.next = p[x].next /\ r.host = p[x].host
      /\ r.locket = p[x].locket /\ r.saved = p[x].saved
  BY <1>2 DEF Process
<1>6. OnCall(x)' => OnCall(x)
  BY <1>4, <1>5 DEF OnCall, SaveAt, HoldAt, CallAt
<1> HIDE DEF r
<1>7. PlaceOK(x)'
  BY <1>2, <1>4, <1>5 DEF PlaceOK, SaveAt, HoldAt, CallAt
<1>8. LocksOK(x)'
  BY <1>2, <1>4, <1>5, <1>6 DEF LocksOK, SaveAt, HoldAt
<1> QED BY <1>3, <1>4, <1>7, <1>8, StepOf

LEMMA SyncStep == ASSUME IInv, NEW x \in Procs, Sync(x) PROVE IInv'
<1>1. p[x].at \in HoldAt /\ "open" \in HoldAt /\ goto(x, "open") /\ owner' = owner
  BY DEF Sync, HoldAt
<1>2. [p[x] EXCEPT !.at = "open"] \in Process
  <2>1. p[x] \in Process
    BY DEF IInv, TypeOK
  <2>2. "open" \in Places
    BY DEF Places
  <2> QED BY <2>1, <2>2 DEF Process
<1>3. p' \in [Procs -> Process]
  BY <1>1, <1>2, BecomeStep DEF IInv, goto
<1>4. TypeOK'
  BY <1>3, HostStatusType DEF Sync, IInv, TypeOK
<1> QED BY <1>1, <1>4, HoldStep

LEMMA WriteStep == ASSUME IInv, NEW x \in Procs, Write(x) PROVE IInv'
<1>1. p[x].at \in HoldAt /\ "pop" \in HoldAt /\ goto(x, "pop") /\ owner' = owner
  BY DEF Write, HoldAt
<1>2. [p[x] EXCEPT !.at = "pop"] \in Process
  <2>1. p[x] \in Process
    BY DEF IInv, TypeOK
  <2>2. "pop" \in Places
    BY DEF Places
  <2> QED BY <2>1, <2>2 DEF Process
<1>3. p' \in [Procs -> Process]
  BY <1>1, <1>2, BecomeStep DEF IInv, goto
<1>4. \A s \in Systems : mem[x][s] \in Entry /\ Saved(mem[x][s]) \in Entry
  <2>1. \A s \in Systems : mem[x][s] \in Entry
    BY DEF IInv, TypeOK
  <2>2. ASSUME NEW e \in Entry PROVE Saved(e) \in Entry
    BY DEF Saved, Entry, Statuses
  <2> QED BY <2>1, <2>2
<1>5. [s \in Systems |-> IF x \in Callers THEN Saved(mem[x][s]) ELSE mem[x][s]]
        \in [Systems -> Entry]
  BY <1>4
<1>6. now \in 0..MaxTime
  BY DEF IInv, TypeOK
<1>7. file' \in [age : 0..MaxTime, body : {Torn} \cup [Systems -> Entry]]
  BY <1>5, <1>6 DEF Write
<1>8. age' \in [Procs -> Never..MaxTime]
  BY <1>6, ConstantFacts DEF Write, IInv, TypeOK, Never
<1>9. latest' \in [Systems -> 0..MaxTime]
  <2>1. \A s \in Systems : mem[x][s].ltime \in 0..MaxTime
    BY <1>4 DEF Entry
  <2> QED BY <2>1 DEF Write, IInv, TypeOK
<1>10. TypeOK'
  <2>1. view' \in [Procs -> Views]
    BY DEF Write, Views
  <2> QED BY <1>3, <1>7, <1>8, <1>9, <2>1 DEF Write, IInv, TypeOK
<1> QED BY <1>1, <1>10, HoldStep

\* dcupdate and HostReset are over, at the end of the program or not.
LEMMA ReturnStep ==
    ASSUME IInv, NEW x \in Procs, p[x].at \in SaveAt,
           NEW q \in Process, NEW own \in [Locks -> Procs \cup {None}],
           q.next = p[x].next, q.host = p[x].host,
           q.locket # None => own[q.locket] = x,
           p[x].next \in CallAt => own[p[x].host] = x,
           \A l \in Locks : own[l] # owner[l] => owner[l] = x,
           Return(x, q, own),
           UNCHANGED <<mem, age, now, latest, view>>, faults' \in 0..MaxFaults,
           file' = file
    PROVE  IInv'
<1>0. /\ q.next \in NextAt \cup {"exit"}
      /\ q.next # "exit" => q.host \in Systems /\ OfHost(x) \in Statuses
  BY SaveFacts
<1>1. CASE q.next = "exit"
  <2> DEFINE r == [q EXCEPT !.at = "exit"]
  <2>1. r \in Process /\ r.at = "exit"
    BY PlaceFacts DEF Process
  <2>2. owner' = Ended(own, x) /\ Become(x, r)
    BY <1>1 DEF Return
  <2> HIDE DEF r
  <2>3. p'[x] = r /\ p' \in [Procs -> Process]
    BY <2>1, <2>2, BecomeStep DEF IInv
  <2>4. owner' \in [Locks -> Procs \cup {None}]
    BY <2>2, EndedType
  <2>5. TypeOK'
    BY <2>3, <2>4 DEF IInv, TypeOK
  <2>6. \A l \in Locks : owner'[l] # owner[l] => owner[l] \in {x, None}
    BY <2>2 DEF Ended
  <2>7. PlaceOK(x)' /\ LocksOK(x)'
    BY <2>1, <2>3 DEF PlaceOK, LocksOK, OnCall, CallAt, SaveAt, HoldAt
  <2> QED BY <2>1, <2>2, <2>5, <2>6, <2>7, StepOf
<1>2. CASE q.next # "exit"
  <2> DEFINE r == [q EXCEPT !.at = q.next, !.shown = OfHost(x)]
  <2>1. r \in Process /\ r.at = q.next /\ r.host = q.host /\ r.locket = q.locket
    <3>1. q.next \in Places /\ OfHost(x) \in Statuses
      BY <1>0, <1>2, PlaceFacts
    <3> QED BY <3>1 DEF Process
  <2>2. owner' = own /\ Become(x, r)
    BY <1>2 DEF Return
  <2> HIDE DEF r
  <2>3. p'[x] = r /\ p' \in [Procs -> Process]
    BY <2>1, <2>2, BecomeStep DEF IInv
  <2>5. TypeOK'
    BY <2>2, <2>3 DEF IInv, TypeOK
  <2>6. \A l \in Locks : owner'[l] # owner[l] => owner[l] \in {x, None}
    BY <2>2
  <2>7. PlaceOK(x)' /\ LocksOK(x)'
    BY <1>0, <1>2, <2>1, <2>2, <2>3 DEF PlaceOK, LocksOK, OnCall, CallAt, SaveAt, HoldAt, NextAt
  <2> QED BY <2>1, <2>2, <2>5, <2>6, <2>7, StepOf
<1> QED BY <1>1, <1>2

LEMMA LockFileStep == ASSUME IInv, NEW x \in Procs, LockFile(x) PROVE IInv'
<1>0. p[x].at = "try" /\ p[x].at \in SaveAt
  BY DEF LockFile, SaveAt
<1>1. /\ p[x] \in Process /\ PlaceOK(x) /\ LocksOK(x)
      /\ owner \in [Locks -> Procs \cup {None}]
      /\ p[x].next # "exit" => p[x].host \in Systems
  BY <1>0, SaveFacts
<1>2. CASE /\ owner[StatusFile] = None
           /\ owner' = [owner EXCEPT ![StatusFile] = x]
           /\ Become(x, [p[x] EXCEPT !.at = IF x \in Callers THEN "sync" ELSE "open",
                                     !.locket = StatusFile])
  <2> DEFINE r == [p[x] EXCEPT !.at = IF x \in Callers THEN "sync" ELSE "open",
                               !.locket = StatusFile]
  <2>1. r \in Process
    <3>1. "sync" \in Places /\ "open" \in Places /\ StatusFile \in Locks
      BY ConstantFacts DEF Places
    <3> QED BY <1>1, <3>1 DEF Process
  <2>2. /\ r.at \in HoldAt /\ r.locket = StatusFile /\ r.saved = p[x].saved
        /\ r.next = p[x].next /\ r.host = p[x].host
    BY <1>1 DEF Process, HoldAt
  <2>3. Become(x, r)
    BY <1>2
  <2> HIDE DEF r
  <2>4. p'[x] = r /\ p' \in [Procs -> Process]
    BY <2>1, <2>3, BecomeStep DEF IInv
  <2>5. /\ owner' \in [Locks -> Procs \cup {None}] /\ owner'[StatusFile] = x
        /\ \A l \in Locks : owner'[l] # owner[l] => owner[l] \in {x, None}
        /\ \A l \in Locks : owner[l] = x => owner'[l] = x
    BY <1>1, <1>2, ConstantFacts
  <2>6. TypeOK'
    BY <2>4, <2>5 DEF LockFile, IInv, TypeOK
  <2>7. p[x].saved # None => p[x].saved \in Locks /\ owner[p[x].saved] = x
    BY <1>0, <1>1 DEF Process, LocksOK
  <2>8. p[x].saved # StatusFile
    BY <1>2, <2>7, ConstantFacts
  <2>9. OnCall(x)' => OnCall(x)
    BY <1>0, <2>2, <2>4 DEF OnCall, SaveAt, HoldAt, CallAt
  <2>10. PlaceOK(x)'
    BY <1>0, <1>1, <2>2, <2>4, <2>8 DEF PlaceOK, SaveAt, HoldAt, CallAt
  <2>11. OnCall(x) => p[x].host \in Locks
    BY <1>0, <1>1, ConstantFacts DEF OnCall, CallAt
  <2>12. LocksOK(x)'
    BY <1>1, <2>2, <2>4, <2>5, <2>7, <2>9, <2>11 DEF LocksOK, SaveAt, HoldAt
  <2> QED BY <2>1, <2>3, <2>5, <2>6, <2>10, <2>12, StepOf
<1>3. CASE /\ p[x].tries > 1 /\ UNCHANGED owner
           /\ Become(x, [p[x] EXCEPT !.tries = @ - 1])
  <2> DEFINE r == [p[x] EXCEPT !.tries = @ - 1]
  <2>1. r \in Process
    <3>1. p[x].tries - 1 \in 0..Retries
      BY <1>1, <1>3, ConstantFacts DEF Process
    <3> QED BY <1>1, <3>1 DEF Process
  <2>2. /\ r.at = "try" /\ r.locket = p[x].locket /\ r.saved = p[x].saved
        /\ r.next = p[x].next /\ r.host = p[x].host
    BY <1>0, <1>1 DEF Process
  <2>3. Become(x, r)
    BY <1>3
  <2> HIDE DEF r
  <2>4. p'[x] = r /\ p' \in [Procs -> Process]
    BY <2>1, <2>3, BecomeStep DEF IInv
  <2>5. TypeOK'
    BY <1>3, <2>4 DEF LockFile, IInv, TypeOK
  <2>6. PlaceOK(x)' /\ LocksOK(x)'
    BY <1>0, <1>1, <1>3, <2>2, <2>4 DEF PlaceOK, LocksOK, OnCall, CallAt, SaveAt, HoldAt
  <2> QED BY <1>3, <2>1, <2>3, <2>5, <2>6, StepOf
<1>4. CASE Return(x, p[x], owner)
  <2>1. p[x].locket = None
    BY <1>0, <1>1 DEF PlaceOK
  <2>2. p[x].next \in CallAt => owner[p[x].host] = x
    BY <1>0, <1>1 DEF LocksOK, OnCall
  <2>3. UNCHANGED <<mem, age, now, latest, view, file>> /\ faults' \in 0..MaxFaults
    BY DEF LockFile, IInv, TypeOK
  <2> QED BY <1>0, <1>1, <1>4, <2>1, <2>2, <2>3, ReturnStep
<1> QED BY <1>2, <1>3, <1>4 DEF LockFile

LEMMA OpenStep == ASSUME IInv, NEW x \in Procs, Open(x) PROVE IInv'
<1>0. p[x].at = "open" /\ p[x].at \in SaveAt /\ p[x].at \in HoldAt /\ "write" \in HoldAt
  BY DEF Open, SaveAt, HoldAt
<1>1. /\ p[x] \in Process /\ PlaceOK(x) /\ LocksOK(x)
      /\ owner \in [Locks -> Procs \cup {None}]
  BY <1>0, SaveFacts
<1>2. CASE goto(x, "write") /\ file' = [age |-> now, body |-> Torn] /\ UNCHANGED <<owner, faults>>
  <2>1. [p[x] EXCEPT !.at = "write"] \in Process
    <3>1. "write" \in Places
      BY DEF Places
    <3> QED BY <1>1, <3>1 DEF Process
  <2>2. p' \in [Procs -> Process]
    BY <1>2, <2>1, BecomeStep DEF IInv, goto
  <2>3. file' \in [age : 0..MaxTime, body : {Torn} \cup [Systems -> Entry]]
    BY <1>2 DEF IInv, TypeOK
  <2>4. TypeOK'
    BY <1>2, <2>2, <2>3 DEF Open, IInv, TypeOK
  <2> QED BY <1>0, <1>2, <2>4, HoldStep
<1>3. CASE faults > 0 /\ faults' = faults - 1 /\ Return(x, p[x], owner) /\ UNCHANGED file
  <2>1. p[x].locket # None => owner[p[x].locket] = x
    BY <1>0, <1>1 DEF LocksOK
  <2>2. p[x].next \in CallAt => owner[p[x].host] = x
    BY <1>0, <1>1 DEF LocksOK, OnCall
  <2>3. UNCHANGED <<mem, age, now, latest, view, file>>
    BY <1>3 DEF Open
  <2>4. faults' \in 0..MaxFaults
    BY <1>3, ConstantFacts DEF IInv, TypeOK
  <2> QED BY <1>0, <1>1, <1>3, <2>1, <2>2, <2>3, <2>4, ReturnStep
<1> QED BY <1>2, <1>3 DEF Open

LEMMA PopLockStep == ASSUME IInv, NEW x \in Procs, PopLock(x) PROVE IInv'
<1> DEFINE q == [p[x] EXCEPT !.locket = p[x].saved, !.saved = None]
           own == [owner EXCEPT ![p[x].locket] = None]
<1>0. p[x].at = "pop" /\ p[x].at \in SaveAt /\ p[x].at \in HoldAt
  BY DEF PopLock, SaveAt, HoldAt
<1>1. /\ p[x] \in Process /\ PlaceOK(x) /\ LocksOK(x)
      /\ owner \in [Locks -> Procs \cup {None}]
      /\ p[x].next # "exit" => p[x].host \in Systems
  BY <1>0, SaveFacts
<1>2. p[x].locket = StatusFile /\ p[x].saved # StatusFile
  BY <1>0, <1>1 DEF PlaceOK
<1>3. /\ q \in Process /\ q.next = p[x].next /\ q.host = p[x].host
      /\ q.locket = p[x].saved
  BY <1>1 DEF Process
<1>4. own \in [Locks -> Procs \cup {None}]
  BY <1>1
<1>5. owner[StatusFile] = x
  BY <1>0, <1>1, <1>2, ConstantFacts DEF LocksOK
<1>6. \A l \in Locks : own[l] # owner[l] => owner[l] = x
  BY <1>1, <1>2, <1>5
<1>7. q.locket # None => own[q.locket] = x
  <2>1. p[x].saved # None => p[x].saved \in Locks /\ owner[p[x].saved] = x
    BY <1>0, <1>1 DEF Process, LocksOK
  <2> QED BY <1>1, <1>2, <1>3, <2>1
<1>8. p[x].next \in CallAt => own[p[x].host] = x
  <2>1. p[x].next \in CallAt => owner[p[x].host] = x
    BY <1>0, <1>1 DEF LocksOK, OnCall
  <2>2. p[x].next \in CallAt => p[x].host \in Locks /\ p[x].host # StatusFile
    BY <1>1, ConstantFacts DEF CallAt
  <2> QED BY <1>1, <1>2, <2>1, <2>2
<1>9. UNCHANGED <<mem, age, now, latest, view, file>> /\ faults' \in 0..MaxFaults
  BY DEF PopLock, IInv, TypeOK
<1>10. Return(x, q, own)
  BY DEF PopLock
<1> HIDE DEF q, own
<1> QED BY <1>0, <1>3, <1>4, <1>6, <1>7, <1>8, <1>9, <1>10, ReturnStep

LEMMA CrashStep == ASSUME IInv, NEW x \in Procs, Crash(x) PROVE IInv'
<1> DEFINE r == [p[x] EXCEPT !.at = "exit"]
<1>0. p[x] \in Process /\ owner \in [Locks -> Procs \cup {None}]
  BY DEF IInv, TypeOK
<1>1. r \in Process /\ r.at = "exit"
  BY <1>0, PlaceFacts DEF Process
<1>2. Become(x, r) /\ owner' = Ended(owner, x)
  BY DEF Crash, goto
<1> HIDE DEF r
<1>3. p'[x] = r /\ p' \in [Procs -> Process]
  BY <1>1, <1>2, BecomeStep DEF IInv
<1>4. owner' \in [Locks -> Procs \cup {None}]
      /\ \A l \in Locks : owner'[l] # owner[l] => owner[l] \in {x, None}
  BY <1>0, <1>2, EndedType DEF Ended
<1>5. faults' \in 0..MaxFaults
  BY ConstantFacts DEF Crash, IInv, TypeOK
<1>6. TypeOK'
  BY <1>3, <1>4, <1>5 DEF Crash, IInv, TypeOK
<1>7. PlaceOK(x)' /\ LocksOK(x)'
  BY <1>1, <1>3 DEF PlaceOK, LocksOK, OnCall, CallAt, SaveAt, HoldAt
<1> QED BY <1>1, <1>2, <1>4, <1>6, <1>7, StepOf

-----------------------------------------------------------------------------
LEMMA NextIInv == IInv /\ [Next]_vars => IInv'
<1> SUFFICES ASSUME IInv, [Next]_vars PROVE IInv'
  OBVIOUS
<1>1. CASE Tick
  <2>1. TypeOK'
    BY <1>1, ConstantFacts DEF Tick, IInv, TypeOK
  <2>2. \A x \in Procs : PlaceOK(x)' /\ LocksOK(x)'
    BY <1>1 DEF Tick, IInv, PlaceOK, LocksOK, OnCall
  <2> QED BY <2>1, <2>2 DEF IInv
<1>2. ASSUME NEW x \in Procs, Step(x) PROVE IInv'
  BY <1>2, LoadStep, HeadStep, InitializeStep, LockSystemStep, DialStep, StartupStep,
     TalkStep, TerminateStep, DropLineStep, LockFileStep, SyncStep, OpenStep, WriteStep,
     PopLockStep DEF Step
<1>3. ASSUME NEW x \in Procs, Crash(x) PROVE IInv'
  BY <1>3, CrashStep
<1>4. CASE UNCHANGED vars
  BY <1>4 DEF vars, IInv, TypeOK, PlaceOK, LocksOK, OnCall
<1> QED BY <1>1, <1>2, <1>3, <1>4 DEF Next

THEOREM SpecIInv == Spec => []IInv
BY InitIInv, NextIInv, PTL DEF Spec

\* The state of the processes, the locks and the file always has the type that
\* the code's declarations give it (dcpmain, dcupdate, LockSystem).
THEOREM StatusType == Spec => []TypeOK
<1>1. IInv => TypeOK
  BY DEF IInv
<1> QED BY <1>1, SpecIInv, PTL

\* LockSystem never finds a lock open in its own process, nor UnlockSystem none,
\* though dcupdate gives up and leaves locks behind (lock.c's two panics).
THEOREM LockNoPanic == Spec => []NoPanic
<1>1. IInv => NoPanic
  BY DEF IInv, NoPanic, PlaceOK, HoldAt
<1> QED BY <1>1, SpecIInv, PTL

\* Two uucico processes are never in a call to the same host: the lock that
\* LockSystem gave stays with the process through every save of the status.
THEOREM CallsExclusive == Spec => []HostExclusive
<1>1. IInv => HostExclusive
  BY ConstantFacts DEF IInv, HostExclusive, LocksOK, OnCall, InCall, CallAt
<1> QED BY <1>1, SpecIInv, PTL

-----------------------------------------------------------------------------
(***************************************************************************)
(* The file and what the processes know of it.  No attempt is ahead of the *)
(* clock (Times), a copy that has got all that the file had when it was    *)
(* last whole has no older attempt than it (NewOK), and a uucico that is   *)
(* about to rewrite the file has looked since anybody else did (LookedOK): *)
(* its lock lets nobody else write in between.                             *)
(***************************************************************************)
Times ==
    /\ \A s \in Systems : latest[s] <= now
    /\ \A x \in Procs : \A s \in Systems : mem[x][s].ltime <= now
    /\ file.body # Torn => \A s \in Systems : file.body[s].ltime = latest[s]

Newer(x) == \A s \in Systems : mem[x][s].ltime >= latest[s]
NewOK    == \A x \in Procs : view[x] = "new" => Newer(x)

Rewrites(x) == x \in Callers /\ p[x].at \in {"open", "write"}
LookedOK    == \A x \in Procs : Rewrites(x) => view[x] # "old"

\* At most one process is where the file is locked.
LEMMA OneHolder ==
    ASSUME IInv, NEW x \in Procs, NEW y \in Procs,
           p[x].at \in HoldAt, p[y].at \in HoldAt
    PROVE  x = y
<1>1. ASSUME NEW z \in Procs, p[z].at \in HoldAt PROVE owner[StatusFile] = z
  <2>1. PlaceOK(z) /\ LocksOK(z) /\ p[z].at # "exit" /\ StatusFile # None
    BY <1>1, ConstantFacts DEF IInv, HoldAt
  <2> QED BY <1>1, <2>1 DEF PlaceOK, LocksOK
<1> QED BY <1>1

\* dcupdate finds the status file whole or left by a process that has died: who
\* rewrites it holds its lock from before fopen to after fclose.
THEOREM FileWhole == Spec => []LoadsWholeFile
<1>1. IInv => LoadsWholeFile
  <2> SUFFICES ASSUME IInv, NEW x \in Procs, NEW y \in Procs,
                      p[x].at = "sync", p[y].at = "write"
               PROVE  FALSE
    BY DEF LoadsWholeFile
  <2> QED BY OneHolder DEF HoldAt
<1> QED BY <1>1, SpecIInv, PTL

-----------------------------------------------------------------------------
\* What a step of x leaves alone.
LEMMA StepFacts ==
    ASSUME IInv, NEW x \in Procs, Step(x)
    PROVE  /\ \A y \in Procs \ {x} :
                 p'[y] = p[y] /\ mem'[y] = mem[y] /\ (Write(x) \/ view'[y] = view[y])
           /\ now' = now
           /\ \/ Open(x) \/ Write(x)
              \/ UNCHANGED <<file, latest>> /\ p[x].at # "write"
<1> USE DEF Become, goto
<1>0. /\ p \in [Procs -> Process] /\ mem \in [Procs -> [Systems -> Entry]]
      /\ view \in [Procs -> Views]
  BY DEF IInv, TypeOK
<1>1. CASE Load(x) \/ Sync(x)
  BY <1>0, <1>1 DEF Load, Sync, HostStatus
<1>2. CASE LoopHead(x) \/ Initialize(x) \/ LockSystem(x) \/ DropLine(x)
  BY <1>0, <1>2 DEF LoopHead, Initialize, LockSystem, DropLine
<1>3. CASE Dial(x) \/ Startup(x) \/ Talk(x) \/ Terminate(x)
  BY <1>0, <1>3 DEF Dial, Startup, Talk, Terminate, SetStatus
<1>4. CASE Write(x)
  BY <1>0, <1>4 DEF Write
<1>5. CASE LockFile(x) \/ Open(x) \/ PopLock(x)
  <2>1. \A y \in Procs \ {x} : p'[y] = p[y]
    <3>1. ASSUME NEW q, NEW own, Return(x, q, own)
          PROVE  \A y \in Procs \ {x} : p'[y] = p[y]
      BY <1>0, <3>1 DEF Return
    <3> QED BY <1>0, <1>5, <3>1 DEF LockFile, Open, PopLock
  <2> QED BY <1>5, <2>1 DEF LockFile, Open, PopLock
<1> QED BY <1>1, <1>2, <1>3, <1>4, <1>5 DEF Step

LEMMA CrashFacts ==
    ASSUME IInv, NEW x \in Procs, Crash(x)
    PROVE  /\ UNCHANGED <<mem, file, now, latest, view>> /\ p'[x].at = "exit"
           /\ \A y \in Procs \ {x} : p'[y] = p[y]
BY DEF IInv, TypeOK, Crash, goto, Become, Process

LEMMA MergeFacts ==
    ASSUME NEW a \in Entry, NEW b \in Entry
    PROVE  /\ Merge(a, b).ltime >= a.ltime /\ Merge(a, b).ltime >= b.ltime
           /\ \A t \in Int : a.ltime <= t /\ b.ltime <= t => Merge(a, b).ltime <= t
BY ConstantFacts DEF Merge, Entry

\* What HostStatus does to the copy: the times in it do not go down, and it gets
\* all that the file has unless the file is torn or has the stamp seen last.
LEMMA LoadFacts ==
    ASSUME IInv, Times, NewOK, NEW x \in Procs, HostStatus(x)
    PROVE  /\ \A s \in Systems : mem'[x][s].ltime >= mem[x][s].ltime /\ mem'[x][s].ltime <= now
           /\ view'[x] # "old"
           /\ view'[x] = "new" => \A s \in Systems : mem'[x][s].ltime >= latest[s]
<1>0. /\ mem \in [Procs -> [Systems -> Entry]] /\ view \in [Procs -> Views]
      /\ now \in Int /\ \A s \in Systems : /\ mem[x][s] \in Entry /\ mem[x][s].ltime \in Int
                                           /\ mem[x][s].ltime <= now
  BY ConstantFacts DEF IInv, TypeOK, Entry, Times
<1>1. view'[x] # "old"
  BY <1>0 DEF HostStatus
<1>2. CASE file.age = age[x] \/ file.body = Torn
  <2>1. mem' = mem
    BY <1>2 DEF HostStatus
  <2>2. view'[x] = "new" => view[x] = "new"
    BY <1>0, <1>2 DEF HostStatus
  <2> QED BY <1>0, <1>1, <2>1, <2>2 DEF NewOK, Newer
<1>3. CASE ~(file.age = age[x] \/ file.body = Torn)
  <2>1. file.body \in [Systems -> Entry]
    BY <1>3 DEF IInv, TypeOK
  <2>2. mem'[x] = [s \in Systems |-> Merge(mem[x][s], file.body[s])]
    BY <1>0, <1>3 DEF HostStatus
  <2>3. ASSUME NEW s \in Systems
        PROVE  mem'[x][s].ltime >= mem[x][s].ltime /\ mem'[x][s].ltime <= now
               /\ mem'[x][s].ltime >= latest[s]
    <3>1. mem[x][s].ltime <= now /\ file.body[s].ltime = latest[s] /\ latest[s] <= now
      BY <1>3 DEF Times
    <3>2. file.body[s] \in Entry
      BY <2>1
    <3> QED BY <1>0, <2>2, <3>1, <3>2, MergeFacts
  <2> QED BY <1>1, <2>3
<1> QED BY <1>2, <1>3

\* The times in a process's copy only go up, and not beyond the clock.
LEMMA CopyGrows ==
    ASSUME IInv, Times, NewOK, NEW x \in Procs, Step(x), NEW s \in Systems
    PROVE  mem'[x][s].ltime >= mem[x][s].ltime /\ mem'[x][s].ltime <= now
<1>0. /\ mem \in [Procs -> [Systems -> Entry]] /\ now \in Int
      /\ mem[x][s].ltime \in Int /\ mem[x][s].ltime <= now
  BY ConstantFacts DEF IInv, TypeOK, Entry, Times
<1>1. ASSUME NEW h \in Systems, NEW status,
             mem' = [mem EXCEPT ![x][h] = [hstatus |-> status, ltime |-> now]]
      PROVE  mem'[x][s].ltime >= mem[x][s].ltime /\ mem'[x][s].ltime <= now
  BY <1>0, <1>1
<1>2. ASSUME NEW h, NEW status, mem' = [mem EXCEPT ![x][h].hstatus = status]
      PROVE  mem'[x][s].ltime >= mem[x][s].ltime /\ mem'[x][s].ltime <= now
  <2>1. mem[x][s] \in Entry
    BY <1>0
  <2>2. mem'[x][s].ltime = mem[x][s].ltime
    BY <1>0, <1>2, <2>1 DEF Entry
  <2> QED BY <1>0, <2>2
<1>3. mem' = mem => mem'[x][s].ltime >= mem[x][s].ltime /\ mem'[x][s].ltime <= now
  BY <1>0
<1>4. CASE Load(x) \/ Sync(x)
  BY <1>4, LoadFacts DEF Load, Sync
<1>5. CASE LockSystem(x)
  <2>1. p[x].host \in Systems
    BY <1>5 DEF LockSystem, IInv, PlaceOK
  <2> QED BY <1>1, <1>3, <1>5, <2>1 DEF LockSystem
<1>6. CASE Dial(x)
  <2>1. p[x].host \in Systems
    BY <1>6 DEF Dial, IInv, PlaceOK, CallAt
  <2> QED BY <1>1, <1>6, <2>1 DEF Dial
<1>7. CASE Startup(x) \/ Talk(x) \/ Terminate(x)
  BY <1>2, <1>7 DEF Startup, Talk, Terminate, SetStatus
<1>8. CASE \/ LoopHead(x) \/ Initialize(x) \/ DropLine(x) \/ LockFile(x) \/ Open(x)
           \/ Write(x) \/ PopLock(x)
  BY <1>3, <1>8 DEF LoopHead, Initialize, DropLine, LockFile, Open, Write, PopLock
<1> QED BY <1>4, <1>5, <1>6, <1>7, <1>8 DEF Step

LEMMA InitViews == Init => Times /\ NewOK /\ LookedOK
BY DEF Init, Times, Unknown, NewOK, LookedOK, Rewrites

LEMMA WriteFacts ==
    ASSUME IInv, NEW x \in Procs, Write(x)
    PROVE  /\ mem' = mem /\ now' = now
           /\ \A y \in Procs : view'[y] = IF y = x THEN "new" ELSE "old"
           /\ \A s \in Systems : /\ file'.body[s].ltime = mem[x][s].ltime
                                 /\ latest'[s] = mem[x][s].ltime
           /\ p[x].at = "write" /\ p'[x].at = "pop"
<1>1. p \in [Procs -> Process]
      /\ \A s \in Systems : mem[x][s] \in Entry
  BY DEF IInv, TypeOK
<1>2. \A e \in Entry : Saved(e).ltime = e.ltime
  BY DEF Saved, Entry
<1>3. p'[x].at = "pop"
  BY <1>1 DEF Write, goto, Become, Process
<1> QED BY <1>1, <1>2, <1>3 DEF Write

LEMMA TimesStep == ASSUME IInv, Times, NewOK, [Next]_vars PROVE Times'
<1>0. /\ now \in Int /\ \A s \in Systems : latest[s] \in Int
      /\ \A x \in Procs : \A s \in Systems : mem[x][s].ltime \in Int
  BY ConstantFacts DEF IInv, TypeOK, Entry
<1>1. ASSUME NEW x \in Procs, Step(x) PROVE Times'
  <2>1. /\ now' = now
        /\ \A y \in Procs : \A s \in Systems : mem'[y][s].ltime <= now
    <3>1. \A s \in Systems : mem'[x][s].ltime <= now
      BY <1>1, CopyGrows
    <3>2. \A y \in Procs \ {x} : mem'[y] = mem[y]
      BY <1>1, StepFacts
    <3> QED BY <1>1, <3>1, <3>2, StepFacts DEF Times
  <2>2. CASE Write(x)
    BY <1>0, <2>1, <2>2, WriteFacts DEF Times
  <2>3. CASE ~Write(x)
    <3>1. latest' = latest /\ (file'.body = Torn \/ file'.body = file.body)
      <4>1. CASE Open(x)
        BY <4>1 DEF Open
      <4> QED BY <1>1, <2>3, <4>1, StepFacts
    <3> QED BY <2>1, <3>1 DEF Times
  <2> QED BY <2>2, <2>3
<1>2. ASSUME NEW x \in Procs, Crash(x) PROVE Times'
  BY <1>2, CrashFacts DEF Times
<1>3. CASE Tick
  BY <1>0, <1>3 DEF Tick, Times
<1>4. CASE UNCHANGED vars
  BY <1>4 DEF vars, Times
<1> QED BY <1>1, <1>2, <1>3, <1>4 DEF Next

\* A copy with all that the file had keeps it until somebody else writes.
LEMMA NewStep == ASSUME IInv, Times, NewOK, [Next]_vars PROVE NewOK'
<1>0. /\ \A s \in Systems : latest[s] \in Int
      /\ \A x \in Procs : \A s \in Systems : mem[x][s].ltime \in Int
  BY ConstantFacts DEF IInv, TypeOK, Entry
<1>1. ASSUME NEW x \in Procs, Step(x) PROVE NewOK'
  <2>1. CASE Write(x)
    BY <1>0, <2>1, WriteFacts DEF NewOK, Newer
  <2>2. CASE ~Write(x)
    <3>1. latest' = latest
      <4>1. CASE Open(x)
        BY <4>1 DEF Open
      <4> QED BY <1>1, <2>2, <4>1, StepFacts
    <3>2. ASSUME NEW y \in Procs \ {x}, view'[y] = "new" PROVE Newer(y)'
      BY <1>1, <2>2, <3>1, <3>2, StepFacts DEF NewOK, Newer
    <3>3. view'[x] = "new" => Newer(x)'
      <4>1. CASE Load(x) \/ Sync(x)
        BY <3>1, <4>1, LoadFacts DEF Load, Sync, Newer
      <4>2. CASE ~(Load(x) \/ Sync(x))
        <5>1. view' = view
          BY <1>1, <2>2, <4>2
             DEF Step, LoopHead, Initialize, LockSystem, Dial, Startup, Talk, Terminate,
                 DropLine, LockFile, Open, PopLock
        <5>2. \A s \in Systems : mem'[x][s].ltime \in Int
          <6>1. IInv'
            BY NextIInv, <1>1 DEF Next
          <6> QED BY <6>1, ConstantFacts DEF IInv, TypeOK, Entry
        <5> QED BY <1>0, <1>1, <3>1, <5>1, <5>2, CopyGrows DEF NewOK, Newer
      <4> QED BY <4>1, <4>2
    <3> QED BY <3>2, <3>3 DEF NewOK
  <2> QED BY <2>1, <2>2
<1>2. ASSUME NEW x \in Procs, Crash(x) PROVE NewOK'
  BY <1>2, CrashFacts DEF NewOK, Newer
<1>3. CASE Tick \/ UNCHANGED vars
  BY <1>3 DEF Tick, vars, NewOK, Newer
<1> QED BY <1>1, <1>2, <1>3 DEF Next

\* A uucico comes to where it opens the file only by looking at it.
LEMMA ComesToOpen ==
    ASSUME IInv, NEW x \in Callers, Step(x), ~Sync(x), ~Open(x)
    PROVE  p'[x].at \notin {"open", "write"}
<1>0. /\ x \in Procs /\ p \in [Procs -> Process] /\ p[x] \in Process /\ PlaceOK(x)
  BY ConstantFacts DEF IInv, TypeOK
<1>1. CASE LoopHead(x) \/ Initialize(x) \/ LockSystem(x) \/ DropLine(x)
  <2>0. p[x] \in Process
    BY <1>0
  <2>1. CASE LoopHead(x)
    BY <1>0, <2>0, <2>1 DEF LoopHead, Become, PushLock, PlaceOK, NextAt, CallAt, Process
  <2>2. ASSUME NEW q, Become(x, q), q.at \in {"init", "lock", "head", "try"}
        PROVE  p'[x].at \notin {"open", "write"}
    BY <1>0, <2>2 DEF Become
  <2>3. [p[x] EXCEPT !.locket = None] \in Process
    BY <2>0 DEF Process
  <2>4. \A q \in Process : PushLock(q, "exit").at = "try"
    BY DEF PushLock, Process
  <2>5. \A q \in Process : [q EXCEPT !.at = "init"].at = "init"
    BY DEF Process
  <2>6. CASE DropLine(x)
    BY <2>2, <2>3, <2>4, <2>5, <2>6 DEF DropLine
  <2>7. CASE Initialize(x)
    <3> DEFINE q == [p[x] EXCEPT !.locket = None]
               r(s) == [q EXCEPT !.at = "lock", !.host = s, !.calls = @ + 1,
                                 !.shown = mem[x][s].hstatus]
    <3>1. ASSUME NEW s PROVE r(s).at = "lock"
      BY <2>3 DEF Process
    <3>2. (\E s \in Systems : Become(x, r(s))) \/ Become(x, PushLock(q, "exit"))
      BY <2>7 DEF Initialize
    <3>3. q \in Process
      BY <2>3
    <3> HIDE DEF q, r
    <3> QED BY <2>2, <2>4, <3>1, <3>2, <3>3
  <2>8. CASE LockSystem(x)
    <3>1. [p[x] EXCEPT !.at = "head", !.next = "dial", !.locket = p[x].host].at = "head"
      BY <2>0 DEF Process
    <3> QED BY <2>0, <2>2, <2>5, <2>8, <3>1 DEF LockSystem, goto
  <2> QED BY <1>1, <2>1, <2>6, <2>7, <2>8
<1>2. CASE Dial(x) \/ Startup(x) \/ Talk(x) \/ Terminate(x)
  <2>1. ASSUME NEW place, NEW over, place \in Places,
               \/ Become(x, [p[x] EXCEPT !.at = "head", !.next = place])
               \/ Become(x, [p[x] EXCEPT !.at = "head", !.next = place, !.last = over])
        PROVE  p'[x].at = "head"
    BY <1>0, <2>1 DEF Become, Process
  <2>2. CASE Dial(x)
    <3>1. \E place \in {"init", "drop", "startup"} :
             Become(x, [p[x] EXCEPT !.at = "head", !.next = place])
      <4> DEFINE Outs == {<<"dial_failed", "init">>, <<"dial_failed", "drop">>,
                          <<"script_failed", "drop">>, <<"script_failed", "startup">>}
      <4>1. PICK out \in Outs : Become(x, [p[x] EXCEPT !.at = "head", !.next = out[2]])
        BY <2>2 DEF Dial
      <4>2. out[2] \in {"init", "drop", "startup"}
        BY <4>1
      <4> QED BY <4>1, <4>2
    <3> QED BY <2>1, <3>1 DEF Places
  <2>3. CASE Startup(x) \/ Talk(x) \/ Terminate(x)
    <3>1. "drop" \in Places /\ "talk" \in Places /\ "end" \in Places
      BY DEF Places
    <3> QED BY <2>1, <2>3, <3>1 DEF Startup, Talk, Terminate, SetStatus
  <2> QED BY <1>2, <2>2, <2>3
<1>3. ASSUME NEW q \in Process, NEW own, Return(x, q, own),
             q.next \in NextAt \cup {"exit"}
      PROVE  p'[x].at \notin {"open", "write"}
  BY <1>0, <1>3 DEF Return, Become, NextAt, CallAt, Process
<1>4. CASE LockFile(x)
  <2>1. p[x].next \in NextAt \cup {"exit"} /\ p[x].at = "try"
    BY <1>0, <1>4 DEF LockFile, PlaceOK, SaveAt
  <2>2. CASE Return(x, p[x], owner)
    BY <1>0, <1>3, <2>1, <2>2
  <2>3. CASE Become(x, [p[x] EXCEPT !.tries = @ - 1])
    BY <1>0, <2>1, <2>3 DEF Become, Process
  <2>4. CASE Become(x, [p[x] EXCEPT !.at = "sync", !.locket = StatusFile])
    BY <1>0, <2>4 DEF Become, Process
  <2> QED BY <1>4, <2>2, <2>3, <2>4 DEF LockFile
<1>5. CASE PopLock(x)
  <2>1. [p[x] EXCEPT !.locket = p[x].saved, !.saved = None] \in Process
        /\ [p[x] EXCEPT !.locket = p[x].saved, !.saved = None].next = p[x].next
    BY <1>0 DEF Process
  <2>2. p[x].next \in NextAt \cup {"exit"}
    BY <1>0, <1>5 DEF PopLock, PlaceOK, SaveAt, HoldAt
  <2> QED BY <1>3, <1>5, <2>1, <2>2 DEF PopLock
<1>6. CASE Load(x)
  BY <1>0, <1>6 DEF Load, Become
<1>7. CASE Write(x)
  BY <1>0, <1>7, WriteFacts
<1> QED BY <1>1, <1>2, <1>4, <1>5, <1>6, <1>7 DEF Step

LEMMA LookedStep ==
    ASSUME IInv, Times, NewOK, LookedOK, [Next]_vars PROVE LookedOK'
<1>1. ASSUME NEW x \in Procs, Step(x) PROVE LookedOK'
  <2>1. Rewrites(x)' => view'[x] # "old"
    <3> SUFFICES ASSUME Rewrites(x)' PROVE view'[x] # "old"
      OBVIOUS
    <3>1. x \in Callers
      BY DEF Rewrites
    <3>2. CASE Sync(x)
      BY <3>2, LoadFacts DEF Sync
    <3>3. CASE ~Sync(x)
      <4>1. Open(x)
        BY <1>1, <3>1, <3>3, ComesToOpen DEF Rewrites
      <4> QED BY <3>1, <4>1 DEF Open, LookedOK, Rewrites
    <3> QED BY <3>2, <3>3
  <2>2. ASSUME NEW y \in Procs \ {x}, Rewrites(y)' PROVE view'[y] # "old"
    <3>1. p'[y] = p[y] /\ Rewrites(y)
      BY <1>1, <2>2, StepFacts DEF Rewrites
    <3>2. ~Write(x)
      BY <3>1, OneHolder, WriteFacts DEF HoldAt, Rewrites
    <3> QED BY <1>1, <3>1, <3>2, StepFacts DEF LookedOK
  <2> QED BY <2>1, <2>2 DEF LookedOK
<1>2. ASSUME NEW x \in Procs, Crash(x) PROVE LookedOK'
  BY <1>2, CrashFacts DEF LookedOK, Rewrites
<1>3. CASE Tick \/ UNCHANGED vars
  BY <1>3 DEF Tick, vars, LookedOK, Rewrites
<1> QED BY <1>1, <1>2, <1>3 DEF Next

\* A uucico that rewrites the file holds copies as new as what it overwrites.
LEMMA WritesNewer ==
    ASSUME IInv, NewOK, LookedOK, [Next]_vars
    PROVE  \A x \in Callers :
              p[x].at = "write" /\ p'[x].at = "pop" /\ view[x] \notin {"same", "torn"} =>
                 \A s \in Systems : file'.body[s].ltime >= latest[s]
<1> SUFFICES ASSUME NEW x \in Callers, p[x].at = "write", p'[x].at = "pop",
                    view[x] \notin {"same", "torn"}
             PROVE  \A s \in Systems : file'.body[s].ltime >= latest[s]
  OBVIOUS
<1>1. x \in Procs /\ Newer(x)
  <2>1. x \in Procs /\ view[x] # "old" /\ view \in [Procs -> Views]
    BY ConstantFacts DEF LookedOK, Rewrites, IInv, TypeOK
  <2>2. view[x] = "new"
    BY <2>1 DEF Views
  <2> QED BY <2>1, <2>2 DEF NewOK
<1>2. p'[x] # p[x]
  OBVIOUS
<1>3. Write(x)
  <2>1. ASSUME NEW y \in Procs, Step(y) \/ Crash(y) PROVE y = x
    <3>1. CASE Step(y)
      BY <1>1, <1>2, <3>1, StepFacts
    <3>2. CASE Crash(y)
      BY <1>1, <1>2, <3>2 DEF Crash, goto, Become, IInv, TypeOK
    <3> QED BY <2>1, <3>1, <3>2
  <2>2. ~Crash(x)
    BY <1>1 DEF Crash, goto, Become, IInv, TypeOK, Process
  <2>3. Step(x)
    BY <1>2, <2>1, <2>2 DEF Next, Tick, vars
  <2> QED BY <2>3 DEF Step, Load, LoopHead, Initialize, LockSystem, Dial, Startup, Talk,
                      Terminate, DropLine, LockFile, Sync, Open, PopLock
<1> QED BY <1>1, <1>3, WriteFacts DEF Newer

\* A uucico never takes the status file back to an older attempt, if it got what
\* was in the file when it loaded it under the lock (HostStatus in dcupdate): not
\* if the file had the stamp of the one it knew, or was torn and nobody there.
THEOREM NewestStays == Spec => NewestKept
<1>1. IInv /\ NewOK /\ LookedOK /\ [Next]_vars =>
        [\A x \in Callers :
           p[x].at = "write" /\ p'[x].at = "pop" /\ view[x] \notin {"same", "torn"} =>
              \A s \in Systems : file'.body[s].ltime >= latest[s]]_vars
  BY WritesNewer
<1>2. Spec => [](NewOK /\ LookedOK)
  BY InitViews, TimesStep, NewStep, LookedStep, SpecIInv, PTL DEF Spec
<1> QED BY <1>1, <1>2, SpecIInv, PTL DEF Spec, NewestKept

-----------------------------------------------------------------------------
(***************************************************************************)
(* uustat: the inductive invariant.                                        *)
(***************************************************************************)
DataFiles == {"data", "exec"}
OnJob == {"status", "open_data", "is_job", "open_call", "kill_data", "kill_call"}
UsPlaces == {"start", "readnext", "poll"} \cup OnJob \cup Over

UsTypes ==
    /\ calls \subseteq Jobs /\ data \in [Jobs -> SUBSET DataFiles]
    /\ sent \in [Jobs -> SUBSET DataFiles]
    /\ pc \in UsPlaces /\ cmd \in Commands
    /\ pc \in OnJob => job \in Jobs
    /\ lines \in {<<>>, <<"exec">>, <<"data">>, <<"data", "exec">>}
    /\ left \in {<<>>, <<"exec">>, <<"data">>, <<"data", "exec">>}
    /\ before \subseteq Jobs
    /\ \A j \in Jobs : data[j] \subseteq Range(Files(j))

\* uucico has a call file open that is there, and what it has not come to is left.
AtWork ==
    /\ work = Absent => sending = Absent /\ left = <<>>
    /\ work # Absent => /\ work \in calls
                        /\ data[work] \subseteq Range(left) \cup {sending}
    /\ sending # Absent => sending \in data[work]
    /\ sending = "exec" => left = <<>>

\* kill_job deletes or reports each data file before the call file.
ToldOf(j) == {f \in DataFiles : <<j, f>> \in told}
AtKill ==
    /\ pc = "kill_data" => data[job] \subseteq Range(lines) \cup ToldOf(job)
    /\ pc = "kill_call" => data[job] \subseteq ToldOf(job) /\ lines = <<>>

\* Whoever deletes the data of a command that was not sent is killing it, or was
\* cut short, or met uucico.
Excused == crossed \cup broken
Deleting(j) == Killing(j) /\ lines # Files(j)
DataGone ==
    /\ \A j \in Jobs : KindOf[j] = "command" /\ "data" \notin data[j] \cup sent[j] =>
          j \notin calls \/ j \in Excused \/ Deleting(j)
    /\ \A j \in Jobs : KindOf[j] = "command" /\ Deleting(j) /\ HasOpen(j) => j \in Excused

\* A job reported killed has no call file.
Dead == /\ killed \cap calls = {}
        /\ pc \in {"start", "poll"} => killed = {}

\* The host whose directory is listed is that of nexthost, and of the job.
Listing == {"readnext"} \cup OnJob
InTable == IF System = All THEN current \in DOMAIN Hosts /\ host = Hosts[current]
                           ELSE host = System
AtHost ==
    /\ pc = "poll" \/ (cmd.op = "list" /\ pc \in Listing) => InTable
    /\ cmd.op = "list" /\ pc \in OnJob => HostOf[job] = host /\ job \in seen
    /\ pc = "start" => seen = {}
    /\ pc = "poll" => cmd.op = "poll"

\* A job that is to be killed is still to come, or is at hand, if it was not
\* reported.
Wanted(j) == /\ System \in {All, HostOf[j]} /\ User \in {All, UserOf[j]}
             /\ KindOf[j] # "poll" \/ User = All
Ahead(j) == \/ HostOf[j] = host /\ j \notin seen
            \/ System = All /\ \E i \in DOMAIN Hosts : i > current /\ Hosts[i] = HostOf[j]
Visits ==
    cmd.op = "list" /\ cmd.kill =>
       \A j \in before \cap calls : Wanted(j) =>
          \/ <<j, "call">> \in told
          \/ pc \in Listing /\ Ahead(j)
          \/ pc \in OnJob /\ j = job
          \/ pc \notin Listing \cup {"exit_0"}

\* A call file or an execute file that was seen is deleted by uucico only.
Seen ==
    cmd.op = "list" =>
       /\ pc \in OnJob => job \in calls \/ taken
       /\ pc = "open_data" => "exec" \in data[job] \/ \E j \in Jobs : sent[j] # {}

UsInv == UsTypes /\ AtWork /\ AtKill /\ NoOrphan /\ DataGone /\ NeverExecAlone /\ Dead
         /\ AtHost /\ Visits /\ Seen /\ StopsOnlyInRace

-----------------------------------------------------------------------------
Rests == {<<>>, <<"exec">>, <<"data">>, <<"data", "exec">>}

LEMMA RestFacts ==
    /\ Range(<<>>) = {} /\ Range(<<"exec">>) = {"exec"} /\ Range(<<"data">>) = {"data"}
    /\ Range(<<"data", "exec">>) = {"data", "exec"}
    /\ Tail(<<"exec">>) = <<>> /\ Tail(<<"data">>) = <<>>
    /\ Tail(<<"data", "exec">>) = <<"exec">>
    /\ Head(<<"exec">>) = "exec" /\ Head(<<"data">>) = "data"
    /\ Head(<<"data", "exec">>) = "data"
<1>1. Range(<<>>) = {} /\ Range(<<"exec">>) = {"exec"} /\ Range(<<"data">>) = {"data"}
  BY DEF Range
<1>2. Range(<<"data", "exec">>) = {"data", "exec"}
  <2>1. DOMAIN <<"data", "exec">> = {1, 2}
    OBVIOUS
  <2> QED BY <2>1 DEF Range
<1>3. /\ Tail(<<"exec">>) = <<>> /\ Tail(<<"data">>) = <<>>
      /\ Tail(<<"data", "exec">>) = <<"exec">>
  OBVIOUS
<1>4. /\ Head(<<"exec">>) = "exec" /\ Head(<<"data">>) = "data"
      /\ Head(<<"data", "exec">>) = "data"
  OBVIOUS
<1> QED BY <1>1, <1>2, <1>3, <1>4

\* One file less to be done.
LEMMA NextFile ==
    ASSUME NEW r \in Rests, r # <<>>
    PROVE  /\ Tail(r) \in Rests /\ Head(r) \in DataFiles
           /\ Range(r) = {Head(r)} \cup Range(Tail(r))
           /\ Tail(r) # <<"data", "exec">> /\ (Head(r) = "exec" => Tail(r) = <<>>)
BY RestFacts DEF Rests, DataFiles

LEMMA FilesFacts ==
    ASSUME NEW j \in Jobs
    PROVE  /\ Files(j) \in Rests
           /\ Files(j) = <<"data", "exec">> <=> KindOf[j] = "command"
BY DEF Files, Rests

LEMMA UsFacts ==
    /\ Absent \notin Jobs /\ Absent \notin DataFiles
    /\ \A j \in Jobs : HostOf[j] \in Range(Hosts) /\ HostOf[j] \in StartsWith[HostOf[j]]
    /\ DOMAIN Hosts = 1..Len(Hosts) /\ Len(Hosts) \in Nat /\ 1 \in DOMAIN Hosts
<1>1. /\ Absent \notin Jobs /\ Absent \notin DataFiles
      /\ \A j \in Jobs : HostOf[j] \in Range(Hosts)
      /\ \A h \in Range(Hosts) : h \in StartsWith[h]
  BY UstatAssumption DEF DataFiles
<1>2. Hosts \in Seq(Range(Hosts)) /\ Hosts # <<>>
  BY UstatAssumption
<1>3. DOMAIN Hosts = 1..Len(Hosts) /\ Len(Hosts) \in Nat /\ 1 \in DOMAIN Hosts
  BY <1>2
<1> QED BY <1>1, <1>3

LEMMA CommandFacts ==
    ASSUME NEW c \in Commands
    PROVE  /\ c.system \in Range(Hosts) \cup {All, Absent}
           /\ c.op \in {"list", "poll"} \/ c.job \in Jobs
<1> DEFINE OK(d) == /\ d.system \in Range(Hosts) \cup {All, Absent}
                    /\ d.op \in {"list", "poll"} \/ d.job \in Jobs
<1>1. \A d \in Commands : OK(d)
  BY UstatAssumption
<1>2. OK(c)
  BY <1>1
<1> QED BY <1>2

\* poll's jobs.
LEMMA PollFacts ==
    ASSUME NEW h \in Range(Hosts)
    PROVE  PollJob(h) \in Jobs /\ KindOf[PollJob(h)] = "poll"
<1> DEFINE J == {j \in Jobs : HostOf[j] = h /\ KindOf[j] = "poll"}
<1>1. Cardinality(J) = 1
  BY UstatAssumption
<1>2. J # {}
  BY <1>1, FS_EmptySet
<1> QED BY <1>2 DEF PollJob

\* The host at hand is one of the table.
LEMMA HostInTable == UsTypes /\ InTable => host \in Range(Hosts)
<1> SUFFICES ASSUME UsTypes, InTable PROVE host \in Range(Hosts)
  OBVIOUS
<1>1. CASE System = All
  BY <1>1 DEF InTable, Range
<1>2. CASE System # All
  <2>1. cmd.system \in Range(Hosts) \cup {All, Absent}
    BY CommandFacts DEF UsTypes
  <2> QED BY <1>2, <2>1 DEF InTable, System
<1> QED BY <1>1, <1>2

-----------------------------------------------------------------------------
LEMMA InitUsInv == UsInit => UsInv
<1> SUFFICES ASSUME UsInit PROVE UsInv
  OBVIOUS
<1>1. calls \subseteq Jobs
  BY UstatAssumption DEF UsInit
<1>2. \A j \in Jobs : Range(Files(j)) \subseteq DataFiles
  BY FilesFacts, RestFacts DEF Rests, DataFiles
<1>3. UsTypes
  BY <1>1, <1>2 DEF UsInit, UsTypes, UsPlaces, OnJob
<1>4. AtWork /\ AtKill /\ Dead /\ AtHost /\ Visits /\ Seen /\ StopsOnlyInRace
  BY <1>1 DEF UsInit, AtWork, AtKill, Dead, AtHost, Visits, Seen, StopsOnlyInRace, OnJob, Listing
<1>5. NoOrphan /\ NeverExecAlone
  BY <1>1 DEF UsInit, NoOrphan, NeverExecAlone
<1>6. DataGone
  <2>1. \A j \in calls : KindOf[j] = "command" => "data" \in data[j]
    BY <1>1, FilesFacts, RestFacts DEF UsInit
  <2> QED BY <1>1, <2>1, UsFacts DEF UsInit, DataGone, Deleting, Killing
<1> QED BY <1>3, <1>4, <1>5, <1>6 DEF UsInv

Quiet == usMain \/ usReadnext \/ usNoMore \/ usStatus \/ usOpenData \/ IsJob \/ usCloseCall

LEMMA UsTypesKept == ASSUME UsInv, UsNext PROVE UsTypes'
<1> USE DEF UsInv
<1>1. CASE Begin
  BY <1>1, FilesFacts DEF Begin, ustat, UsTypes, Rests
<1>2. CASE OpenFile
  BY <1>2, NextFile DEF OpenFile, ustat, history, UsTypes, Rests
<1>3. CASE SendFile
  BY <1>3 DEF SendFile, ustat, history, UsTypes, AtWork
<1>4. CASE FinishCall \/ usDropLine
  BY <1>4 DEF FinishCall, usDropLine, ustat, history, UsTypes
<1>5. CASE usMain
  <2>1. cmd \in Commands /\ UNCHANGED <<calls, data, sent, cmd, lines, left>> /\ before' = calls
    BY <1>5 DEF usMain, daemon, UsTypes
  <2>2. pc' \in {"readnext", "poll"} \/ (pc' = "is_job" /\ job' \in Jobs)
    <3>1. CASE cmd.op \in {"list", "poll"}
      BY <1>5, <3>1 DEF usMain
    <3>2. CASE cmd.op \notin {"list", "poll"}
      BY <1>5, <2>1, <3>2, CommandFacts DEF usMain
    <3> QED BY <3>1, <3>2
  <2>3. \A j \in Jobs : data[j] \subseteq Range(Files(j))
    BY DEF UsTypes
  <2>4. pc' \in UsPlaces /\ (pc' \in OnJob => job' \in Jobs)
    BY <2>2 DEF UsPlaces, OnJob
  <2> QED BY <2>1, <2>3, <2>4 DEF UsTypes
<1>6. CASE usReadnext \/ usNoMore
  BY <1>6 DEF usReadnext, usNoMore, StepHost, daemon, history, UsTypes, UsPlaces, OnJob, Over
<1>7. CASE usStatus \/ usOpenData \/ IsJob \/ usCloseCall
  BY <1>7 DEF usStatus, usOpenData, IsJob, usCloseCall, daemon, history, UsTypes, UsPlaces, OnJob, Over
<1>8. CASE usOpenCall
  BY <1>8, FilesFacts DEF usOpenCall, daemon, history, UsTypes, UsPlaces, OnJob, Over, Rests
<1>9. CASE usKillData
  <2>1. /\ lines \in Rests /\ lines # <<>> /\ lines' = Tail(lines)
        /\ \A j \in Jobs : data'[j] \subseteq data[j]
        /\ data' \in [Jobs -> SUBSET DataFiles]
    BY <1>9 DEF usKillData, UsTypes, Rests, OnJob
  <2> QED BY <1>9, <2>1, NextFile DEF usKillData, daemon, UsTypes, UsPlaces, OnJob, Rests
<1>10. CASE KillCall \/ usDie
  BY <1>10 DEF KillCall, usDie, AfterKill, daemon, UsTypes, UsPlaces, OnJob, Over
<1>11. CASE usPoll
  <2>1. PollJob(host) \in Jobs
    BY <1>11, HostInTable, PollFacts DEF usPoll, AtHost
  <2> QED BY <1>11, <2>1 DEF usPoll, StepHost, daemon, history, UsTypes, UsPlaces, OnJob, Over
<1> QED BY <1>1, <1>2, <1>3, <1>4, <1>5, <1>6, <1>7, <1>8, <1>9, <1>10, <1>11
        DEF UsNext, uustat, uucico

LEMMA AtWorkKept == ASSUME UsInv, UsNext PROVE AtWork'
<1> USE DEF UsInv
<1>1. CASE Begin
  BY <1>1, UsFacts DEF Begin, ustat, UsTypes, AtWork, DataFiles
<1>2. CASE OpenFile
  <2>1. left \in Rests /\ left # <<>> /\ left' = Tail(left) /\ work' = work /\ data' = data
    BY <1>2 DEF OpenFile, UsTypes, Rests
  <2>2. /\ Head(left) \in DataFiles /\ Range(left) = {Head(left)} \cup Range(left')
        /\ Head(left) = "exec" => left' = <<>>
    BY <2>1, NextFile
  <2> QED BY <1>2, <2>1, <2>2, UsFacts DEF OpenFile, UsTypes, AtWork, DataFiles
<1>3. CASE SendFile
  BY <1>3, UsFacts DEF SendFile, UsTypes, AtWork, DataFiles
<1>4. CASE FinishCall
  BY <1>4, UsFacts DEF FinishCall, UsTypes, AtWork
<1>5. CASE usDropLine
  BY <1>5 DEF usDropLine, AtWork
<1>6. CASE usMain \/ usReadnext \/ usNoMore \/ usStatus \/ usOpenData \/ IsJob \/ usCloseCall
           \/ usOpenCall \/ usPoll \/ usDie
  BY <1>6 DEF usMain, usReadnext, usNoMore, usStatus, usOpenData, IsJob, usCloseCall, usOpenCall,
              usPoll, usDie, daemon, AtWork
<1>7. CASE usKillData
  BY <1>7, UsFacts DEF usKillData, HasOpen, daemon, UsTypes, AtWork
<1>8. CASE KillCall
  BY <1>8 DEF KillCall, HasOpen, daemon, AtWork
<1> QED BY <1>1, <1>2, <1>3, <1>4, <1>5, <1>6, <1>7, <1>8 DEF UsNext, uustat, uucico

LEMMA AtKillKept == ASSUME UsInv, UsNext PROVE AtKill'
<1> USE DEF UsInv
<1>1. CASE uucico \/ usDropLine
  <2>1. UNCHANGED <<pc, job, lines, told>>
    BY <1>1 DEF uucico, Begin, OpenFile, SendFile, FinishCall, usDropLine, ustat, history
  <2>2. \A j \in Jobs : data'[j] \subseteq data[j]
    BY <1>1 DEF uucico, Begin, OpenFile, SendFile, FinishCall, usDropLine, UsTypes, AtWork
  <2> QED BY <2>1, <2>2 DEF AtKill, ToldOf, UsTypes, OnJob
<1>2. CASE usMain \/ usReadnext \/ usNoMore \/ usStatus \/ usOpenData \/ IsJob \/ usPoll \/ usDie
           \/ KillCall
  BY <1>2 DEF usMain, usReadnext, usNoMore, usStatus, usOpenData, IsJob, usPoll, usDie, KillCall,
              AfterKill, StepHost, AtKill
<1>3. CASE usOpenCall
  BY <1>3 DEF usOpenCall, UsTypes, AtKill, OnJob, daemon, history
<1>4. CASE usKillData
  <2>1. job \in Jobs /\ lines \in Rests /\ lines # <<>>
    BY <1>4 DEF usKillData, UsTypes, OnJob, Rests
  <2>2. lines' = Tail(lines) /\ job' = job /\ pc = "kill_data" /\ pc' = pc
    BY <1>4 DEF usKillData
  <2>3. \/ told' = told \cup {<<job, Head(lines)>>} /\ data' = data
        \/ told' = told /\ data'[job] = data[job] \ {Head(lines)}
    BY <1>4, <2>1 DEF usKillData, UsTypes
  <2>4. data[job] \subseteq {Head(lines)} \cup Range(Tail(lines)) \cup ToldOf(job)
    BY <2>1, <2>2, NextFile DEF AtKill
  <2>5. /\ ToldOf(job) \subseteq ToldOf(job)'
        /\ Head(lines) \in ToldOf(job)' \/ Head(lines) \notin data'[job]
        /\ data'[job] \subseteq data[job]
    BY <2>1, <2>2, <2>3, NextFile DEF ToldOf
  <2>6. data'[job] \subseteq Range(lines') \cup ToldOf(job)'
    BY <2>2, <2>4, <2>5
  <2> QED BY <2>2, <2>6 DEF AtKill
<1>5. CASE usCloseCall
  BY <1>5, RestFacts DEF usCloseCall, AtKill, ToldOf, history
<1> QED BY <1>1, <1>2, <1>3, <1>4, <1>5 DEF UsNext, uustat

LEMMA NoOrphanKept == ASSUME UsInv, UsNext PROVE NoOrphan'
<1> USE DEF UsInv
<1>1. CASE Begin \/ OpenFile \/ SendFile \/ usDropLine
  BY <1>1 DEF Begin, OpenFile, SendFile, usDropLine, ustat, history, UsTypes, AtWork, NoOrphan
<1>2. CASE FinishCall
  <2>1. /\ work \in calls /\ data[work] = {} /\ data' = data /\ told' = told
        /\ calls \ {work} \subseteq calls'
    BY <1>2, UsFacts, RestFacts DEF FinishCall, UsTypes, AtWork
  <2> QED BY <2>1 DEF NoOrphan
<1>3. CASE usMain \/ usReadnext \/ usNoMore \/ usStatus \/ usOpenData \/ IsJob \/ usCloseCall
           \/ usOpenCall \/ usDie
  <2>1. UNCHANGED <<calls, data, told>>
    BY <1>3 DEF usMain, usReadnext, usNoMore, usStatus, usOpenData, IsJob, usCloseCall, usOpenCall,
                usDie, history
  <2> QED BY <2>1 DEF NoOrphan
<1>4. CASE usPoll
  <2>1. data' = data /\ told' = told /\ calls \subseteq calls'
    BY <1>4 DEF usPoll, history
  <2> QED BY <2>1 DEF NoOrphan
<1>5. CASE usKillData
  <2>1. calls' = calls /\ told \subseteq told' /\ \A j \in Jobs : data'[j] \subseteq data[j]
    BY <1>5 DEF usKillData, UsTypes
  <2> QED BY <2>1 DEF NoOrphan
<1>6. CASE KillCall
  <2>1. data' = data /\ told \subseteq told' /\ calls \ {job} \subseteq calls'
    BY <1>6 DEF KillCall
  <2>2. data[job] \subseteq ToldOf(job)
    BY <1>6 DEF KillCall, AtKill
  <2> QED BY <2>1, <2>2 DEF NoOrphan, ToldOf
<1> QED BY <1>1, <1>2, <1>3, <1>4, <1>5, <1>6 DEF UsNext, uustat, uucico

LEMMA DataGoneKept == ASSUME UsInv, UsNext PROVE DataGone'
<1> USE DEF UsInv
<1>1. CASE Begin
  <2>1. /\ UNCHANGED <<calls, data, sent, pc, job, lines, broken>>
        /\ \E j \in calls : work' = j /\ crossed \subseteq crossed' /\ (Killing(j) => j \in crossed')
    BY <1>1 DEF Begin, ustat, UsTypes
  <2> QED BY <2>1 DEF DataGone, Excused, Deleting, Killing, HasOpen
<1>2. CASE OpenFile
  BY <1>2 DEF OpenFile, ustat, history, DataGone, Excused, Deleting, Killing, HasOpen
<1>3. CASE SendFile
  <2>1. /\ UNCHANGED <<calls, work, pc, job, lines, crossed, broken>> /\ work \in Jobs
        /\ \A j \in Jobs : data[j] \cup sent[j] = data'[j] \cup sent'[j]
    BY <1>3, UsFacts DEF SendFile, ustat, history, UsTypes, AtWork
  <2> QED BY <2>1 DEF DataGone, Excused, Deleting, Killing, HasOpen
<1>4. CASE FinishCall \/ usDropLine
  <2>1. UNCHANGED <<data, sent, pc, job, lines, crossed, broken>> /\ work' = Absent
    BY <1>4 DEF FinishCall, usDropLine, ustat, history
  <2>2. calls' \subseteq calls
    BY <1>4 DEF FinishCall, usDropLine
  <2> QED BY <2>1, <2>2, UsFacts DEF DataGone, Excused, Deleting, Killing, HasOpen
<1>5. CASE usMain \/ usReadnext \/ usNoMore \/ usStatus \/ usOpenData \/ IsJob
  <2>1. /\ UNCHANGED <<calls, data, sent, work, crossed, broken>>
        /\ pc \notin {"kill_data", "kill_call"} /\ pc' \notin {"kill_data", "kill_call"}
    BY <1>5 DEF usMain, usReadnext, usNoMore, usStatus, usOpenData, IsJob, StepHost, daemon, history
  <2> QED BY <2>1 DEF DataGone, Excused, Deleting, Killing
<1>6. CASE usOpenCall
  <2>1. /\ UNCHANGED <<calls, data, sent, work, crossed, broken, job>> /\ pc = "open_call"
        /\ pc' = "kill_data" => lines' = Files(job)
        /\ pc' # "kill_call"
    BY <1>6 DEF usOpenCall, daemon, history
  <2> QED BY <2>1 DEF DataGone, Excused, Deleting, Killing
<1>7. CASE usKillData
  <2>1. /\ UNCHANGED <<calls, sent, work, broken, job, pc>> /\ pc = "kill_data"
        /\ job \in Jobs /\ lines \in Rests /\ lines # <<>> /\ lines' = Tail(lines)
        /\ \A j \in Jobs \ {job} : data'[j] = data[j]
        /\ crossed \subseteq crossed' /\ (HasOpen(job) => job \in crossed')
    BY <1>7 DEF usKillData, daemon, UsTypes, OnJob, Rests
  <2>2. KindOf[job] = "command" => lines' # Files(job)
    BY <2>1, NextFile, FilesFacts
  <2> QED BY <2>1, <2>2 DEF DataGone, Excused, Deleting, Killing, HasOpen
<1>8. CASE usCloseCall
  <2>1. /\ UNCHANGED <<calls, data, sent, work, crossed, broken, job, lines>>
        /\ pc = "kill_data" /\ pc' = "kill_call"
    BY <1>8 DEF usCloseCall, daemon, history
  <2> QED BY <2>1 DEF DataGone, Excused, Deleting, Killing, HasOpen
<1>9. CASE KillCall
  <2>1. /\ UNCHANGED <<data, sent, work, crossed, broken, job, lines>>
        /\ pc = "kill_call" /\ pc' \notin {"kill_data", "kill_call"} /\ calls' \subseteq calls
    BY <1>9 DEF KillCall, AfterKill, daemon
  <2>2. job \in calls' => HasOpen(job)
    BY <1>9 DEF KillCall
  <2> QED BY <2>1, <2>2 DEF DataGone, Excused, Deleting, Killing, HasOpen
<1>10. CASE usDie
  <2>1. /\ UNCHANGED <<calls, data, sent, work, crossed, job>> /\ broken \subseteq broken'
        /\ pc' = "dead" /\ (pc \in {"kill_data", "kill_call"} => job \in broken')
    BY <1>10 DEF usDie, daemon
  <2> QED BY <2>1 DEF DataGone, Excused, Deleting, Killing, HasOpen
<1>11. CASE usPoll
  <2>1. /\ UNCHANGED <<data, sent, work, crossed, broken>>
        /\ pc = "poll" /\ pc' \in {"poll", "exit_0"}
    BY <1>11 DEF usPoll, StepHost, daemon, history
  <2>2. \A j \in calls' \ calls : KindOf[j] = "poll"
    BY <1>11, HostInTable, PollFacts DEF usPoll, AtHost
  <2> QED BY <2>1, <2>2 DEF DataGone, Excused, Deleting, Killing, HasOpen
<1> QED BY <1>1, <1>2, <1>3, <1>4, <1>5, <1>6, <1>7, <1>8, <1>9, <1>10, <1>11
        DEF UsNext, uustat, uucico

LEMMA NeverExecAloneKept == ASSUME UsInv, UsNext PROVE NeverExecAlone'
<1> USE DEF UsInv
<1>1. CASE SendFile
  <2>1. /\ work \in calls /\ work \in Jobs /\ crossed' = crossed /\ broken' = broken
        /\ sending \in data[work] /\ sent' = [sent EXCEPT ![work] = @ \cup {sending}]
        /\ sending \in DataFiles
    BY <1>1, UsFacts DEF SendFile, UsTypes, AtWork, history
  <2>2. SUFFICES ASSUME work \notin Excused, sending = "exec"
                 PROVE  "data" \in sent[work]
    BY <2>1 DEF NeverExecAlone, Excused, UsTypes, DataFiles
  <2>3. KindOf[work] = "command"
    <3>1. "exec" \in Range(Files(work))
      BY <2>1, <2>2 DEF UsTypes
    <3>2. Files(work) # <<>> /\ Files(work) # <<"data">>
      BY <3>1, RestFacts
    <3> QED BY <2>1, <3>2 DEF Files
  <2>4. "data" \notin data[work]
    <3>1. left = <<>> /\ data[work] \subseteq Range(left) \cup {sending}
      BY <2>1, <2>2, UsFacts DEF AtWork
    <3> QED BY <2>2, <3>1, RestFacts
  <2> QED BY <2>1, <2>2, <2>3, <2>4 DEF DataGone, HasOpen
<1>2. CASE ~SendFile
  <2>1. sent' = sent
    BY <1>2 DEF UsNext, uustat, uucico, Begin, OpenFile, FinishCall, usDropLine, usMain, usReadnext,
                usNoMore, usStatus, usOpenData, IsJob, usCloseCall, usOpenCall, usDie, usKillData,
                KillCall, usPoll, daemon
  <2>2. crossed \subseteq crossed' /\ broken \subseteq broken'
    BY DEF UsNext, uustat, uucico, Begin, OpenFile, SendFile, FinishCall, usDropLine, usMain, usReadnext,
           usNoMore, usStatus, usOpenData, IsJob, usCloseCall, usOpenCall, usDie, usKillData,
           KillCall, usPoll, history
  <2> QED BY <2>1, <2>2 DEF NeverExecAlone
<1> QED BY <1>1, <1>2

LEMMA DeadKept == ASSUME UsInv, UsNext PROVE Dead'
<1> USE DEF UsInv
<1>1. CASE uucico \/ usDropLine
  <2>1. calls' \subseteq calls /\ UNCHANGED <<killed, pc>>
    BY <1>1 DEF uucico, Begin, OpenFile, SendFile, FinishCall, usDropLine, ustat, history
  <2> QED BY <2>1 DEF Dead
<1>2. CASE usMain \/ usReadnext \/ usNoMore \/ usStatus \/ usOpenData \/ IsJob \/ usCloseCall
           \/ usOpenCall \/ usDie \/ usKillData
  <2>1. UNCHANGED <<killed, calls>> /\ (pc' \in {"start", "poll"} => pc = "start")
    BY <1>2 DEF usMain, usReadnext, usNoMore, usStatus, usOpenData, IsJob, usCloseCall, usOpenCall,
                usDie, usKillData, StepHost, history
  <2> QED BY <2>1 DEF Dead
<1>3. CASE KillCall
  BY <1>3 DEF KillCall, AfterKill, Dead
<1>4. CASE usPoll
  <2>1. killed' = killed /\ killed = {}
    BY <1>4 DEF usPoll, Dead, history
  <2> QED BY <2>1 DEF Dead
<1> QED BY <1>1, <1>2, <1>3, <1>4 DEF UsNext, uustat

\* The place of a host in the table.
LEMMA IndexFacts ==
    ASSUME NEW i \in DOMAIN Hosts
    PROVE  Index(Hosts[i]) = i
BY UstatAssumption DEF Index

\* is_job finds a job that is there, and leaves nexthost at its host.
LEMMA IsJobFacts ==
    ASSUME UsTypes, IsJob
    PROVE  /\ job \in Jobs
           /\ IF job \in calls THEN pc' = "open_call" /\ current' = Index(HostOf[job])
                             ELSE pc' = "exit_1"
<1>1. job \in Jobs
  BY DEF IsJob, UsTypes, OnJob
<1>2. HostOf[job] \in Candidates(job)
  BY <1>1, UsFacts DEF Candidates
<1> DEFINE found == {h \in Candidates(job) : h = HostOf[job] /\ job \in calls}
           first == CHOOSE h \in found : \A g \in found : Index(h) <= Index(g)
<1>3. CASE job \in calls
  <2>1. found = {HostOf[job]}
    BY <1>2, <1>3
  <2>2. PICK i \in DOMAIN Hosts : Hosts[i] = HostOf[job]
    BY <1>1, UsFacts DEF Range
  <2>3. Index(HostOf[job]) = i /\ i \in Nat
    BY <2>2, IndexFacts, UsFacts
  <2>4. first = HostOf[job]
    BY <2>1, <2>3
  <2> QED BY <1>1, <1>3, <2>1, <2>4 DEF IsJob
<1>4. CASE job \notin calls
  <2>1. found = {}
    BY <1>4
  <2> QED BY <1>1, <1>4, <2>1 DEF IsJob
<1> QED BY <1>3, <1>4

LEMMA AtHostKept == ASSUME UsInv, UsNext PROVE AtHost'
<1> USE DEF UsInv
<1>0. /\ (System = All) = (System' = All) \/ cmd' # cmd
      /\ cmd' = cmd => System' = System
  BY DEF System
<1>1. CASE uucico \/ usDropLine
  <2>1. UNCHANGED ustat
    BY <1>1 DEF uucico, Begin, OpenFile, SendFile, FinishCall, usDropLine
  <2> QED BY <2>1 DEF ustat, AtHost, InTable, System
<1>2. CASE usMain
  <2>1. cmd' = cmd
    BY <1>2 DEF usMain
  <2>2. \/ cmd.op = "list" /\ pc' = "readnext"
        \/ cmd.op = "poll" /\ pc' = "poll"
        \/ cmd.op # "list" /\ pc' = "is_job"
    BY <1>2 DEF usMain
  <2>3. pc' \in {"readnext", "poll"} => InTable'
    BY <1>2, <2>1, UsFacts DEF usMain, InTable, System
  <2> QED BY <2>1, <2>2, <2>3 DEF AtHost, OnJob
<1>3. CASE usReadnext
  <2>1. /\ UNCHANGED <<cmd, host, current>> /\ pc = "readnext" /\ pc' = "status"
        /\ HostOf[job'] = host /\ job' \in seen'
    BY <1>3 DEF usReadnext
  <2> QED BY <2>1 DEF AtHost, InTable, System, Listing
<1>4. CASE usNoMore \/ usPoll
  <2>1. cmd' = cmd /\ pc \in {"readnext", "poll"} /\ (StepHost("exit_0") \/ StepHost("exit_5"))
    BY <1>4 DEF usNoMore, usPoll
  <2>2. pc' \in {"readnext", "poll"} => System = All /\ current < Len(Hosts) /\ pc' = pc
                                        /\ current' = current + 1 /\ host' = Hosts[current + 1]
    BY <2>1 DEF StepHost
  <2>3. pc' \in {pc, "exit_0", "exit_5"}
    BY <2>1 DEF StepHost
  <2>4. pc' \in {"readnext", "poll"} /\ (pc = "poll" \/ cmd.op = "list") => InTable'
    BY <2>1, <2>2, UsFacts DEF AtHost, InTable, System, Listing
  <2> QED BY <2>1, <2>3, <2>4 DEF AtHost, Listing, OnJob
<1>5. CASE IsJob
  <2>1. UNCHANGED <<cmd, host, seen, job>> /\ pc = "is_job"
    BY <1>5 DEF IsJob
  <2>2. CASE pc' = "exit_1"
    BY <2>1, <2>2 DEF AtHost, Listing, OnJob
  <2>3. CASE pc' # "exit_1"
    <3>1. pc' = "open_call" /\ current' = Index(HostOf[job])
      BY <1>5, <2>3, IsJobFacts
    <3>2. cmd.op = "list" => current' = current \/ System # All
      BY <2>1, <3>1, IndexFacts DEF AtHost, InTable, Listing, OnJob
    <3> QED BY <2>1, <3>1, <3>2 DEF AtHost, InTable, System, Listing, OnJob
  <2> QED BY <2>2, <2>3
<1>6. CASE usStatus \/ usOpenData \/ usOpenCall \/ usKillData \/ usCloseCall
  <2>1. /\ UNCHANGED <<cmd, host, current, seen, job>> /\ pc \in OnJob
        /\ pc' \notin {"poll", "start"}
    BY <1>6 DEF usStatus, usOpenData, usOpenCall, usKillData, usCloseCall, OnJob
  <2> QED BY <2>1 DEF AtHost, InTable, System, Listing
<1>7. CASE KillCall \/ usDie
  <2>1. /\ UNCHANGED <<cmd, host, current, seen, job>> /\ pc' \notin OnJob \cup {"poll", "start"}
        /\ pc' \in Listing => pc \in OnJob
    BY <1>7 DEF KillCall, usDie, AfterKill, OnJob, Listing
  <2> QED BY <2>1 DEF AtHost, InTable, System, Listing
<1> QED BY <1>1, <1>2, <1>3, <1>4, <1>5, <1>6, <1>7 DEF UsNext, uustat

LEMMA VisitsKept == ASSUME UsInv, UsNext PROVE Visits'
<1> USE DEF UsInv
<1> SUFFICES ASSUME cmd'.op = "list", cmd'.kill, NEW j \in before' \cap calls', Wanted(j)'
             PROVE  \/ <<j, "call">> \in told'
                    \/ pc' \in Listing /\ Ahead(j)'
                    \/ pc' \in OnJob /\ j = job'
                    \/ pc' \notin Listing \cup {"exit_0"}
  BY DEF Visits
<1>1. cmd' = cmd
  BY DEF UsNext, uustat, uucico, Begin, OpenFile, SendFile, FinishCall, usDropLine, usMain, usReadnext,
         usNoMore, usStatus, usOpenData, IsJob, usCloseCall, usOpenCall, usDie, usKillData,
         KillCall, usPoll, ustat
<1>2. System' = System /\ Wanted(j)
  BY <1>1 DEF System, User, Wanted
<1>3. j \in Jobs /\ HostOf[j] \in Range(Hosts)
  BY UsTypesKept, UsFacts DEF UsTypes
<1>4. PICK i \in DOMAIN Hosts : Hosts[i] = HostOf[j]
  BY <1>3 DEF Range
<1>5. CASE usMain
  <2>1. /\ seen' = {} /\ pc' = "readnext"
        /\ host' = IF System = All THEN Hosts[1] ELSE System
        /\ System = All => current' = 1
    BY <1>1, <1>5 DEF usMain, AtHost
  <2>2. Ahead(j)'
    BY <1>2, <1>4, <2>1, UsFacts DEF Ahead, Wanted
  <2> QED BY <2>1, <2>2 DEF Listing
<1>6. CASE usReadnext
  <2>1. /\ UNCHANGED <<calls, told, host, current, before>> /\ pc = "readnext" /\ pc' = "status"
        /\ seen' = seen \cup {job'}
    BY <1>6 DEF usReadnext, history
  <2>2. <<j, "call">> \in told \/ Ahead(j)
    BY <1>1, <1>2, <2>1 DEF Visits, Listing, OnJob
  <2>3. Ahead(j) => Ahead(j)' \/ j = job'
    BY <1>2, <2>1 DEF Ahead
  <2> QED BY <2>1, <2>2, <2>3 DEF Listing, OnJob
<1>7. CASE usNoMore
  <2>1. /\ UNCHANGED <<calls, told, before>> /\ pc = "readnext" /\ seen' = {}
        /\ HostOf[j] # host \/ j \in seen
        /\ StepHost("exit_0") \/ StepHost("exit_5")
    BY <1>7 DEF usNoMore, history
  <2>2. SUFFICES ASSUME <<j, "call">> \notin told PROVE (pc' \in Listing /\ Ahead(j)') \/ pc' = "exit_5"
    BY <2>1 DEF Listing, OnJob
  <2>3. Ahead(j)
    BY <1>1, <1>2, <2>1, <2>2 DEF Visits, Listing, OnJob
  <2>4. System = All /\ i > current
    BY <1>4, <2>1, <2>3, IndexFacts DEF Ahead
  <2>5. current < Len(Hosts) /\ current \in Nat
    BY <1>1, <1>4, <2>1, <2>4, UsFacts DEF AtHost, InTable, Listing
  <2>6. pc' = "readnext" /\ current' = current + 1 /\ host' = Hosts[current + 1]
    BY <2>1, <2>4, <2>5 DEF StepHost
  <2>7. Ahead(j)'
    BY <1>2, <1>4, <2>1, <2>4, <2>5, <2>6, UsFacts DEF Ahead
  <2> QED BY <2>6, <2>7 DEF Listing
<1>8. CASE usStatus \/ usOpenData
  <2>1. /\ UNCHANGED <<calls, told, host, current, before, seen, job>> /\ pc \in OnJob
        /\ pc' \in Listing \cup {"panic"}
    BY <1>8 DEF usStatus, usOpenData, history, OnJob, Listing
  <2>2. pc' \in OnJob \/ ~Displayed \/ pc' = "panic"
    BY <1>1, <1>8 DEF usStatus, usOpenData, OnJob
  <2>3. j = job => Displayed
    BY <1>2 DEF Displayed, Wanted
  <2>4. Ahead(j) => Ahead(j)'
    BY <1>2, <2>1 DEF Ahead
  <2>5. <<j, "call">> \in told \/ Ahead(j) \/ j = job
    BY <1>1, <1>2, <2>1 DEF Visits, Listing
  <2> QED BY <2>1, <2>2, <2>3, <2>4, <2>5 DEF Listing, OnJob
<1>9. CASE IsJob \/ usOpenCall \/ usKillData \/ usCloseCall
  <2>1. /\ UNCHANGED <<calls, host, before, seen, job>> /\ told \subseteq told' /\ pc \in OnJob
        /\ pc' \in OnJob \cup {"panic", "exit_1"}
    BY <1>1, <1>9 DEF IsJob, usOpenCall, usKillData, usCloseCall, history, OnJob
  <2>2. current' = current \/ System # All \/ pc' = "exit_1"
    <3>1. CASE ~IsJob
      BY <1>9, <3>1 DEF usOpenCall, usKillData, usCloseCall
    <3>2. CASE IsJob /\ pc' # "exit_1"
      <4>1. pc = "is_job" /\ current' = Index(HostOf[job])
        BY <3>2, IsJobFacts DEF IsJob
      <4> QED BY <1>1, <4>1, IndexFacts DEF AtHost, InTable, Listing, OnJob
    <3> QED BY <3>1, <3>2
  <2>3. Ahead(j) => Ahead(j)' \/ pc' = "exit_1"
    BY <1>2, <2>1, <2>2 DEF Ahead
  <2>4. <<j, "call">> \in told \/ Ahead(j) \/ j = job
    BY <1>1, <1>2, <2>1 DEF Visits, Listing
  <2> QED BY <2>1, <2>3, <2>4 DEF Listing, OnJob, Over
<1>10. CASE KillCall
  <2>1. /\ UNCHANGED <<host, current, before, seen, job>> /\ calls' \subseteq calls /\ told \subseteq told'
        /\ pc = "kill_call" /\ pc' = "readnext"
        /\ job \notin calls' \/ <<job, "call">> \in told'
    BY <1>1, <1>10 DEF KillCall, AfterKill
  <2>2. <<j, "call">> \in told \/ Ahead(j) \/ j = job
    BY <1>1, <1>2, <2>1 DEF Visits, Listing, OnJob
  <2>3. Ahead(j) => Ahead(j)'
    BY <1>2, <2>1 DEF Ahead
  <2> QED BY <2>1, <2>2, <2>3 DEF Listing
<1>11. CASE usDie
  BY <1>11 DEF usDie, Listing, OnJob
<1>12. CASE usPoll
  BY <1>1, <1>12 DEF usPoll, AtHost
<1>13. CASE uucico \/ usDropLine
  <2>1. UNCHANGED <<ustat, told, before>> /\ calls' \subseteq calls
    BY <1>13 DEF uucico, Begin, OpenFile, SendFile, FinishCall, usDropLine, history
  <2>2. Ahead(j)' = Ahead(j)
    BY <1>2, <2>1 DEF Ahead, ustat
  <2> QED BY <1>1, <1>2, <2>1, <2>2 DEF Visits, ustat
<1> QED BY <1>5, <1>6, <1>7, <1>8, <1>9, <1>10, <1>11, <1>12, <1>13 DEF UsNext, uustat

LEMMA SeenKept == ASSUME UsInv, UsNext PROVE Seen'
<1> USE DEF UsInv
<1>1. CASE uucico \/ usDropLine
  <2>1. UNCHANGED ustat /\ (taken => taken') /\ (calls' = calls \/ taken')
    BY <1>1 DEF uucico, Begin, OpenFile, SendFile, FinishCall, usDropLine, history
  <2>2. \/ data' = data /\ sent' = sent
        \/ work \in Jobs /\ sent'[work] # {} /\ \A j \in Jobs : sent[j] \subseteq sent'[j]
    BY <1>1, UsFacts DEF uucico, Begin, OpenFile, SendFile, FinishCall, usDropLine, history, UsTypes, AtWork
  <2>3. (\E j \in Jobs : sent[j] # {}) => \E j \in Jobs : sent'[j] # {}
    BY <2>2
  <2> QED BY <2>1, <2>2, <2>3 DEF Seen, ustat
<1>2. CASE usMain \/ usNoMore \/ usDie \/ KillCall \/ usPoll
  <2>1. pc' \notin OnJob \/ cmd'.op # "list"
    BY <1>2 DEF usMain, usNoMore, usDie, KillCall, usPoll, StepHost, AfterKill, OnJob
  <2> QED BY <2>1 DEF Seen, OnJob
<1>3. CASE usReadnext
  BY <1>3 DEF usReadnext, Seen
<1>4. CASE usStatus \/ usOpenData \/ IsJob \/ usOpenCall \/ usCloseCall
  <2>1. UNCHANGED <<calls, data, sent, job, cmd, taken>> /\ pc \in OnJob
    BY <1>4 DEF usStatus, usOpenData, IsJob, usOpenCall, usCloseCall, daemon, history, OnJob
  <2>2. pc' = "open_data" => "exec" \in data[job]
    BY <1>4 DEF usStatus, usOpenData, IsJob, usOpenCall, usCloseCall
  <2> QED BY <2>1, <2>2 DEF Seen
<1>5. CASE usKillData
  <2>1. UNCHANGED <<calls, job, cmd, taken, pc>> /\ pc = "kill_data"
    BY <1>5 DEF usKillData
  <2> QED BY <2>1 DEF Seen, OnJob
<1> QED BY <1>1, <1>2, <1>3, <1>4, <1>5 DEF UsNext, uustat

LEMMA StopsOnlyInRaceKept == ASSUME UsInv, UsNext PROVE StopsOnlyInRace'
<1> USE DEF UsInv
<1>1. CASE uucico \/ usDropLine
  <2>1. UNCHANGED ustat /\ (taken => taken')
    BY <1>1 DEF uucico, Begin, OpenFile, SendFile, FinishCall, usDropLine, history
  <2>2. \A j \in Jobs : sent[j] \subseteq sent'[j]
    BY <1>1 DEF uucico, Begin, OpenFile, SendFile, FinishCall, usDropLine, UsTypes
  <2> QED BY <2>1, <2>2 DEF StopsOnlyInRace, ustat
<1>2. CASE usStatus \/ usOpenData \/ usOpenCall
  <2>1. UNCHANGED <<sent, cmd, taken>> /\ pc \in {"status", "open_data", "open_call"}
    BY <1>2 DEF usStatus, usOpenData, usOpenCall, daemon, history
  <2>2. /\ pc' # "exit_1"
        /\ pc' = "panic" => job \notin calls \/ (pc = "open_data" /\ "exec" \notin data[job])
    BY <1>2 DEF usStatus, usOpenData, usOpenCall
  <2> QED BY <2>1, <2>2 DEF StopsOnlyInRace, Seen, OnJob
<1>3. CASE IsJob
  <2>1. UNCHANGED <<cmd, taken>> /\ pc = "is_job" /\ pc' \in {"open_call", "exit_1"}
    BY <1>3 DEF IsJob, history
  <2>2. pc' = "exit_1" => job \notin calls
    BY <1>3, IsJobFacts
  <2> QED BY <2>1, <2>2 DEF StopsOnlyInRace, Seen, OnJob
<1>4. CASE usMain \/ usReadnext \/ usNoMore \/ usKillData \/ usCloseCall \/ KillCall \/ usPoll \/ usDie
  <2>1. pc' \notin {"exit_1", "panic"}
    BY <1>4 DEF usMain, usReadnext, usNoMore, usKillData, usCloseCall, KillCall, usPoll, usDie, StepHost,
                AfterKill
  <2> QED BY <2>1 DEF StopsOnlyInRace
<1> QED BY <1>1, <1>2, <1>3, <1>4 DEF UsNext, uustat

-----------------------------------------------------------------------------
LEMMA UsInvKept == UsInv /\ [UsNext]_usVars => UsInv'
<1>1. ASSUME UsInv, UsNext PROVE UsInv'
  BY <1>1, UsTypesKept, AtWorkKept, AtKillKept, NoOrphanKept, DataGoneKept, NeverExecAloneKept,
     DeadKept, AtHostKept, VisitsKept, SeenKept, StopsOnlyInRaceKept DEF UsInv
<1>2. ASSUME UsInv, UNCHANGED usVars PROVE UsInv'
  <2>1. UNCHANGED daemon /\ UNCHANGED ustat /\ UNCHANGED history /\ UNCHANGED <<calls, data>>
    BY <1>2 DEF usVars
  <2>2. /\ UNCHANGED <<calls, data, work, left, sending, sent, pc, cmd, host, current, seen>>
        /\ UNCHANGED <<job, lines, killed, told, crossed, broken, taken, before>>
    BY <2>1 DEF daemon, ustat, history
  <2>3. UsTypes' /\ AtWork' /\ AtKill' /\ NoOrphan' /\ DataGone' /\ NeverExecAlone' /\ Dead'
    BY <1>2, <2>2 DEF UsInv, UsTypes, AtWork, AtKill, ToldOf, NoOrphan, DataGone, Excused, Deleting,
                      Killing, HasOpen, NeverExecAlone, Dead
  <2>4. AtHost' /\ Visits' /\ Seen' /\ StopsOnlyInRace'
    BY <1>2, <2>2 DEF UsInv, AtHost, InTable, Visits, Wanted, Ahead, System, User, Seen, StopsOnlyInRace
  <2> QED BY <2>3, <2>4 DEF UsInv
<1> QED BY <1>1, <1>2

LEMMA SpecUsInv == UsSpec => []UsInv
BY InitUsInv, UsInvKept, PTL DEF UsSpec

\* kill_job deletes or reports the data before the call file, so no data stays
\* behind without its command that was not reported; and the other host gets
\* a command without its data only if uustat and uucico met over the job, or
\* uustat died in the middle of it.
THEOREM KillsWhole == UsSpec => []KilledWhole
<1>1. UsInv => KilledWhole
  BY DEF UsInv, KilledWhole
<1> QED BY <1>1, SpecUsInv, PTL

\* uustat -K: is_job's search, which shares the place in the host table with
\* all's, does not disturb it, so no job that is to be killed is passed over; and
\* it stops half way only if uucico has sent or deleted something meanwhile.
THEOREM KillsThemAll == UsSpec => []KillsAllOrRaces
<1>1. UsInv => KillsAll
  BY DEF UsInv, Visits, Wanted, KillsAll, Listing, OnJob
<1>2. UsInv => KillsAllOrRaces
  BY <1>1 DEF UsInv, KillsAllOrRaces
<1> QED BY <1>2, SpecUsInv, PTL

\* A job that was reported killed sends nothing more: its call file is gone, and
\* uucico has none open that is gone.
THEOREM KilledIsSilent == UsSpec => NothingAfterKill
<1>1. ASSUME UsInv, UsNext, NEW j \in killed PROVE sent'[j] = sent[j]
  <2>1. CASE SendFile
    <3>1. work \in calls /\ sent \in [Jobs -> SUBSET DataFiles]
      BY <1>1, <2>1, UsFacts DEF UsInv, AtWork, SendFile, UsTypes
    <3>2. work # j
      BY <1>1, <3>1 DEF UsInv, Dead
    <3> QED BY <2>1, <3>1, <3>2 DEF SendFile
  <2>2. CASE ~SendFile
    BY <1>1, <2>2 DEF UsNext, uustat, uucico, Begin, OpenFile, FinishCall, usDropLine, usMain,
        usReadnext, usNoMore, usStatus, usOpenData, IsJob, usCloseCall, usOpenCall, usDie, usKillData,
        KillCall, usPoll, daemon
  <2> QED BY <2>1, <2>2
<1>2. UsInv /\ [UsNext]_usVars => [\A j \in killed : sent'[j] = sent[j]]_usVars
  BY <1>1
<1> QED BY <1>2, SpecUsInv, PTL DEF UsSpec, NothingAfterKill
=============================================================================
