---------------------------- MODULE UuxqtProofs ----------------------------
(***************************************************************************)
(* Proofs about Uuxqt.tla, for any number of programs, commands and mails  *)
(* and any number of faults.  What keeps a command from being executed by  *)
(* two programs is that a program opens an execute file only under the     *)
(* system's lock and looks again whether it is there (Locks, Working).     *)
(*                                                                         *)
(* And about Rbmail.tla, for any mails and whatever has become of their    *)
(* lines: a mail that arrived as it was sent has been delivered, is at     *)
(* hand, or lies ahead of the place where rbmail goes on (Ahead).          *)
(***************************************************************************)
EXTENDS Uuxqt, Rbmail, SequenceTheorems, TLAPS

\* A program that opens an execute file or works on it holds the lock.
Locks == \A p \in Procs : pc[p] \in Busy \cup {"open"} => lock = p

\* What is known of the command that a program works on: its execute file is
\* there until it is unlinked, and its mails have been delivered one by one.
Working(p) ==
    /\ pc[p] \in {"deliver", "unlink exec", "reject"} => job[p] \in queue
    /\ pc[p] = "unlink data" => job[p] \in arrived \ (queue \cup bad)
    /\ pc[p] = "deliver" => done[p] < Mails[job[p]]
    /\ pc[p] = "unlink exec" => done[p] = Mails[job[p]]
    /\ pc[p] \in {"deliver", "unlink exec"} =>
          \A i \in 1..done[p] : given[job[p]][i] > 0

\* Mail i of j has been delivered in this run of the command, or will never be
\* again.
Used(j, i) ==
    \/ j \in arrived \ queue
    \/ \E p \in Procs : /\ pc[p] \in {"deliver", "unlink exec", "reject"}
                        /\ job[p] = j /\ i <= done[p]

GivenType == /\ given = [j \in Jobs |-> given[j]]
             /\ \A j \in Jobs : given[j] \in [1..Mails[j] -> Nat]

\* Where the files of a command are.
Files ==
    /\ queue \cup bad \subseteq arrived
    /\ queue \cap bad = {}
    /\ ((brought \ arrived) \cup ((queue \cup bad) \cap brought)) \subseteq data

Counted == \A j \in Jobs : \A i \in 1..Mails[j] :
              given[j][i] <= dead[j] + (IF Used(j, i) THEN 1 ELSE 0)

Deaths == \A j \in Jobs : dead[j] <= faults

IInv == /\ TypeOK /\ GivenType /\ Locks /\ Deaths
        /\ \A p \in Procs : Working(p)
        /\ Files /\ Counted /\ KeptUntilDone

\* What is true at the start.
LEMMA InitIInv == Init => IInv
<1> SUFFICES ASSUME Init PROVE IInv
  OBVIOUS
<1> USE UuxqtAssumption DEF Init
<1>1. TypeOK
  BY DEF TypeOK, Busy
<1>2. GivenType
  BY DEF GivenType
<1>3. Locks /\ Deaths /\ \A p \in Procs : Working(p)
  BY DEF Locks, Deaths, Working, Busy
<1>4. Files /\ KeptUntilDone
  BY DEF Files, KeptUntilDone
<1>5. Counted
  BY DEF Counted
<1> QED BY <1>1, <1>2, <1>3, <1>4, <1>5 DEF IInv

-----------------------------------------------------------------------------
\* A program that opens a file or works on it is the only one that does.
LEMMA Alone ==
    ASSUME Locks, NEW p \in Procs, NEW q \in Procs \ {p},
           pc[p] \in Busy \cup {"open"}
    PROVE  pc[q] \notin Busy \cup {"open"}
BY DEF Locks

\* A program that moves between the places where it does not work on a command
\* changes nothing that is said of the commands.
LEMMA Quiet ==
    ASSUME IInv, NEW p \in Procs, pc[p] \notin Busy, pc'[p] \notin Busy,
           \A q \in Procs \ {p} : pc'[q] = pc[q] /\ job'[q] = job[q],
           UNCHANGED <<spool, done, history>>,
           TypeOK', Locks', Deaths'
    PROVE  IInv'
<1> USE DEF IInv, spool, history
<1>1. GivenType' /\ Files'
  BY DEF GivenType, Files
<1>2. ASSUME NEW q \in Procs PROVE Working(q)'
  BY DEF Working, Busy
<1>3. \A j \in Jobs : \A i \in 1..Mails[j] : Used(j, i)' <=> Used(j, i)
  BY DEF Used, Busy
<1>4. Counted'
  BY <1>3 DEF Counted
<1>5. KeptUntilDone'
  BY DEF KeptUntilDone, Executed
<1> QED BY <1>1, <1>2, <1>4, <1>5

\* What a step leaves alone of the counts stays counted.
LEMMA SameCounts ==
    ASSUME TypeOK, GivenType, Counted, UNCHANGED <<given, dead>>,
           \A j \in Jobs : \A i \in 1..Mails[j] : Used(j, i) => Used(j, i)'
    PROVE  Counted'
<1> SUFFICES ASSUME NEW j \in Jobs, NEW i \in 1..Mails[j]
             PROVE  given[j][i] <= dead[j] + (IF Used(j, i)' THEN 1 ELSE 0)
  BY DEF Counted
<1>1. given[j][i] \in Nat
  BY DEF GivenType
<1>2. dead[j] \in Nat
  BY UuxqtAssumption DEF TypeOK
<1>3. given[j][i] <= dead[j] + (IF Used(j, i) THEN 1 ELSE 0)
  BY DEF Counted
<1>4. Used(j, i) => Used(j, i)'
  OBVIOUS
<1> QED BY <1>1, <1>2, <1>3, <1>4

LEMMA QuietSteps ==
    ASSUME IInv, NEW p \in Procs,
           Start(p) \/ readnext(p) \/ LockSystem(p) \/ Locked(p)
              \/ UnlockSystem(p) \/ Gone(p)
    PROVE  IInv'
<1> USE DEF IInv, program, history, spool, Goto
<1>1. CASE Start(p)
  <2>1. TypeOK' /\ Locks' /\ Deaths'
    BY <1>1 DEF Start, TypeOK, Locks, Deaths, Busy
  <2>2. pc[p] \notin Busy /\ pc'[p] \notin Busy
    BY <1>1 DEF Start, TypeOK, Busy
  <2> QED BY <1>1, <2>1, <2>2, Quiet DEF Start, TypeOK
<1>2. CASE readnext(p)
  <2>1. TypeOK' /\ Locks' /\ Deaths'
    <3>1. PICK j \in queue \ seen[p] : /\ job' = [job EXCEPT ![p] = j]
                                       /\ seen' = [seen EXCEPT ![p] = @ \cup {j}]
      BY <1>2 DEF readnext
    <3>2. j \in Jobs
      BY <3>1 DEF TypeOK
    <3>3. job' \in [Procs -> Jobs \cup {None}] /\ seen' \in [Procs -> SUBSET Jobs]
      BY <3>1, <3>2 DEF TypeOK
    <3>4. TypeOK'
      BY <1>2, <3>3 DEF readnext, TypeOK, Busy
    <3>5. Locks' /\ Deaths'
      BY <1>2 DEF readnext, TypeOK, Locks, Deaths, Busy
    <3> QED BY <3>4, <3>5
  <2>2. pc[p] \notin Busy /\ pc'[p] \notin Busy
    BY <1>2 DEF readnext, TypeOK, Busy
  <2> QED BY <1>2, <2>1, <2>2, Quiet DEF readnext, TypeOK
<1>3. CASE LockSystem(p)
  <2>1. TypeOK' /\ Locks' /\ Deaths'
    BY <1>3, UuxqtAssumption DEF LockSystem, TypeOK, Locks, Deaths, Busy
  <2>2. pc[p] \notin Busy /\ pc'[p] \notin Busy
    BY <1>3 DEF LockSystem, TypeOK, Busy
  <2> QED BY <1>3, <2>1, <2>2, Quiet DEF LockSystem, TypeOK
<1>4. CASE Locked(p)
  <2>1. TypeOK' /\ Locks' /\ Deaths'
    BY <1>4 DEF Locked, TypeOK, Locks, Deaths, Busy
  <2>2. pc[p] \notin Busy /\ pc'[p] \notin Busy
    BY <1>4 DEF Locked, TypeOK, Busy
  <2> QED BY <1>4, <2>1, <2>2, Quiet DEF Locked, TypeOK
<1>5. CASE UnlockSystem(p)
  <2>1. TypeOK' /\ Locks' /\ Deaths'
    <3>1. lock' \in Procs \cup {None}
      BY <1>5 DEF UnlockSystem, TypeOK
    <3>2. TypeOK'
      BY <1>5, <3>1 DEF UnlockSystem, TypeOK, Busy
    <3>3. Locks' /\ Deaths'
      BY <1>5, UuxqtAssumption DEF UnlockSystem, TypeOK, Locks, Deaths, Busy
    <3> QED BY <3>2, <3>3
  <2>2. pc[p] \notin Busy /\ pc'[p] \notin Busy
    BY <1>5 DEF UnlockSystem, TypeOK, Busy
  <2> QED BY <1>5, <2>1, <2>2, Quiet DEF UnlockSystem, TypeOK
<1>6. CASE Gone(p)
  <2>1. TypeOK' /\ Locks' /\ Deaths'
    BY <1>6 DEF Gone, TypeOK, Locks, Deaths, Busy
  <2>2. pc[p] \notin Busy /\ pc'[p] \notin Busy
    BY <1>6 DEF Gone, TypeOK, Busy
  <2> QED BY <1>6, <2>1, <2>2, Quiet DEF Gone, TypeOK
<1> QED BY <1>1, <1>2, <1>3, <1>4, <1>5, <1>6

-----------------------------------------------------------------------------
\* Files arrive: a command that is new has not been worked on.
LEMMA DataArrivesStep ==
    ASSUME IInv, NEW j \in Jobs, DataArrives(j) PROVE IInv'
<1> USE DEF IInv, program, DataArrives
<1>1. TypeOK' /\ Locks' /\ Deaths' /\ GivenType'
  BY DEF TypeOK, Locks, Deaths, GivenType
<1>2. ASSUME NEW q \in Procs PROVE Working(q)'
  BY DEF Working
<1>3. Files'
  BY DEF Files
<1>4. Counted'
  BY DEF Counted, Used
<1>5. KeptUntilDone'
  BY DEF KeptUntilDone, Executed
<1> QED BY <1>1, <1>2, <1>3, <1>4, <1>5

LEMMA ExecArrivesStep ==
    ASSUME IInv, NEW j \in Jobs, ExecArrives(j) PROVE IInv'
<1> USE DEF IInv, program, ExecArrives
<1>1. TypeOK' /\ Locks' /\ Deaths' /\ GivenType'
  BY DEF TypeOK, Locks, Deaths, GivenType
<1>2. ASSUME NEW q \in Procs PROVE Working(q)'
  BY DEF Working
<1>3. Files'
  BY DEF Files
<1>4. arrived' \ queue' = arrived \ queue
  BY DEF Files
<1>5. Counted'
  BY <1>4 DEF Counted, Used
<1>6. KeptUntilDone'
  BY DEF KeptUntilDone, Executed
<1> QED BY <1>1, <1>2, <1>3, <1>5, <1>6

-----------------------------------------------------------------------------
\* A program works on a command: the others do not, so what is said of them
\* stays true.
LEMMA OthersIdle ==
    ASSUME NEW p \in Procs, NEW q \in Procs \ {p}, Locks, TypeOK,
           pc[p] \in Busy \cup {"open"}, pc'[q] = pc[q]
    PROVE  Working(q)'
BY Alone DEF Working, Busy

LEMMA SkipStep == ASSUME IInv, NEW p \in Procs, Skip(p) PROVE IInv'
<1> USE DEF IInv, program, history, spool, Skip, Goto
<1>1. TypeOK' /\ Locks' /\ Deaths' /\ GivenType'
  BY DEF TypeOK, Locks, Deaths, GivenType, Busy
<1>2. Working(p)'
  BY DEF Working, TypeOK
<1>3. ASSUME NEW q \in Procs \ {p} PROVE Working(q)'
  BY OthersIdle DEF TypeOK
<1>4. Files' /\ KeptUntilDone'
  BY DEF Files, KeptUntilDone, Executed
<1>5. \A j \in Jobs : \A i \in 1..Mails[j] : Used(j, i) => Used(j, i)'
  BY DEF Used, TypeOK
<1>6. Counted'
  BY <1>5, SameCounts
<1> QED BY <1>1, <1>2, <1>3, <1>4, <1>6

\* No mail of the command counts as delivered in this run when it begins.
LEMMA ExecuteStep == ASSUME IInv, NEW p \in Procs, Execute(p) PROVE IInv'
<1> USE DEF IInv, program, history, spool, Execute, Goto
<1>1. TypeOK' /\ Locks' /\ Deaths' /\ GivenType'
  BY DEF TypeOK, Locks, Deaths, GivenType, Busy
<1>2. Working(p)'
  <2>1. pc'[p] = "deliver" /\ done'[p] = 0 /\ job'[p] = job[p] /\ job[p] \in queue
    BY DEF TypeOK
  <2>2. 0 < Mails[job[p]]
    BY <2>1, UuxqtAssumption DEF TypeOK
  <2>3. \A i \in 1..done'[p] : given'[job'[p]][i] > 0
    BY <2>1
  <2>4. job'[p] \in queue' /\ done'[p] < Mails[job'[p]]
    BY <2>1, <2>2
  <2> HIDE DEF IInv, Execute, Goto
  <2> QED BY <2>1, <2>3, <2>4 DEF Working
<1>3. ASSUME NEW q \in Procs \ {p} PROVE Working(q)'
  BY OthersIdle DEF TypeOK
<1>4. Files' /\ KeptUntilDone'
  BY DEF Files, KeptUntilDone, Executed
<1>5. \A j \in Jobs : \A i \in 1..Mails[j] : Used(j, i) => Used(j, i)'
  BY Alone DEF Used, TypeOK, Busy
<1>6. Counted'
  BY <1>5, SameCounts
<1> QED BY <1>1, <1>2, <1>3, <1>4, <1>6

\* A mail is delivered that has not been in this run, for no other program
\* executes the command and its execute file is there.
LEMMA DeliverStep == ASSUME IInv, NEW p \in Procs, Deliver(p) PROVE IInv'
<1>0. pc[p] = "deliver" /\ job[p] \in Jobs /\ done[p] \in Nat
  BY DEF Deliver, Goto, IInv, TypeOK, Busy
<1> PICK j \in Jobs, i \in Nat : j = job[p] /\ i = done[p] + 1
  BY <1>0
<1> USE DEF IInv, program, spool
<1>1. /\ pc[p] = "deliver"
      /\ pc' = [pc EXCEPT ![p] = IF i = Mails[j] THEN "unlink exec" ELSE "deliver"]
      /\ given' = [given EXCEPT ![j][i] = @ + 1]
      /\ done' = [done EXCEPT ![p] = i]
      /\ UNCHANGED <<spool, lock, job, seen, faults, brought, arrived, dead,
                     dropped>>
  BY DEF Deliver, Goto
<1>2. /\ j \in Jobs /\ j \in queue /\ done[p] \in Nat /\ done[p] < Mails[j]
      /\ \A n \in 1..done[p] : given[j][n] > 0
  BY <1>1 DEF TypeOK, Busy, Working
<1>3. Mails[j] \in Nat
  BY UuxqtAssumption
<1>4. i \in 1..Mails[j] /\ i \in Nat /\ i > done[p]
  BY <1>2, <1>3
<1> HIDE DEF IInv
<1>5. /\ done'[p] = i /\ job'[p] = j
      /\ pc'[p] = IF i = Mails[j] THEN "unlink exec" ELSE "deliver"
      /\ \A q \in Procs \ {p} : pc'[q] = pc[q]
  BY <1>1 DEF IInv, TypeOK
<1>6. TypeOK' /\ Locks' /\ Deaths'
  <2>1. done' \in [Procs -> Nat]
    BY <1>1, <1>4 DEF IInv, TypeOK
  <2>2. pc' \in [Procs -> {"idle", "scan", "lock", "open"} \cup Busy]
    BY <1>1 DEF IInv, TypeOK, Busy
  <2>3. TypeOK'
    BY <1>1, <1>2, <1>5, <2>1, <2>2 DEF IInv, TypeOK, Busy
  <2>4. Locks' /\ Deaths'
    BY <1>1, <1>5 DEF IInv, Locks, Deaths, Busy
  <2> QED BY <2>3, <2>4
<1>7. /\ given' = [k \in Jobs |-> given'[k]]
      /\ given'[j] = [given[j] EXCEPT ![i] = @ + 1]
      /\ \A k \in Jobs \ {j} : given'[k] = given[k]
  BY <1>1, <1>2 DEF IInv, GivenType
<1>8. GivenType'
  <2>1. given[j] \in [1..Mails[j] -> Nat] /\ given[j][i] + 1 \in Nat
    <3>1. given[j] \in [1..Mails[j] -> Nat]
      BY DEF IInv, GivenType
    <3>2. given[j][i] \in Nat
      BY <1>4, <3>1
    <3> QED BY <3>1, <3>2
  <2>2. given'[j] \in [1..Mails[j] -> Nat]
    BY <1>4, <1>7, <2>1
  <2> QED BY <1>7, <2>2 DEF IInv, GivenType
<1>9. /\ given'[j][i] = given[j][i] + 1
      /\ \A n \in 1..Mails[j] : n # i => given'[j][n] = given[j][n]
  BY <1>2, <1>4, <1>7 DEF IInv, GivenType
<1>10. \A k \in Jobs : \A n \in 1..Mails[k] :
          given[k][n] \in Nat /\ given'[k][n] \in Nat
  BY <1>8 DEF IInv, GivenType
<1>11. Working(p)'
  <2>1. \A n \in 1..i : given'[j][n] > 0
    BY <1>2, <1>3, <1>4, <1>9, <1>10
  <2>2. i < Mails[j] \/ i = Mails[j]
    BY <1>3, <1>4
  <2>3. pc'[p] = "deliver" => done'[p] < Mails[job'[p]]
    BY <1>5, <2>2
  <2>4. pc'[p] = "unlink exec" => done'[p] = Mails[job'[p]]
    BY <1>5
  <2>5. job'[p] \in queue' /\ pc'[p] \in {"deliver", "unlink exec"}
    BY <1>1, <1>2, <1>5
  <2>6. \A n \in 1..done'[p] : given'[job'[p]][n] > 0
    BY <1>5, <2>1
  <2> QED BY <2>3, <2>4, <2>5, <2>6 DEF Working
<1>12. ASSUME NEW q \in Procs \ {p} PROVE Working(q)'
  BY <1>1, <1>5, OthersIdle DEF IInv, Busy
<1>13. Files'
  BY <1>1 DEF IInv, Files
<1>14. KeptUntilDone'
  <2>1. ASSUME NEW k \in Jobs, Executed(k) PROVE Executed(k)'
    <3> SUFFICES ASSUME NEW n \in 1..Mails[k] PROVE given'[k][n] > 0
      BY DEF Executed
    <3>1. given[k][n] > 0 /\ given[k][n] \in Nat
      BY <2>1, <1>10 DEF Executed
    <3>2. CASE k = j /\ n = i
      BY <1>9, <3>1, <3>2
    <3>3. CASE ~(k = j /\ n = i)
      BY <1>7, <1>9, <3>1, <3>3
    <3> QED BY <3>2, <3>3
  <2> QED BY <1>1, <2>1 DEF IInv, KeptUntilDone, TypeOK
<1>15. ~Used(j, i)
  <2>1. ~(i <= done[p])
    BY <1>2
  <2>2. \A q \in Procs \ {p} : pc[q] \notin {"deliver", "unlink exec", "reject"}
    BY <1>1, Alone DEF IInv, Busy
  <2> QED BY <1>2, <2>1, <2>2 DEF Used
<1>16. Used(j, i)'
  <2>1. pc'[p] \in {"deliver", "unlink exec", "reject"}
    BY <1>5
  <2>2. i <= i
    OBVIOUS
  <2> QED BY <1>5, <2>1, <2>2 DEF Used
<1>17. \A k \in Jobs : \A n \in 1..Mails[k] : Used(k, n) => Used(k, n)'
  <2> SUFFICES ASSUME NEW k \in Jobs, NEW n \in 1..Mails[k], Used(k, n),
                      k \notin arrived \ queue
               PROVE  Used(k, n)'
    BY <1>1 DEF Used
  <2>1. PICK q \in Procs : /\ pc[q] \in {"deliver", "unlink exec", "reject"}
                           /\ job[q] = k /\ n <= done[q]
    BY DEF Used
  <2>2. q = p
    BY <1>1, <2>1, Alone DEF IInv, Busy
  <2>3. n <= done[p] /\ job[p] = k
    BY <2>1, <2>2
  <2>4. n <= i
    <3>1. n \in Int
      OBVIOUS
    <3> QED BY <1>2, <2>3, <3>1
  <2>5. /\ pc'[p] \in {"deliver", "unlink exec", "reject"}
        /\ job'[p] = k /\ n <= done'[p]
    BY <1>5, <2>3, <2>4
  <2> QED BY <2>5 DEF Used
<1>18. Counted'
  <2> SUFFICES ASSUME NEW k \in Jobs, NEW n \in 1..Mails[k]
               PROVE  given'[k][n] <= dead[k] + (IF Used(k, n)' THEN 1 ELSE 0)
    BY <1>1 DEF IInv, Counted
  <2>1. /\ given[k][n] <= dead[k] + (IF Used(k, n) THEN 1 ELSE 0)
        /\ given[k][n] \in Nat /\ dead[k] \in Nat
    BY <1>10, UuxqtAssumption DEF IInv, Counted, TypeOK
  <2>2. CASE k = j /\ n = i
    <3>1. ~Used(k, n) /\ Used(k, n)' /\ given'[k][n] = given[k][n] + 1
      BY <1>9, <1>15, <1>16, <2>2
    <3> QED BY <2>1, <3>1
  <2>3. CASE ~(k = j /\ n = i)
    <3>1. given'[k][n] = given[k][n]
      BY <1>7, <1>9, <2>3
    <3> QED BY <1>17, <2>1, <3>1
  <2> QED BY <2>2, <2>3
<1> QED BY <1>6, <1>8, <1>11, <1>12, <1>13, <1>14, <1>18 DEF IInv

LEMMA RefuseStep == ASSUME IInv, NEW p \in Procs, Refuse(p) PROVE IInv'
<1> USE DEF IInv, program, history, spool, Refuse, Goto, Fault
<1>1. TypeOK' /\ Locks' /\ Deaths' /\ GivenType'
  <2>1. faults' \in 0..MaxFaults /\ Deaths'
    BY UuxqtAssumption DEF TypeOK, Deaths
  <2>2. TypeOK'
    BY <2>1 DEF TypeOK, Busy
  <2>3. Locks' /\ GivenType'
    BY DEF TypeOK, Locks, GivenType, Busy
  <2> QED BY <2>1, <2>2, <2>3
<1>2. Working(p)'
  BY DEF Working, TypeOK
<1>3. ASSUME NEW q \in Procs \ {p} PROVE Working(q)'
  BY OthersIdle DEF TypeOK, Busy
<1>4. Files' /\ KeptUntilDone'
  BY DEF Files, KeptUntilDone, Executed
<1>5. \A j \in Jobs : \A i \in 1..Mails[j] : Used(j, i) <=> Used(j, i)'
  BY DEF Used, TypeOK
<1>6. Counted'
  BY <1>5 DEF Counted
<1> QED BY <1>1, <1>2, <1>3, <1>4, <1>6

\* The execute file goes when every mail has been delivered.
LEMMA UnlinkExecStep == ASSUME IInv, NEW p \in Procs, UnlinkExec(p) PROVE IInv'
<1> USE DEF IInv, history, UnlinkExec, Goto
<1>1. job[p] \in Jobs /\ job[p] \in queue /\ pc[p] = "unlink exec"
  BY DEF TypeOK, Busy, Working
<1>2. TypeOK' /\ Locks' /\ Deaths' /\ GivenType'
  BY DEF TypeOK, Locks, Deaths, GivenType, Busy
<1>3. Working(p)'
  BY <1>1 DEF Working, TypeOK, Files
<1>4. ASSUME NEW q \in Procs \ {p} PROVE Working(q)'
  BY OthersIdle DEF TypeOK, Busy
<1>5. Files'
  BY DEF Files
<1>6. Executed(job[p])
  BY <1>1 DEF Working, Executed
<1>7. KeptUntilDone'
  BY <1>6 DEF KeptUntilDone, Executed
<1>8. \A j \in Jobs : \A i \in 1..Mails[j] : Used(j, i) => Used(j, i)'
  BY <1>1 DEF Used, TypeOK, Files
<1>9. Counted'
  BY <1>8, SameCounts
<1> QED BY <1>2, <1>3, <1>4, <1>5, <1>7, <1>9

\* The data file goes when the command is neither in the queue nor in bad.job.
LEMMA UnlinkDataStep == ASSUME IInv, NEW p \in Procs, UnlinkData(p) PROVE IInv'
<1> USE DEF IInv, history, UnlinkData, Goto
<1>1. job[p] \in arrived \ (queue \cup bad)
  BY DEF Working
<1>2. TypeOK' /\ Locks' /\ Deaths' /\ GivenType'
  BY DEF TypeOK, Locks, Deaths, GivenType, Busy
<1>3. ASSUME NEW q \in Procs PROVE Working(q)'
  <2>1. CASE q = p
    BY <2>1 DEF Working, TypeOK
  <2>2. CASE q # p
    BY <2>2, OthersIdle DEF TypeOK, Busy
  <2> QED BY <2>1, <2>2
<1>4. Files'
  BY <1>1 DEF Files
<1>5. KeptUntilDone'
  BY DEF KeptUntilDone, Executed
<1>6. \A j \in Jobs : \A i \in 1..Mails[j] : Used(j, i) <=> Used(j, i)'
  BY DEF Used, TypeOK
<1>7. Counted'
  BY <1>6 DEF Counted
<1> QED BY <1>2, <1>3, <1>4, <1>5, <1>7

\* The command leaves the queue for bad.job, its data file stays.
LEMMA RejectStep == ASSUME IInv, NEW p \in Procs, Reject(p) PROVE IInv'
<1> USE DEF IInv, Reject, Goto, Fault
<1>1. job[p] \in Jobs /\ job[p] \in queue /\ pc[p] = "reject"
  BY DEF TypeOK, Busy, Working
<1>2. TypeOK' /\ Locks' /\ Deaths' /\ GivenType'
  <2>1. faults' \in 0..MaxFaults /\ Deaths'
    BY UuxqtAssumption DEF TypeOK, Deaths
  <2>2. bad' \subseteq Jobs /\ dropped' \subseteq Jobs /\ queue' \subseteq Jobs
    BY <1>1 DEF TypeOK
  <2>3. TypeOK'
    BY <2>1, <2>2 DEF TypeOK, Busy
  <2>4. Locks' /\ GivenType'
    BY DEF TypeOK, Locks, GivenType, Busy
  <2> QED BY <2>1, <2>3, <2>4
<1>3. ASSUME NEW q \in Procs PROVE Working(q)'
  <2>1. CASE q = p
    BY <2>1 DEF Working, TypeOK
  <2>2. CASE q # p
    BY <2>2, OthersIdle DEF TypeOK, Busy
  <2> QED BY <2>1, <2>2
<1>4. Files'
  BY <1>1 DEF Files
<1>5. KeptUntilDone'
  BY <1>1 DEF KeptUntilDone, Executed
<1>6. \A j \in Jobs : \A i \in 1..Mails[j] : Used(j, i) => Used(j, i)'
  BY <1>1 DEF Used, TypeOK, Files
<1>7. Counted'
  BY <1>6, SameCounts
<1> QED BY <1>2, <1>3, <1>4, <1>5, <1>7

\* What was delivered in a run that ends in a crash is counted against it.
LEMMA DieStep == ASSUME IInv, NEW p \in Procs, Die(p) PROVE IInv'
<1> USE DEF IInv, spool, Die, Fault
<1>1. TypeOK'
  <2>1. \A j \in Jobs : dead[j] + 1 \in 0..MaxFaults
    BY UuxqtAssumption DEF TypeOK, Deaths
  <2>2. dead' \in [Jobs -> 0..MaxFaults]
    BY <2>1 DEF TypeOK
  <2>3. faults' \in 0..MaxFaults
    BY UuxqtAssumption DEF TypeOK
  <2>4. /\ lock' \in Procs \cup {None}
        /\ pc' \in [Procs -> {"idle", "scan", "lock", "open"} \cup Busy]
    BY DEF TypeOK
  <2>5. \A q \in Procs : pc'[q] \in Busy => lock' = q /\ job'[q] \in Jobs
    BY DEF TypeOK, Busy
  <2> QED BY <2>2, <2>3, <2>4, <2>5 DEF TypeOK
<1>2. Locks' /\ GivenType'
  BY UuxqtAssumption DEF TypeOK, Locks, GivenType, Busy
<1>3. Deaths'
  BY UuxqtAssumption DEF TypeOK, Deaths
<1>4. CASE pc[p] \notin Busy
  <2>1. pc'[p] \notin Busy
    BY DEF TypeOK, Busy
  <2> QED BY <1>1, <1>2, <1>3, <1>4, <2>1, Quiet DEF TypeOK, history
<1>5. CASE pc[p] \in Busy
  <2>1. ASSUME NEW q \in Procs PROVE Working(q)'
    <3>1. CASE q = p
      BY <3>1 DEF Working, TypeOK
    <3>2. CASE q # p
      BY <1>5, <3>2, OthersIdle DEF TypeOK
    <3> QED BY <3>1, <3>2
  <2>2. Files' /\ KeptUntilDone'
    BY DEF Files, KeptUntilDone, Executed
  <2>3. /\ job[p] \in Jobs
        /\ \A j \in Jobs : /\ dead[j] \in Nat /\ dead'[j] >= dead[j]
                           /\ dead'[j] \in Nat
                           /\ j = job[p] => dead'[j] = dead[j] + 1
    BY <1>5, UuxqtAssumption DEF TypeOK
  <2>4. \A j \in Jobs \ {job[p]} : \A i \in 1..Mails[j] :
           Used(j, i) <=> Used(j, i)'
    BY DEF Used, TypeOK
  <2>5. \A j \in Jobs : \A i \in 1..Mails[j] :
           given[j][i] \in Nat /\ given'[j][i] = given[j][i]
    BY DEF GivenType
  <2>6. Counted'
    BY <2>3, <2>4, <2>5 DEF Counted
  <2> QED BY <1>1, <1>2, <1>3, <2>1, <2>2, <2>6
<1> QED BY <1>4, <1>5

-----------------------------------------------------------------------------
\* Every step keeps the invariant.
LEMMA NextIInv == IInv /\ [Next]_vars => IInv'
<1> SUFFICES ASSUME IInv, [Next]_vars PROVE IInv'
  OBVIOUS
<1>1. ASSUME NEW j \in Jobs, DataArrives(j) \/ ExecArrives(j) PROVE IInv'
  BY <1>1, DataArrivesStep, ExecArrivesStep
<1>2. ASSUME NEW p \in Procs, Start(p) \/ do_uuxqt(p) PROVE IInv'
  BY <1>2, QuietSteps, SkipStep, ExecuteStep, DeliverStep, UnlinkExecStep,
     UnlinkDataStep, RejectStep DEF do_uuxqt, process
<1>3. ASSUME NEW p \in Procs, Refuse(p) \/ Die(p) PROVE IInv'
  BY <1>3, RefuseStep, DieStep
<1>4. CASE UNCHANGED vars
  BY <1>4 DEF vars, spool, program, history, IInv, TypeOK, GivenType, Locks,
     Deaths, Working, Files, Counted, Used, KeptUntilDone, Executed
<1> QED BY <1>1, <1>2, <1>3, <1>4 DEF Next

\* The inductive invariant holds in every run.
THEOREM SpecIInv == Spec => []IInv
BY InitIInv, NextIInv, PTL DEF Spec

\* Every variable of uuxqt has its type, and a program that works on a command
\* holds the lock of the system (do_uuxqt).
THEOREM SpecTypeOK == Spec => []TypeOK
<1>1. IInv => TypeOK
  BY DEF IInv
<1> QED BY <1>1, SpecIInv, PTL

\* However many programs uucico starts and wherever they die, no mail is
\* delivered more often than once and once more for each that died.
THEOREM SpecOncePerRun == Spec => []OncePerRun
<1>1. IInv => OncePerRun
  <2> SUFFICES ASSUME IInv, NEW j \in Jobs, NEW i \in 1..Mails[j]
               PROVE  given[j][i] <= 1 + dead[j]
    BY DEF OncePerRun
  <2>1. given[j][i] \in Nat /\ dead[j] \in Nat
    BY UuxqtAssumption DEF IInv, GivenType, TypeOK
  <2> QED BY <2>1 DEF IInv, Counted
<1> QED BY <1>1, SpecIInv, PTL

\* No command is lost: it stays in the queue until it is executed or put
\* aside (process).
THEOREM SpecKeptUntilDone == Spec => []KeptUntilDone
<1>1. IInv => KeptUntilDone
  BY DEF IInv
<1> QED BY <1>1, SpecIInv, PTL

\* A command in bad.job has the data file that came with it: the execute file
\* is unlinked before the data file (process).
THEOREM SpecRejectedIsWhole == Spec => []RejectedIsWhole
<1>1. IInv => RejectedIsWhole
  BY DEF IInv, Files, RejectedIsWhole
<1> QED BY <1>1, SpecIInv, PTL

-----------------------------------------------------------------------------
(***************************************************************************)
(* rbmail.                                                                 *)
(***************************************************************************)

\* Where the mail at hand begins, or the next one would.
Reached == IF rbpc \in {"parse", "body", "rmail"} THEN header ELSE pos

\* rbmail reads on behind the mails it has handed over, and comes back to no
\* place before them.
RbOrder ==
    /\ 0 < pos /\ saveseek <= pos
    /\ rbpc \in {"parse", "body"} => header = pos - 1
    /\ rbpc \in {"parse", "body", "rmail"} => 0 < header /\ header < pos
    /\ \A i \in DOMAIN handed : /\ handed[i].at < Reached
                                /\ saveseek # 0 => handed[i].at < saveseek

\* What is known of the mail that rmail is given.
AtRmail ==
    rbpc = "rmail" =>
       /\ header < saveseek /\ saveseek <= pos
       /\ agrees => /\ saveseek = pos /\ temp = ToRmail(header + 1, pos - 1)
                    /\ pos - 1 <= header + rbatch[header].len
                    /\ \A k \in MailIds :
                          Intact(k, header) => temp = Deliverable(k, header)
       /\ ~agrees => saveseek = header + 1

\* Every line that has been passed is accounted for, unless the batch stays.
Covered ==
    /\ rbpc \notin {"done", "resync"} \/ (rbpc = "resync" /\ syncflg) =>
          \A i \in 1..(Reached - 1) : Accounted(i)
    /\ returned = 1 => rbpc = "done"

\* A mail that arrived as it was sent has been delivered, is at hand, or lies
\* ahead of the place where rbmail goes on.
Ahead(k, at) ==
    \/ Delivered(k, at)
    \/ rbpc = "header" /\ pos <= at
    \/ rbpc \in {"parse", "body"} /\ header <= at
    \/ rbpc = "rmail" /\ (header = at /\ agrees)
    \/ rbpc = "rmail" /\ saveseek <= at
    \/ rbpc = "resync" /\ syncflg /\ pos <= at

AllAhead == \A k \in MailIds, at \in DOMAIN rbatch :
               refused = 0 /\ Intact(k, at) => Ahead(k, at)

\* In a batch that arrived as it was sent, rbmail goes from header to header.
Smooth ==
    refused = 0 /\ Undamaged =>
       /\ err = {} /\ returned = 0 /\ rbpc # "resync"
       /\ rbpc = "header" => pos = Len(rbatch) + 1 \/ rbatch[pos].n = 0
       /\ rbpc \in {"parse", "body"} => rbatch[header].n = 0
       /\ rbpc = "rmail" =>
             agrees /\ (pos = Len(rbatch) + 1 \/ rbatch[pos].n = 0)

RbInv == /\ RbTypeOK /\ RbOrder /\ AtRmail /\ Covered /\ AllAhead /\ Smooth
         /\ NothingDropped /\ OnceInOrder

-----------------------------------------------------------------------------
\* The lines of a mail are numbered from 1 on.
LEMMA BodyLines ==
    ASSUME NEW k \in MailIds
    PROVE  /\ Lengths[k] \in Nat \ {0}
           /\ Body(k) \in Seq(BatchLines) /\ Len(Body(k)) = Lengths[k]
           /\ \A n \in 1..Lengths[k] : Body(k)[n].n = n
<1>1. Lengths[k] \in Nat \ {0}
  BY RbmailAssumption DEF MailIds
<1>2. \A n \in 1..Lengths[k] : Body(k)[n] \in BatchLines /\ Body(k)[n].n = n
  BY <1>1 DEF Body, BatchLine, BatchLines
<1>3. Body(k) \in [1..Lengths[k] -> BatchLines]
  BY <1>2 DEF Body
<1>4. Body(k) \in Seq(BatchLines) /\ Len(Body(k)) = Lengths[k]
  BY <1>1, <1>3
<1> QED
  BY <1>1, <1>2, <1>4

\* What a mail that arrived as it was sent looks like.
LEMMA IntactLines ==
    ASSUME rbatch \in Seq(BatchLines), NEW k \in MailIds,
           NEW at \in DOMAIN rbatch, Intact(k, at)
    PROVE  /\ at + Lengths[k] <= Len(rbatch)
           /\ rbatch[at] = BatchLine("header", k, 0, Lengths[k])
           /\ \A n \in 1..Lengths[k] : rbatch[at + n] = Body(k)[n]
<1> DEFINE h == BatchLine("header", k, 0, Lengths[k])
           m == SubSeq(rbatch, at, at + Lengths[k])
<1>1. /\ Lengths[k] \in Nat \ {0} /\ Body(k) \in Seq(BatchLines)
      /\ Len(Body(k)) = Lengths[k]
  BY BodyLines
<1>2. at \in Nat /\ at >= 1 /\ at + Lengths[k] <= Len(rbatch)
  BY DEF Intact
<1>3. <<h>> \in Seq(BatchLines) /\ Len(<<h>>) = 1 /\ <<h>>[1] = h
  BY <1>1 DEF BatchLine, BatchLines
<1>4. /\ m = <<h>> \o Body(k)
      /\ m[1] = h /\ \A n \in 1..Lengths[k] : m[n + 1] = Body(k)[n]
  <2>1. m = <<h>> \o Body(k)
    BY DEF Intact, MailOf
  <2> HIDE DEF h, m
  <2> QED
    BY <1>1, <1>3, <2>1, ConcatProperties
<1>5. \A n \in 1..(Lengths[k] + 1) : m[n] = rbatch[at + n - 1]
  BY <1>1, <1>2, SubSeqProperties
<1> HIDE DEF m, h
<1>6. rbatch[at] = h
  BY <1>1, <1>2, <1>4, <1>5
<1>7. ASSUME NEW n \in 1..Lengths[k] PROVE rbatch[at + n] = Body(k)[n]
  <2>1. n + 1 \in 1..(Lengths[k] + 1) /\ at + (n + 1) - 1 = at + n
    BY <1>1, <1>2
  <2> QED
    BY <1>4, <1>5, <2>1
<1> QED
  BY <1>2, <1>6, <1>7 DEF h

\* Mails that arrived as they were sent do not overlap.
LEMMA Apart ==
    ASSUME rbatch \in Seq(BatchLines), NEW k \in MailIds, NEW l \in MailIds,
           NEW at \in DOMAIN rbatch, NEW i \in DOMAIN rbatch,
           Intact(k, at), Intact(l, i), at <= i, i <= at + Lengths[k]
    PROVE  at = i /\ k = l
<1>1. rbatch[at].n = 0 /\ rbatch[at].of = k
  BY IntactLines DEF BatchLine
<1>2. rbatch[i].n = 0 /\ rbatch[i].of = l
  BY IntactLines DEF BatchLine
<1>3. CASE at < i
  <2>1. i - at \in 1..Lengths[k] /\ at + (i - at) = i
    BY <1>3, BodyLines
  <2>2. rbatch[i] = Body(k)[i - at] /\ Body(k)[i - at].n = i - at
    BY <2>1, IntactLines, BodyLines
  <2> QED
    BY <1>2, <2>1, <2>2
<1>4. CASE at = i
  BY <1>1, <1>2, <1>4
<1> QED
  BY <1>3, <1>4, BodyLines

\* In a batch that arrived as it was sent, a mail begins wherever a line says
\* so, and where the one before ends.
LEMMA StartsHere ==
    ASSUME rbatch \in Seq(BatchLines), Undamaged,
           NEW i \in DOMAIN rbatch, rbatch[i].n = 0
    PROVE  \E k \in MailIds : Intact(k, i)
<1>1. PICK k \in MailIds, at \in 1..i : Intact(k, at) /\ i <= at + Lengths[k]
  BY DEF Undamaged
<1>2. CASE at < i
  <2> at \in DOMAIN rbatch
    OBVIOUS
  <2>1. i - at \in 1..Lengths[k] /\ at + (i - at) = i
    BY <1>1, <1>2, BodyLines
  <2>2. rbatch[i] = Body(k)[i - at] /\ Body(k)[i - at].n = i - at
    BY <1>1, <2>1, IntactLines, BodyLines
  <2> QED
    BY <2>1, <2>2
<1> QED
  BY <1>1, <1>2

LEMMA NextStart ==
    ASSUME rbatch \in Seq(BatchLines), Undamaged,
           NEW k \in MailIds, NEW at \in DOMAIN rbatch, Intact(k, at),
           NEW i \in DOMAIN rbatch, i = at + Lengths[k] + 1
    PROVE  rbatch[i].n = 0
<1>1. PICK l \in MailIds, j \in 1..i : Intact(l, j) /\ i <= j + Lengths[l]
  BY DEF Undamaged
<1>2. /\ Lengths[k] \in Nat \ {0} /\ Lengths[l] \in Nat \ {0}
      /\ j \in DOMAIN rbatch
  BY BodyLines
<1>3. CASE j < at
  <2>1. j <= at /\ at <= j + Lengths[l]
    BY <1>1, <1>2, <1>3
  <2>2. j = at
    BY <1>1, <1>2, <2>1, Apart
  <2> QED
    BY <1>3, <2>2
<1>4. CASE at <= j /\ j < i
  <2>1. j = at /\ k = l
    BY <1>1, <1>2, <1>4, Apart
  <2> QED
    BY <1>1, <1>2, <2>1
<1>5. CASE j = i
  BY <1>1, <1>2, <1>5, IntactLines DEF BatchLine
<1> QED
  BY <1>2, <1>3, <1>4, <1>5

-----------------------------------------------------------------------------
\* Of a mail that is there as it was sent, rmail gets what can be delivered.
LEMMA Passing ==
    ASSUME rbatch \in Seq(BatchLines), NEW k \in MailIds, NEW at \in DOMAIN rbatch,
           Intact(k, at)
    PROVE  ToRmail(at + 1, at + Lengths[k]) = Deliverable(k, at)
<1>1. /\ at \in Nat /\ Lengths[k] \in Nat
      /\ \A n \in 1..Lengths[k] : rbatch[at + n] = Body(k)[n]
  BY IntactLines, BodyLines
<1>2. ASSUME NEW n \in 1..Lengths[k]
      PROVE  Body(k)[n].of = k /\ Body(k)[n].n = n /\ Body(k)[n].sound
  BY <1>1, <1>2 DEF Body, BatchLine
<1>3. ASSUME NEW i \in (at + 1)..(at + Lengths[k])
      PROVE  rbatch[i].of = k /\ rbatch[i].n = i - at /\ rbatch[i].sound
  <2>1. i - at \in 1..Lengths[k] /\ at + (i - at) = i
    BY <1>1
  <2>2. rbatch[i] = Body(k)[i - at]
    BY <1>1, <2>1
  <2> QED
    BY <1>2, <2>1, <2>2
<1>4. ASSUME NEW i \in (at + 1)..(at + Lengths[k])
      PROVE  /\ HasCtrlZ(rbatch[i]) <=> <<k, i - at>> \in CtrlZ
             /\ i = at + 1 => (IsEmptyFirst(rbatch[i]) <=> k \in EmptyFirst)
  <2>1. i = at + 1 => i - at = 1
    BY <1>1
  <2> QED
    BY <1>3, <2>1 DEF HasCtrlZ, IsEmptyFirst
<1>5. ASSUME NEW i \in (at + 1)..(at + Lengths[k]), NEW m \in (at + 1)..i
      PROVE  m \in (at + 1)..(at + Lengths[k])
  BY <1>1
<1> QED
  BY <1>4, <1>5 DEF ToRmail, Deliverable

\* What rbmail knows of the lines it has taken for a mail.
LEMMA Taking ==
    ASSUME RbInv, TakeMail
    PROVE  /\ pos' \in Where /\ pos < pos' /\ saveseek' \in {pos, pos'}
           /\ temp' \subseteq Where /\ agrees' \in BOOLEAN
           /\ agrees' => /\ saveseek' = pos' /\ temp' = ToRmail(pos, pos' - 1)
                         /\ pos' - 1 <= header + rbatch[header].len
                         /\ \A i \in pos..(pos' - 1) : rbatch[i].n > 0
           /\ ~agrees' => saveseek' = pos
           /\ \A k \in MailIds : Intact(k, header) =>
                 /\ agrees' /\ pos' = header + Lengths[k] + 1
                 /\ temp' = Deliverable(k, header)
<1> DEFINE first == rbatch[header]
           n     == Taken(first.len)
           lines == SubSeq(rbatch, pos, pos + n - 1)
           ok    == first.n = 0 /\ n = first.len /\ lines = Body(first.of)
<1>1. /\ rbatch \in Seq(BatchLines) /\ header \in DOMAIN rbatch
      /\ header \in Nat /\ pos = header + 1 /\ pos <= Len(rbatch)
  BY DEF RbInv, RbTypeOK, RbOrder, TakeMail, AtEnd, Where
<1>2. /\ first \in BatchLines /\ first.len \in Nat /\ first.of \in MailIds
  <2>1. first \in BatchLines
    BY <1>1
  <2> QED
    BY <2>1 DEF BatchLines
<1>3. /\ n \in Nat /\ pos + n - 1 <= Len(rbatch)
      /\ pos + first.len - 1 <= Len(rbatch) => n = first.len
  BY <1>1, <1>2 DEF Taken
<1>4. /\ temp' = ToRmail(pos, pos + n - 1) /\ agrees' = ok
      /\ pos' = IF n = 0 THEN pos + 1 ELSE pos + n
      /\ saveseek' = IF ok THEN pos' ELSE pos
  BY DEF TakeMail
<1>5. /\ lines \in Seq(BatchLines) /\ Len(lines) = n
      /\ \A i \in 1..n : lines[i] = rbatch[pos + i - 1]
  <2>1. \A i \in pos..(pos + n - 1) : rbatch[i] \in BatchLines
    BY <1>1, <1>3
  <2> HIDE DEF n
  <2> QED
    BY <1>1, <1>3, <2>1, SubSeqProperties
<1>6. agrees' \in BOOLEAN
  BY <1>4
<1>11. n > 0 => pos' = pos + n
  BY <1>1, <1>3, <1>4
<1> HIDE DEF n, lines
<1>7. ASSUME agrees'
      PROVE  /\ n > 0 /\ n = first.len /\ saveseek' = pos'
             /\ \A i \in pos..(pos + n - 1) : rbatch[i].n > 0
  <2>1. lines = Body(first.of) /\ n = first.len /\ saveseek' = pos'
    BY <1>4, <1>7
  <2>2. n \in Nat \ {0} /\ \A i \in 1..n : lines[i].n = i
    BY <1>2, <1>5, <2>1, BodyLines
  <2>3. ASSUME NEW i \in pos..(pos + n - 1) PROVE rbatch[i].n > 0
    <3>1. i - pos + 1 \in 1..n /\ pos + (i - pos + 1) - 1 = i
      BY <1>1, <1>3, <2>2
    <3> QED
      BY <1>5, <2>2, <3>1
  <2> QED
    BY <2>1, <2>2, <2>3
<1>8. ~agrees' => saveseek' = pos
  BY <1>4
<1>9. ASSUME NEW k \in MailIds, Intact(k, header)
      PROVE  /\ agrees' /\ pos' = header + Lengths[k] + 1
             /\ temp' = Deliverable(k, header)
  <2>1. /\ header + Lengths[k] <= Len(rbatch)
        /\ first = BatchLine("header", k, 0, Lengths[k])
        /\ \A i \in 1..Lengths[k] : rbatch[header + i] = Body(k)[i]
    BY <1>1, <1>9, IntactLines
  <2>2. first.n = 0 /\ first.of = k /\ first.len = Lengths[k]
    BY <2>1 DEF BatchLine
  <2>3. n = Lengths[k] /\ n \in Nat \ {0}
    BY <1>1, <1>3, <2>1, <2>2, BodyLines
  <2>4. ASSUME NEW i \in 1..n PROVE lines[i] = Body(k)[i]
    <3>1. pos + i - 1 = header + i
      BY <1>1, <2>3
    <3> QED
      BY <1>5, <2>1, <2>3, <3>1
  <2>5. lines = Body(k)
    BY <1>5, <2>3, <2>4, BodyLines, SeqEqual
  <2>6. agrees'
    BY <1>4, <2>2, <2>3, <2>5
  <2>7. pos' = header + Lengths[k] + 1
    <3>1. pos' = pos + n
      BY <1>1, <1>3, <1>11, <2>3
    <3> HIDE DEF n
    <3> QED
      BY <1>1, <2>3, <3>1
  <2>8. pos + n - 1 = header + Lengths[k]
    BY <1>1, <2>3
  <2>9. temp' = ToRmail(header + 1, header + Lengths[k])
    BY <1>1, <1>4, <2>8
  <2> QED
    BY <1>1, <1>9, <2>6, <2>7, <2>9, Passing
<1>10. /\ pos' \in Where /\ pos < pos' /\ saveseek' \in {pos, pos'}
       /\ temp' \subseteq Where
  BY <1>1, <1>3, <1>4 DEF Where, ToRmail
<1>12. agrees' => /\ temp' = ToRmail(pos, pos' - 1)
                  /\ pos' - 1 <= header + first.len
                  /\ \A i \in pos..(pos' - 1) : rbatch[i].n > 0
  BY <1>1, <1>3, <1>4, <1>7, <1>11
<1> QED
  BY <1>6, <1>7, <1>8, <1>9, <1>10, <1>12

-----------------------------------------------------------------------------
\* What is true at the start.
LEMMA InitRbInv == RbInit => RbInv
<1> SUFFICES ASSUME RbInit PROVE RbInv
  OBVIOUS
<1> USE RbmailAssumption DEF RbInit, RbStart
<1>1. RbTypeOK
  <2>1. rbatch \in Seq(BatchLines) /\ Len(rbatch) \in Nat
    OBVIOUS
  <2>2. handed \in Seq(HandedMails)
    OBVIOUS
  <2>3. refused \in 0..MaxRefused
    OBVIOUS
  <2>4. pos \in Where /\ header \in Where /\ saveseek \in Where
    BY <2>1 DEF Where
  <2> QED
    BY <2>1, <2>2, <2>3, <2>4 DEF RbTypeOK
<1>2. RbOrder /\ AtRmail /\ NothingDropped /\ OnceInOrder
  BY DEF RbOrder, AtRmail, NothingDropped, OnceInOrder, Reached
<1>3. Covered
  BY DEF Covered, Reached
<1>4. AllAhead
  BY DEF AllAhead, Ahead
<1>5. Smooth
  <2>1. ASSUME Undamaged, Len(rbatch) >= 1 PROVE rbatch[1].n = 0
    <3>1. 1 \in DOMAIN rbatch
      BY <2>1
    <3>2. PICK k \in MailIds, at \in 1..1 : Intact(k, at)
      BY <2>1, <3>1 DEF Undamaged
    <3> QED
      BY <3>1, <3>2, IntactLines DEF BatchLine
  <2>2. Len(rbatch) \in Nat
    OBVIOUS
  <2> QED
    BY <2>1, <2>2 DEF Smooth
<1> QED
  BY <1>1, <1>2, <1>3, <1>4, <1>5 DEF RbInv

\* The mail that has just been handed over.
LEMMA Handed ==
    ASSUME RbInv, HandOver
    PROVE  /\ DOMAIN handed' = 1..(Len(handed) + 1)
           /\ DOMAIN handed = 1..Len(handed)
           /\ Len(handed) \in Nat
           /\ \A i \in 1..Len(handed) : handed'[i] = handed[i]
           /\ handed'[Len(handed) + 1]
                = [at |-> header, lines |-> temp, agrees |-> agrees]
           /\ handed' \in Seq(HandedMails)
<1>1. /\ handed \in Seq(HandedMails)
      /\ [at |-> header, lines |-> temp, agrees |-> agrees] \in HandedMails
  BY DEF RbInv, RbTypeOK, HandedMails
<1> QED
  BY <1>1 DEF HandOver

\* The batch never changes, and what has been delivered stays delivered.
LEMMA Keeps ==
    ASSUME RbInv, RbNext
    PROVE  /\ rbatch' = rbatch /\ refused' >= refused /\ err \subseteq err'
           /\ \A k \in MailIds, at \in DOMAIN rbatch :
                 Intact(k, at)' = Intact(k, at)
           /\ Undamaged' = Undamaged
           /\ \A k, at : Deliverable(k, at)' = Deliverable(k, at)
           /\ \A i \in DOMAIN handed :
                 i \in DOMAIN handed' /\ handed'[i] = handed[i]
<1>1. rbatch' = rbatch
  BY DEF RbNext, Reads, NextHeader, GoodHeader, BadHeader, TakeMail, NoMail,
         HandOver, SkipLine, Rescan, GiveUp, RmailFails
<1>2. refused \in Nat /\ handed \in Seq(HandedMails)
  BY RbmailAssumption DEF RbInv, RbTypeOK
<1>3. refused' >= refused
  BY <1>2 DEF RbNext, Reads, NextHeader, GoodHeader, BadHeader, TakeMail,
         NoMail, HandOver, SkipLine, Rescan, GiveUp, RmailFails
<1>4. err \subseteq err'
  BY DEF RbNext, Reads, NextHeader, GoodHeader, BadHeader, TakeMail, NoMail,
         HandOver, SkipLine, Rescan, GiveUp, RmailFails, FileSync, CopyOnError
<1>5. ASSUME HandOver
      PROVE  \A i \in DOMAIN handed :
                i \in DOMAIN handed' /\ handed'[i] = handed[i]
  BY <1>5, Handed
<1>6. ASSUME ~HandOver PROVE handed' = handed
  BY <1>6 DEF RbNext, Reads, NextHeader, GoodHeader, BadHeader, TakeMail,
         NoMail, SkipLine, Rescan, GiveUp, RmailFails
<1>7. \A i \in DOMAIN handed : i \in DOMAIN handed' /\ handed'[i] = handed[i]
  BY <1>5, <1>6
<1> QED
  BY <1>1, <1>3, <1>4, <1>7 DEF Intact, Undamaged, Deliverable

LEMMA StillDelivered ==
    ASSUME RbInv, RbNext, NEW k, NEW at, Delivered(k, at) PROVE Delivered(k, at)'
BY Keeps DEF Delivered

LEMMA StillAccounted ==
    ASSUME RbInv, RbNext, NEW i, Accounted(i) PROVE Accounted(i)'
BY Keeps DEF Accounted, Swallowed

LEMMA RbTypeStep == RbInv /\ [RbNext]_rbVars => RbTypeOK'
<1> SUFFICES ASSUME RbInv, [RbNext]_rbVars PROVE RbTypeOK'
  OBVIOUS
<1>1. CASE UNCHANGED rbVars
  BY <1>1 DEF rbVars, RbInv, RbTypeOK, HandedMails, Where
<1> SUFFICES ASSUME RbNext PROVE RbTypeOK'
  BY <1>1
<1>2. /\ RbTypeOK /\ Len(rbatch) \in Nat
      /\ pos \in Nat /\ header \in Nat /\ saveseek \in Nat
      /\ saveseek <= pos
      /\ WhatFailed \subseteq Where
  BY RbmailAssumption
     DEF RbInv, RbTypeOK, HandedMails, Where, RbOrder, WhatFailed
<1>3. Where' = Where /\ HandedMails' = HandedMails
  BY Keeps DEF Where, HandedMails
<1>4. CASE NextHeader
  BY <1>2, <1>4 DEF NextHeader, RbTypeOK, HandedMails, Where, AtEnd
<1>5. CASE GoodHeader
  BY <1>2, <1>5 DEF GoodHeader, RbTypeOK, HandedMails, Where
<1>6. CASE BadHeader
  BY <1>2, <1>6 DEF BadHeader, FileSync, RbTypeOK, HandedMails, Where
<1>7. CASE TakeMail
  <2>1. /\ UNCHANGED <<rbatch, header, syncflg, err, handed, returned, refused>>
        /\ rbpc' = "rmail"
    BY <1>7 DEF TakeMail
  <2>2. pos < pos' /\ pos' \in Nat /\ saveseek' \in {pos, pos'} /\ header < pos
    BY <1>7, Taking DEF Where, TakeMail, RbInv, RbOrder
  <2>3. header' < saveseek' /\ saveseek' <= pos'
    BY <1>2, <2>1, <2>2
  <2> QED
    BY <1>2, <1>3, <1>7, <2>1, <2>3, Taking DEF RbTypeOK
<1>8. CASE NoMail
  BY <1>2, <1>8 DEF NoMail, CopyOnError, RbTypeOK, HandedMails, Where
<1>9. CASE HandOver
  BY <1>2, <1>3, <1>9, Handed
     DEF HandOver, FileSync, WhatFailed, RbTypeOK, HandedMails, Where
<1>10. CASE RmailFails
  <2>1. UNCHANGED <<rbatch, pos, header, temp, agrees, saveseek, handed,
                    returned>>
    BY <1>10 DEF RmailFails
  <2>2. /\ refused \in 0..MaxRefused /\ refused < MaxRefused
        /\ refused' = refused + 1
    BY <1>2, <1>10 DEF RmailFails, RbTypeOK
  <2>3. err \subseteq Where /\ err' = err \cup WhatFailed /\ syncflg' = FALSE
        /\ rbpc' = "resync"
    BY <1>2, <1>10 DEF RmailFails, CopyOnError, RbTypeOK
  <2>4. refused' \in 0..MaxRefused /\ err' \subseteq Where
    BY <1>2, <2>2, <2>3, RbmailAssumption
  <2> QED
    BY <1>2, <1>3, <2>1, <2>3, <2>4 DEF RbTypeOK
<1>11. CASE SkipLine
  <2>1. /\ UNCHANGED <<rbatch, rbpc, header, temp, agrees, syncflg, handed,
                       returned, refused>>
        /\ rbpc = "resync" /\ err' = err \cup {pos}
    BY <1>11 DEF SkipLine
  <2>2. pos \in Where /\ pos' \in Where /\ saveseek' \in Where
    BY <1>2, <1>11 DEF SkipLine, AtEnd, RbTypeOK, Where
  <2> QED
    BY <1>2, <1>3, <2>1, <2>2 DEF RbTypeOK
<1>12. CASE Rescan
  BY <1>2, <1>12 DEF Rescan, AtEnd, RbTypeOK, HandedMails, Where
<1>13. CASE GiveUp
  BY <1>2, <1>13 DEF GiveUp, RbTypeOK, HandedMails, Where
<1> QED
  BY <1>4, <1>5, <1>6, <1>7, <1>8, <1>9, <1>10, <1>11, <1>12, <1>13
     DEF RbNext, Reads

LEMMA RbOrderStep == RbInv /\ [RbNext]_rbVars => RbOrder' /\ OnceInOrder'
<1> SUFFICES ASSUME RbInv, [RbNext]_rbVars PROVE RbOrder' /\ OnceInOrder'
  OBVIOUS
<1>1. CASE UNCHANGED rbVars
  BY <1>1 DEF rbVars, RbInv, RbOrder, OnceInOrder, Reached
<1> SUFFICES ASSUME RbNext PROVE RbOrder' /\ OnceInOrder'
  BY <1>1
<1>2. /\ RbOrder /\ OnceInOrder /\ AtRmail
      /\ pos \in Nat /\ header \in Nat /\ saveseek \in Nat
  BY DEF RbInv, RbTypeOK, Where
<1>a. \A i \in DOMAIN handed : handed[i].at \in Nat
  <2>1. handed \in Seq(HandedMails)
    BY DEF RbInv, RbTypeOK
  <2>2. \A m \in HandedMails : m.at \in Where
    BY DEF HandedMails
  <2>3. \A i \in DOMAIN handed : handed[i] \in HandedMails
    BY <2>1
  <2>4. \A i \in DOMAIN handed : handed[i].at \in Where
    BY <2>2, <2>3
  <2> QED
    BY <2>4 DEF Where
<1>3. CASE NextHeader
  BY <1>2, <1>a, <1>3 DEF NextHeader, RbOrder, OnceInOrder, Reached
<1>4. CASE GoodHeader
  BY <1>2, <1>a, <1>4 DEF GoodHeader, RbOrder, OnceInOrder, Reached
<1>5. CASE BadHeader
  BY <1>2, <1>a, <1>5 DEF BadHeader, FileSync, RbOrder, OnceInOrder, Reached
<1>6. CASE TakeMail
  <2>1. UNCHANGED <<header, handed>> /\ rbpc' = "rmail" /\ rbpc = "body"
    BY <1>6 DEF TakeMail
  <2>2. pos' \in Nat /\ pos < pos' /\ saveseek' \in {pos, pos'}
    BY <1>6, Taking DEF Where
  <2> QED
    BY <1>2, <1>a, <2>1, <2>2 DEF RbOrder, OnceInOrder, Reached
<1>7. CASE NoMail
  BY <1>2, <1>a, <1>7 DEF NoMail, CopyOnError, RbOrder, OnceInOrder, Reached
<1>8. CASE HandOver
  <2>1. /\ header' = header /\ saveseek' = saveseek /\ rbpc = "rmail"
        /\ rbpc' \in {"header", "resync"}
        /\ pos' \in {pos, saveseek}
        /\ header < saveseek /\ saveseek <= pos
    BY <1>2, <1>a, <1>8 DEF HandOver, FileSync, AtRmail
  <2>2. pos' >= saveseek /\ pos' \in Nat
    BY <1>2, <1>a, <2>1
  <2>3. \A i \in DOMAIN handed : handed[i].at < header
    BY <1>2, <1>a, <2>1 DEF RbOrder, Reached
  <2>4. handed'[Len(handed) + 1].at = header
    BY <1>8, Handed
  <2>5. \A i \in DOMAIN handed' :
           handed'[i].at <= header /\ handed'[i].at \in Nat
    BY <1>2, <1>a, <1>8, <2>3, <2>4, Handed
  <2>6. OnceInOrder'
    BY <1>2, <1>a, <1>8, <2>3, <2>4, Handed DEF OnceInOrder
  <2>7. Reached' = pos'
    BY <2>1 DEF Reached
  <2>8. /\ 0 < pos' /\ saveseek' <= pos' /\ header < pos'
        /\ header < saveseek'
    BY <1>2, <2>1, <2>2
  <2>9. \A i \in DOMAIN handed' :
           handed'[i].at < pos' /\ handed'[i].at < saveseek'
    <3> HIDE <2>6, <2>7
    <3> QED BY <1>2, <2>1, <2>2, <2>5, <2>8
  <2>10. RbOrder'
    BY <2>1, <2>7, <2>8, <2>9 DEF RbOrder
  <2> QED
    BY <2>6, <2>10
<1>9. CASE RmailFails
  BY <1>2, <1>a, <1>9 DEF RmailFails, CopyOnError, RbOrder, OnceInOrder, Reached
<1>10. CASE SkipLine
  BY <1>2, <1>a, <1>10 DEF SkipLine, RbOrder, OnceInOrder, Reached
<1>11. CASE Rescan
  BY <1>2, <1>a, <1>11 DEF Rescan, RbOrder, OnceInOrder, Reached
<1>12. CASE GiveUp
  BY <1>2, <1>a, <1>12 DEF GiveUp, RbOrder, OnceInOrder, Reached
<1> QED
  BY <1>3, <1>4, <1>5, <1>6, <1>7, <1>8, <1>9, <1>10, <1>11, <1>12
     DEF RbNext, Reads

LEMMA AtRmailStep == RbInv /\ [RbNext]_rbVars => AtRmail'
<1> SUFFICES ASSUME RbInv, [RbNext]_rbVars PROVE AtRmail'
  OBVIOUS
<1>1. CASE UNCHANGED rbVars
  BY <1>1 DEF rbVars, RbInv, AtRmail, ToRmail, Deliverable, Intact
<1>2. CASE TakeMail
  <2>1. header' = header /\ pos = header + 1 /\ header \in Nat
    BY <1>2 DEF TakeMail, RbInv, RbTypeOK, RbOrder, Where
  <2>2. saveseek' \in {pos, pos'} /\ pos < pos' /\ pos' \in Nat
    BY <1>2, Taking DEF Where
  <2>3. agrees' => saveseek' = pos' /\ temp' = ToRmail(header + 1, pos' - 1)
    BY <1>2, <2>1, Taking
  <2>6. agrees' => /\ pos' - 1 <= header + rbatch[header].len
                   /\ \A k \in MailIds :
                         Intact(k, header) => temp' = Deliverable(k, header)
    BY <1>2, Taking
  <2>7. rbatch' = rbatch
    BY <1>2 DEF TakeMail
  <2>4. ~agrees' => saveseek' = header' + 1
    BY <1>2, <2>1, Taking
  <2>5. header' < saveseek' /\ saveseek' <= pos'
    BY <2>1, <2>2
  <2> QED
    BY <2>1, <2>3, <2>4, <2>5, <2>6, <2>7 DEF AtRmail, ToRmail, Intact, Deliverable
<1>3. ASSUME RbNext, ~TakeMail PROVE rbpc' # "rmail"
  BY <1>3 DEF RbNext, Reads, NextHeader, GoodHeader, BadHeader, NoMail,
         HandOver, SkipLine, Rescan, GiveUp, RmailFails, FileSync, CopyOnError
<1> QED
  BY <1>1, <1>2, <1>3 DEF AtRmail

\* The lines up to a header are the header and those before it.
LEMMA UpTo ==
    ASSUME NEW p \in Nat, NEW h \in Nat, p <= h + 1
    PROVE  \A i \in 1..(p - 1) : i = h \/ i \in 1..(h - 1)
OBVIOUS

LEMMA CoveredStep == RbInv /\ [RbNext]_rbVars => Covered' /\ NothingDropped'
<1> SUFFICES ASSUME RbInv, [RbNext]_rbVars PROVE Covered' /\ NothingDropped'
  OBVIOUS
<1>1. CASE UNCHANGED rbVars
  BY <1>1 DEF rbVars, RbInv, Covered, Accounted, Swallowed, NothingDropped, Reached
<1> SUFFICES ASSUME RbNext PROVE Covered' /\ NothingDropped'
  BY <1>1
<1>2. /\ Covered /\ RbOrder /\ AtRmail /\ NothingDropped
      /\ pos \in Nat /\ header \in Nat /\ saveseek \in Nat
      /\ returned \in {0, 1} /\ Len(rbatch) \in Nat /\ rbatch' = rbatch
  BY Keeps DEF RbInv, RbTypeOK, Where
<1>a. \A i : Accounted(i) => Accounted(i)'
  BY StillAccounted
<1>3. CASE NextHeader
  BY <1>2, <1>a, <1>3 DEF NextHeader, AtEnd, Covered, NothingDropped, Reached
<1>4. CASE GoodHeader
  BY <1>2, <1>a, <1>4 DEF GoodHeader, Covered, NothingDropped, Reached
<1>5. CASE BadHeader
  <2>1. /\ rbpc = "parse" /\ rbpc' = "resync" /\ pos' \in {pos, saveseek}
        /\ returned' = returned /\ header \in err'
    BY <1>5 DEF BadHeader, FileSync
  <2>2. ASSUME NEW i, i = header PROVE Accounted(i)'
    BY <2>1, <2>2 DEF Accounted
  <2>3. \A i \in 1..(header - 1) : Accounted(i)'
    BY <1>2, <1>a, <2>1 DEF Covered, Reached
  <2>4. pos' \in Nat /\ header \in Nat /\ pos' <= header + 1
    BY <1>2, <2>1 DEF RbOrder
  <2>5. \A i \in 1..(pos' - 1) : i = header \/ i \in 1..(header - 1)
    BY <2>4, UpTo
  <2>6. \A i \in 1..(pos' - 1) : Accounted(i)'
    BY <2>2, <2>3, <2>5
  <2> QED
    BY <1>2, <2>1, <2>6 DEF Covered, NothingDropped, Reached
<1>6. CASE TakeMail
  <2>1. UNCHANGED <<header, returned>> /\ rbpc' = "rmail" /\ rbpc = "body"
    BY <1>6 DEF TakeMail
  <2> QED
    BY <1>2, <1>a, <2>1 DEF Covered, NothingDropped, Reached
<1>7. CASE NoMail
  BY <1>2, <1>a, <1>7 DEF NoMail, CopyOnError, Covered, NothingDropped, Reached
<1>8. CASE HandOver
  <2>1. /\ rbpc = "rmail" /\ rbpc' \in {"header", "resync"}
        /\ returned' = returned
        /\ header' = header /\ pos' = (IF agrees THEN pos ELSE saveseek)
    BY <1>2, <1>8 DEF HandOver, FileSync, AtRmail
  <2>2. \A i \in 1..(header - 1) : Accounted(i)'
    BY <1>2, <1>a, <2>1 DEF Covered, Reached
  <2>3. ASSUME NEW i, i = header \/ i \in temp PROVE Accounted(i)'
    BY <1>8, <2>3, Handed DEF Accounted
  <2>4. ASSUME agrees, NEW i \in 1..(pos - 1) PROVE Accounted(i)'
    <3>1. i \in 1..(header - 1) \/ i = header \/ i \in (header + 1)..(pos - 1)
      BY <1>2, <2>4
    <3>2. CASE i \in (header + 1)..(pos - 1) /\ i \notin temp
      <4>1. /\ temp = ToRmail(header + 1, pos - 1)
            /\ pos - 1 <= header + rbatch[header].len
        BY <1>2, <2>1, <2>4 DEF AtRmail
      <4>2. \/ i = header + 1 /\ IsEmptyFirst(rbatch[i])
            \/ \E j \in (header + 1)..i : HasCtrlZ(rbatch[j])
        BY <3>2, <4>1 DEF ToRmail
      <4>4. i \in (header + 1)..(header + rbatch[header].len)
        <5>1. rbatch[header].len \in Nat
          <6>1. rbatch \in Seq(BatchLines) /\ header \in DOMAIN rbatch
            BY <1>2, <2>1 DEF RbInv, RbTypeOK, RbOrder, Where
          <6>2. rbatch[header] \in BatchLines
            BY <6>1
          <6> QED
            BY <6>2 DEF BatchLines
        <5> QED
          BY <1>2, <3>2, <4>1, <5>1
      <4>3. PICK j \in Nat : j = Len(handed) + 1
        BY <1>8, Handed
      <4>5. /\ j \in DOMAIN handed'
            /\ handed'[j].at = header /\ handed'[j].agrees
        BY <1>8, <2>4, <4>3, Handed
      <4>6. Swallowed(handed[j], i)'
        BY <1>2, <4>2, <4>4, <4>5 DEF Swallowed
      <4> QED
        BY <4>5, <4>6 DEF Accounted
    <3> QED
      BY <1>2, <2>1, <2>2, <2>3, <3>1, <3>2
  <2>5. ASSUME ~agrees, NEW i \in 1..(saveseek - 1) PROVE Accounted(i)'
    <3>1. saveseek = header + 1
      BY <1>2, <2>1, <2>5 DEF AtRmail
    <3>2. i \in 1..(header - 1) \/ i = header
      BY <1>2, <3>1
    <3> QED
      BY <2>2, <2>3, <3>2
  <2>6. \A i \in 1..(pos' - 1) : Accounted(i)'
    BY <2>1, <2>4, <2>5
  <2> QED
    BY <1>2, <2>1, <2>6 DEF Covered, NothingDropped, Reached
<1>9. CASE RmailFails
  BY <1>2, <1>a, <1>9
     DEF RmailFails, CopyOnError, Covered, NothingDropped, Reached
<1>10. CASE SkipLine
  <2>1. /\ rbpc = "resync" /\ rbpc' = "resync" /\ returned' = returned
        /\ pos' = pos + 1 /\ pos \in err' /\ syncflg' = syncflg
    BY <1>10 DEF SkipLine
  <2>2. ASSUME NEW i, i = pos PROVE Accounted(i)'
    BY <2>1, <2>2 DEF Accounted
  <2>3. ASSUME syncflg, NEW i \in 1..pos PROVE Accounted(i)'
    <3>1. i = pos \/ i \in 1..(pos - 1)
      BY <1>2
    <3> QED
      BY <1>2, <1>a, <2>1, <2>2, <2>3, <3>1 DEF Covered, Reached
  <2> QED
    BY <1>2, <2>1, <2>3 DEF Covered, NothingDropped, Reached
<1>11. CASE Rescan
  BY <1>2, <1>a, <1>11 DEF Rescan, Covered, NothingDropped, Reached
<1>12. CASE GiveUp
  BY <1>2, <1>a, <1>12 DEF GiveUp, Covered, NothingDropped, Reached
<1> QED
  BY <1>3, <1>4, <1>5, <1>6, <1>7, <1>8, <1>9, <1>10, <1>11, <1>12
     DEF RbNext, Reads

LEMMA AheadStep == RbInv /\ [RbNext]_rbVars => AllAhead'
<1> SUFFICES ASSUME RbInv, [RbNext]_rbVars PROVE AllAhead'
  OBVIOUS
<1>1. CASE UNCHANGED rbVars
  <2>1. /\ UNCHANGED <<rbatch, rbpc, pos, header, syncflg, handed, refused>>
        /\ AllAhead
    BY <1>1 DEF rbVars, RbInv
  <2>2. \A k, at : /\ Deliverable(k, at)' = Deliverable(k, at)
                   /\ Intact(k, at)' = Intact(k, at)
    BY <2>1 DEF Deliverable, Intact
  <2>3. \A k, at : Delivered(k, at)' = Delivered(k, at)
    BY <2>1, <2>2 DEF Delivered
  <2>4. ASSUME NEW k \in MailIds, NEW at \in DOMAIN rbatch, Ahead(k, at)
        PROVE  Ahead(k, at)'
    <3>1. Delivered(k, at)' = Delivered(k, at)
      BY <2>3
    <3>2. UNCHANGED <<rbpc, pos, header, saveseek, syncflg, agrees>>
      BY <1>1 DEF rbVars
    <3>3. CASE Delivered(k, at)
      BY <3>1, <3>3 DEF Ahead
    <3>4. CASE \/ rbpc = "header" /\ pos <= at
               \/ rbpc \in {"parse", "body"} /\ header <= at
               \/ rbpc = "rmail" /\ saveseek <= at
      BY <3>2, <3>4 DEF Ahead
    <3>5. CASE rbpc = "rmail" /\ (header = at /\ agrees)
      BY <3>2, <3>5 DEF Ahead
    <3>6. CASE rbpc = "resync" /\ syncflg /\ pos <= at
      BY <3>2, <3>6 DEF Ahead
    <3> QED
      BY <2>4, <3>3, <3>4, <3>5, <3>6 DEF Ahead
  <2> QED
    BY <2>1, <2>2, <2>4 DEF AllAhead
<1> SUFFICES ASSUME RbNext PROVE AllAhead'
  BY <1>1
<1>2. /\ rbatch \in Seq(BatchLines) /\ RbOrder /\ AtRmail /\ AllAhead
      /\ pos \in Nat /\ header \in Nat /\ saveseek \in Nat /\ refused \in Nat
      /\ Len(rbatch) \in Nat /\ rbatch' = rbatch /\ refused' >= refused
  BY Keeps, RbmailAssumption DEF RbInv, RbTypeOK, Where
<1> SUFFICES ASSUME NEW k \in MailIds, NEW at \in DOMAIN rbatch,
                    refused' = 0, Intact(k, at)
             PROVE  Ahead(k, at)'
  BY <1>2, Keeps DEF AllAhead
<1>3. /\ at \in Nat /\ at >= 1 /\ at < Len(rbatch)
      /\ rbatch[at].kind = "header" /\ rbatch[at].n = 0
  <2>1. /\ at + Lengths[k] <= Len(rbatch)
        /\ rbatch[at] = BatchLine("header", k, 0, Lengths[k])
    BY <1>2, IntactLines
  <2>2. Lengths[k] \in Nat \ {0}
    BY BodyLines
  <2> QED
    BY <1>2, <2>1, <2>2 DEF BatchLine
<1>4. Ahead(k, at) /\ refused = 0
  BY <1>2 DEF AllAhead
<1>5. CASE Delivered(k, at)
  BY <1>5, StillDelivered DEF Ahead
<1> SUFFICES ASSUME ~Delivered(k, at) PROVE Ahead(k, at)'
  BY <1>5
<1>6. CASE NextHeader
  BY <1>2, <1>3, <1>4, <1>6 DEF NextHeader, AtEnd, Ahead
<1>7. CASE GoodHeader
  BY <1>2, <1>3, <1>4, <1>7 DEF GoodHeader, Ahead
<1>8. CASE BadHeader
  <2>1. /\ rbpc = "parse" /\ rbpc' = "resync" /\ pos' \in {pos, saveseek}
        /\ syncflg' /\ rbatch[header].kind # "header"
    BY <1>8 DEF BadHeader, FileSync
  <2>2. header <= at /\ header # at
    BY <1>3, <1>4, <2>1 DEF Ahead
  <2>3. pos' <= at
    BY <1>2, <1>3, <2>1, <2>2 DEF RbOrder
  <2> QED
    BY <2>1, <2>3 DEF Ahead
<1>9. CASE TakeMail
  <2>1. /\ rbpc = "body" /\ rbpc' = "rmail" /\ header' = header /\ header <= at
        /\ pos = header + 1
    BY <1>2, <1>4, <1>9 DEF TakeMail, Ahead, RbOrder
  <2>2. CASE header = at
    BY <1>9, <2>1, <2>2, Taking DEF Ahead
  <2>3. CASE header < at /\ agrees'
    <3>1. /\ pos' \in Nat /\ saveseek' = pos'
          /\ \A i \in pos..(pos' - 1) : rbatch[i].n > 0
      BY <1>9, <2>3, Taking DEF Where
    <3>2. at \notin pos..(pos' - 1)
      <4> SUFFICES ASSUME at \in pos..(pos' - 1) PROVE FALSE
        OBVIOUS
      <4>1. rbatch[at].n > 0
        BY <3>1
      <4> QED
        BY <1>3, <4>1
    <3>3. saveseek' <= at
      BY <1>2, <1>3, <2>1, <2>3, <3>1, <3>2
    <3> QED
      BY <2>1, <3>3 DEF Ahead
  <2>4. CASE header < at /\ ~agrees'
    <3>1. saveseek' = pos
      BY <1>9, <2>4, Taking
    <3>2. saveseek' <= at
      BY <1>2, <1>3, <2>1, <2>4, <3>1
    <3> QED
      BY <2>1, <3>2 DEF Ahead
  <2> QED
    BY <1>2, <1>3, <2>1, <2>2, <2>3, <2>4
<1>10. CASE NoMail
  BY <1>2, <1>3, <1>4, <1>10 DEF NoMail, AtEnd, Ahead, RbOrder
<1>11. CASE HandOver
  <2>1. /\ rbpc = "rmail" /\ ((header = at /\ agrees) \/ saveseek <= at)
    BY <1>4, <1>11 DEF HandOver, Ahead
  <2>2. CASE header = at /\ agrees
    <3>1. temp = Deliverable(k, at)
      BY <1>2, <2>1, <2>2 DEF AtRmail
    <3>2. /\ Len(handed) + 1 \in DOMAIN handed'
          /\ handed'[Len(handed) + 1].at = at /\ handed'[Len(handed) + 1].agrees
          /\ handed'[Len(handed) + 1].lines = Deliverable(k, at)
      BY <1>11, <2>2, <3>1, Handed
    <3>3. Deliverable(k, at)' = Deliverable(k, at)
      BY Keeps
    <3> QED
      BY <3>2, <3>3 DEF Ahead, Delivered
  <2>3. CASE saveseek <= at /\ agrees
    BY <1>2, <1>11, <2>3 DEF HandOver, AtRmail, Ahead
  <2>4. CASE saveseek <= at /\ ~agrees
    <3>1. saveseek # 0
      BY <1>2, <1>11 DEF HandOver, AtRmail
    <3>2. pos' <= at /\ syncflg' /\ rbpc' = "resync"
      BY <1>11, <2>4, <3>1 DEF HandOver, FileSync
    <3> QED
      BY <3>2 DEF Ahead
  <2> QED
    BY <2>1, <2>2, <2>3, <2>4
<1>12. CASE RmailFails
  BY <1>2, <1>12 DEF RmailFails
<1>13. CASE SkipLine
  <2>1. /\ rbpc = "resync" /\ rbpc' = "resync"
        /\ pos' = pos + 1 /\ syncflg' = syncflg
    BY <1>13 DEF SkipLine
  <2>2. syncflg /\ pos <= at
    BY <1>4, <2>1 DEF Ahead
  <2>3. pos # at
    BY <1>3, <1>13, <2>2 DEF SkipLine
  <2>4. pos' <= at
    BY <1>2, <1>3, <2>1, <2>2, <2>3
  <2> QED
    BY <2>1, <2>2, <2>4 DEF Ahead
<1>14. CASE Rescan
  BY <1>2, <1>3, <1>4, <1>14 DEF Rescan, Ahead
<1>15. CASE GiveUp
  BY <1>2, <1>3, <1>4, <1>15 DEF GiveUp, AtEnd, Ahead
<1> QED
  BY <1>6, <1>7, <1>8, <1>9, <1>10, <1>11, <1>12, <1>13, <1>14, <1>15
     DEF RbNext, Reads

LEMMA SmoothStep == RbInv /\ [RbNext]_rbVars => Smooth'
<1> SUFFICES ASSUME RbInv, [RbNext]_rbVars PROVE Smooth'
  OBVIOUS
<1>1. CASE UNCHANGED rbVars
  BY <1>1 DEF rbVars, RbInv, Smooth, Undamaged, Intact
<1> SUFFICES ASSUME RbNext PROVE Smooth'
  BY <1>1
<1>2. /\ rbatch \in Seq(BatchLines) /\ RbOrder /\ Smooth
      /\ pos \in Where /\ header \in Nat /\ refused \in Nat
      /\ Len(rbatch) \in Nat /\ rbatch' = rbatch /\ refused' >= refused
  BY Keeps, RbmailAssumption DEF RbInv, RbTypeOK, Where
<1>3. CASE refused' # 0 \/ ~Undamaged
  BY <1>3, Keeps DEF Smooth
<1> SUFFICES ASSUME refused' = 0, Undamaged PROVE Smooth'
  BY <1>3
<1>4. /\ refused = 0 /\ err = {} /\ returned = 0 /\ rbpc # "resync"
      /\ rbpc = "header" => pos = Len(rbatch) + 1 \/ rbatch[pos].n = 0
      /\ rbpc \in {"parse", "body"} => rbatch[header].n = 0
      /\ rbpc = "rmail" =>
             agrees /\ (pos = Len(rbatch) + 1 \/ rbatch[pos].n = 0)
  BY <1>2 DEF Smooth
<1>5. ASSUME rbpc \in {"parse", "body"}
      PROVE  /\ header \in DOMAIN rbatch /\ pos = header + 1
             /\ \E k \in MailIds : Intact(k, header)
  <2>1. header \in DOMAIN rbatch /\ pos = header + 1
    BY <1>2, <1>5 DEF RbOrder, Where
  <2> QED
    BY <1>2, <1>4, <1>5, <2>1, StartsHere
<1>6. CASE NextHeader
  BY <1>2, <1>4, <1>6 DEF NextHeader, AtEnd, Smooth, Where
<1>7. CASE GoodHeader
  BY <1>4, <1>7 DEF GoodHeader, Smooth
<1>8. CASE BadHeader
  <2>1. rbpc = "parse" /\ rbatch[header].kind # "header"
    BY <1>8 DEF BadHeader
  <2> QED
    BY <1>2, <1>5, <2>1, IntactLines DEF BatchLine
<1>9. CASE TakeMail
  <2>1. /\ rbpc = "body" /\ rbpc' = "rmail"
        /\ UNCHANGED <<err, returned>>
    BY <1>9 DEF TakeMail
  <2>2. PICK k \in MailIds : Intact(k, header)
    BY <1>5, <2>1
  <2>3. agrees' /\ pos' = header + Lengths[k] + 1 /\ pos' \in Where
    BY <1>9, <2>2, Taking
  <2>4. ASSUME pos' # Len(rbatch) + 1 PROVE rbatch[pos'].n = 0
    <3>1. pos' \in DOMAIN rbatch
      BY <1>2, <2>3, <2>4, BodyLines DEF Where
    <3>2. header \in DOMAIN rbatch
      BY <1>5, <2>1
    <3>3. ASSUME NEW i \in DOMAIN rbatch, i = header + Lengths[k] + 1
          PROVE  rbatch[i].n = 0
      BY <1>2, <2>2, <3>2, <3>3, NextStart
    <3> QED
      BY <2>3, <3>1, <3>3
  <2> QED
    BY <1>2, <1>4, <2>1, <2>3, <2>4 DEF Smooth
<1>10. CASE NoMail
  <2>1. rbpc = "body" /\ pos > Len(rbatch)
    BY <1>10 DEF NoMail, AtEnd
  <2>2. PICK k \in MailIds : Intact(k, header)
    BY <1>5, <2>1
  <2> QED
    BY <1>2, <1>5, <2>1, <2>2, IntactLines, BodyLines
<1>11. CASE HandOver
  BY <1>2, <1>4, <1>11 DEF HandOver, Smooth
<1>12. CASE RmailFails
  BY <1>2, <1>12 DEF RmailFails
<1>13. CASE SkipLine \/ Rescan \/ GiveUp
  BY <1>4, <1>13 DEF SkipLine, Rescan, GiveUp
<1> QED
  BY <1>6, <1>7, <1>8, <1>9, <1>10, <1>11, <1>12, <1>13 DEF RbNext, Reads

\* The invariant that is inductive.
LEMMA RbInvAlways == RbSpec => []RbInv
<1>1. RbInv /\ [RbNext]_rbVars => RbInv'
  BY RbTypeStep, RbOrderStep, AtRmailStep, CoveredStep, AheadStep, SmoothStep
     DEF RbInv
<1> QED
  BY InitRbInv, <1>1, PTL DEF RbSpec

\* No mail of a batch that arrived as it was sent is lost, cut or delivered
\* twice, whatever has happened to the rest of the batch; and a batch is deleted
\* only if each line of it is in a mail or in the .ERR file (rbmail).  Left out by
\* name are what comes from a ^Z on, and a mail's empty first line: the code does
\* not give them to rmail and takes the mail for delivered.
THEOREM BatchIsSafe == RbSpec => []BatchSafe
<1>1. RbInv => BatchSafe
  <2> SUFFICES ASSUME RbInv PROVE IntactDelivered
    BY DEF RbInv, BatchSafe
  <2> QED
    BY DEF RbInv, IntactDelivered, AllAhead, Ahead, Smooth
<1> QED
  BY RbInvAlways, <1>1, PTL

=============================================================================
