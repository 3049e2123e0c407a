----------------------------- MODULE XferProofs -----------------------------
(***************************************************************************)
(* Proofs about Xfer: whatever drops, crashes or fails, no file is lost or *)
(* damaged, and the two hosts agree on whose turn it is (NothingIsLost,    *)
(* XferInv); Xfer implements Delivery (PromiseIsKept); a host takes the    *)
(* turn only for a job it has not tried, or one that no try can finish     *)
(* (NoIdleTurns); and files arrive in the order of their work file, once   *)
(* more only for a session that failed (InOrderAndOnce).                   *)
(***************************************************************************)
EXTENDS Xfer, SequenceTheorems, TLAPS

\* Two files have temporary files of their own.
OwnTemps == \A f, g \in Files : Tmp[f] = Tmp[g] => f = g

\* The host f is sent from: the one that has the job for a file to send, the
\* other for a file asked for.
Giver(f) == IF \E r \in Requests(JobOf(f)) : r.file = f /\ r.type = "S"
            THEN At[JobOf(f)] ELSE Other(At[JobOf(f)])

Gone == {"endp", "closing", "over"}
Busy(h) == p[h].state \notin Gone
Transfer == {"senddata", "sendeof", "eofreply", "recvdata", "recveof"}
Chosen   == {"request", "putfile", "putreply", "getfile", "getreply"}
Working  == Transfer \cup {"putfile", "putreply", "getfile", "getreply", "takefile", "givefile"}
Giving   == {"putfile", "putreply", "givefile", "senddata", "sendeof", "eofreply"}

Arrived(f) == place[f] = Whole(f) /\ delivered[f] > 0
Done(f)    == Arrived(f) \/ f \in refused
Kept(f)    == f \in src /\ JobOf(f) \in queue

-----------------------------------------------------------------------------
(***************************************************************************)
(* One process.                                                            *)
(***************************************************************************)
Roles(h) ==
    LET q == p[h] IN
    /\ q.state \in Chosen \cup {"nextjob", "nolocal", "breakreply"} => q.master
    /\ q.state \in {"recvhdr", "takefile", "givefile", "noremote", "chkreply"} => ~q.master
    /\ q.job # None <=> q.state \in Chosen \/ (q.state \in Transfer /\ q.master)
    /\ q.job # None => q.job \in queue /\ At[q.job] = h /\ q.line <= Len(Lines[q.job])
    /\ \A j \in q.todo : At[j] = h
    /\ q.stream => q.state \in {"putreply", "senddata", "sendeof", "recvdata", "recveof"}
Work(h) ==
    LET q == p[h] IN
    q.state \in Working =>
       /\ q.file \in Files
       /\ q.master => q.line >= 1 /\ q.file = Lines[q.job][q.line].file
       /\ Giver(q.file) = IF q.state \in Giving THEN h ELSE Other(h)
       /\ q.state \in {"putreply", "senddata", "sendeof", "eofreply"} => q.file \in src
       /\ q.state \in {"takefile", "recvdata", "recveof"} => Kept(q.file)
       /\ q.state = "senddata" => q.pos < Size[q.file]
       /\ q.state = "sendeof" => q.pos = Size[q.file]
       /\ q.state \in {"getreply", "recvdata", "recveof"} => q.tmp = Tmp[q.file]
       /\ q.state \in {"recvdata", "recveof"} => temp[q.tmp] # None
       /\ q.state = "recveof" => temp[q.tmp] = Whole(q.file)
Holds(h) ==
    /\ p[h].tmp # None => \E f \in Files : p[h].tmp = Tmp[f] /\ Giver(f) = Other(h)
    /\ p[h].spool => p[h].tmp # None

\* The lines of the job that are behind the process.
Behind(h) ==
    LET q == p[h] IN
    q.job # None /\ ~q.errs =>
       \A n \in DOMAIN Lines[q.job] :
          n < q.line \/ (n = q.line /\ q.state = "request") => Done(Lines[q.job][n].file)

-----------------------------------------------------------------------------
(***************************************************************************)
(* What is on its way to a process that is in a session.                   *)
(***************************************************************************)
\* How many packets come before the other host's CLOSE.
Words(w) == IF w # <<>> /\ w[Len(w)].type = "CLOSE" THEN Len(w) - 1 ELSE Len(w)

\* A command for h.
Command(h, m) ==
    \/ m.type = "S" /\ m.file \in Files /\ Giver(m.file) = Other(h) /\ Kept(m.file)
    \/ m.type = "R" /\ m.file \in Files /\ Giver(m.file) = h
    \/ m.type = "H"

\* From the k-th packet on: the blocks of f after the first b, and its end.
Stream(w, k, b, f) ==
    \A i \in k..Words(w) :
       \/ /\ w[i].type = "data" /\ w[i].file = f
          /\ w[i].off = b + (i - k) + 1 /\ w[i].off <= Size[f]
       \/ w[i].type = "eof" /\ i = Words(w) /\ b + (i - k) = Size[f]

Mail(h) ==
    LET q == p[h]
        w == inb[h]
        n == Words(w)
    IN /\ q.state \notin Reading => n = 0
       /\ q.state = "putreply" => n <= 1 /\ (n = 1 => w[1].type \in {"SY", "SN"})
       /\ q.state = "getreply" =>
             /\ n >= 1 => \/ w[1].type = "RY" /\ q.file \in src
                          \/ w[1].type = "RN" /\ n = 1
             /\ Stream(w, 2, 0, q.file)
       /\ q.state = "eofreply" =>
             /\ n >= 1 => \/ w[1].type = "CY" /\ Arrived(q.file) /\ (q.master => n = 1)
                          \/ w[1].type = "CN" /\ n = 1
             /\ n <= 2 /\ (n = 2 => Command(h, w[2]))
       /\ q.state = "breakreply" =>
             /\ n >= 1 => \/ w[1].type = "HN"
                          \/ w[1].type = "HY" /\ n = 1
             /\ n <= 2 /\ (n = 2 => Command(h, w[2]))
       /\ q.state = "chkreply" => n <= 1 /\ (n = 1 => w[1].type = "HY")
       /\ q.state = "recvhdr" => n <= 1 /\ (n = 1 => Command(h, w[1]))
       /\ q.state = "recvdata" => Stream(w, 1, Len(temp[q.tmp]), q.file)

Closed(h) ==
    \A i \in DOMAIN inb[h] :
       inb[h][i].type = "CLOSE" => i = Len(inb[h]) /\ p[Other(h)].state \in {"closing", "over"}

-----------------------------------------------------------------------------
(***************************************************************************)
(* Whose turn it is, as long as both are in the session.  When the line    *)
(* has dropped, packets may be missing.                                    *)
(***************************************************************************)
Gets(h, k) == IF up THEN Len(inb[h]) = k ELSE Len(inb[h]) <= k
First(h, T) == inb[h] # <<>> => inb[h][1].type \in T

\* h has its turn when it has read what there is, k commands included.
Ready(h, k) ==
    \/ p[h].state = "recvhdr" /\ Gets(h, k)
    \/ p[h].state = "eofreply" /\ ~p[h].master /\ Gets(h, k + 1) /\ First(h, {"CY"})
    \/ p[h].state = "breakreply" /\ Gets(h, k + 1) /\ First(h, {"HN"})

Same(h) == p[h].file = p[Other(h)].file

\* h is the master and says what to do next.
Leads(h) ==
    /\ p[h].state \in {"nextjob", "request", "putfile", "getfile", "nolocal"}
    /\ Ready(Other(h), 0)

\* h has said it.
Asked(h, m) == \/ m.type = "S" /\ p[h].state = "putreply" /\ m.file = p[h].file
               \/ m.type = "R" /\ p[h].state = "getreply" /\ m.file = p[h].file
               \/ m.type = "H" /\ p[h].state = "breakreply"
Asks(h) ==
    /\ p[h].state \in {"putreply", "getreply", "breakreply"}
    /\ inb[h] = <<>> /\ Ready(Other(h), 1)
    /\ \A i \in DOMAIN inb[Other(h)] :
          inb[Other(h)][i].type \in {"S", "R", "H"} => Asked(h, inb[Other(h)][i])

\* h has read it, and is to answer.
Answers(h) ==
    /\ \/ p[h].state = "takefile" /\ p[Other(h)].state = "putreply" /\ Same(h)
       \/ p[h].state = "givefile" /\ p[Other(h)].state = "getreply" /\ Same(h)
       \/ p[h].state = "noremote" /\ p[Other(h)].state = "breakreply"
    /\ inb[Other(h)] = <<>>

\* h has answered.
Answered(h) ==
    /\ inb[h] = <<>> /\ Gets(Other(h), 1)
    /\ \/ /\ p[h].state = "recvhdr"
          /\ \/ p[Other(h)].state = "putreply" /\ First(Other(h), {"SN"})
             \/ p[Other(h)].state = "getreply" /\ First(Other(h), {"RN"})
             \/ p[Other(h)].state = "eofreply" /\ p[Other(h)].master /\ First(Other(h), {"CY"})
       \/ /\ p[h].state = "recvdata" /\ ~p[h].master /\ Same(h)
          /\ p[Other(h)].state = "putreply" /\ First(Other(h), {"SY"})
          /\ inb[Other(h)] # <<>> => inb[Other(h)][1].off = Len(temp[p[h].tmp])
       \/ p[h].state = "chkreply" /\ p[Other(h)].state = "breakreply" /\ First(Other(h), {"HY"})

\* h sends a file.
Sends(h) ==
    LET o == Other(h) IN
    /\ p[h].state \in {"senddata", "sendeof", "eofreply"} /\ inb[h] = <<>>
    /\ Same(h) /\ p[h].master # p[o].master
    /\ \/ p[o].state = "recveof" /\ p[h].state = "eofreply"
       \/ /\ p[o].state \in {"getreply", "recvdata"}
          /\ p[o].state = "getreply" => First(o, {"RY"})
          /\ \A i \in DOMAIN inb[o] : inb[o][i].type = "eof" => p[h].state = "eofreply"
          /\ up => IF p[h].state = "eofreply"
                   THEN inb[o] # <<>> /\ inb[o][Len(inb[o])].type = "eof"
                   ELSE p[h].pos = IF p[o].state = "getreply" THEN Len(inb[o]) - 1
                                   ELSE Len(temp[p[o].tmp]) + Len(inb[o])

Turns ==
    (\A h \in Hosts : Busy(h)) =>
       \E h \in Hosts : Leads(h) \/ Asks(h) \/ Answers(h) \/ Answered(h) \/ Sends(h)

-----------------------------------------------------------------------------
Temporary == \A f \in Files : temp[Tmp[f]] \in {None} \cup Prefixes(f)
Sources   == \A f \in Files \ src : Arrived(f)

XferInv ==
    /\ TypeOK /\ Temporary /\ Sources /\ NothingLost /\ Intact
    /\ \A h \in Hosts : /\ Roles(h) /\ Work(h) /\ Holds(h) /\ Behind(h) /\ Closed(h)
                        /\ Busy(h) => Mail(h)
    /\ Turns

-----------------------------------------------------------------------------
(***************************************************************************)
(* The constants.                                                          *)
(***************************************************************************)
Packet == [type : Types, file : Files \cup {None}, off : Nat]

LEMMA HostFacts ==
    /\ Caller \in Hosts /\ Answerer \in Hosts
    /\ \A h \in Hosts : /\ Other(h) \in Hosts /\ Other(h) # h /\ Other(Other(h)) = h
                        /\ \A x \in Hosts : x = h \/ x = Other(h)
  BY XferAssumption DEF XferConstants, HostsAssumption, Hosts, Other

\* Size and Tmp are functions, and None is none of the values.
LEMMA Constants ==
    /\ Size \in [Files -> Nat] /\ Tmp \in [Files -> Temps]
    /\ At \in [Jobs -> Hosts]
    /\ None \notin Files /\ None \notin Jobs /\ None \notin Temps
    /\ None \notin Seq([file : Files, off : Nat])
    /\ MaxFaults \in Nat /\ Resend \subseteq BOOLEAN /\ Later \subseteq Jobs
  BY XferAssumption
  DEF XferConstants, FilesAssumption, JobsAssumption, BoundsAssumption

\* A line of a work file names one file, and no other line names it.
LEMMA LineFacts ==
  ASSUME NEW j \in Jobs, NEW n \in DOMAIN Lines[j]
  PROVE  /\ n \in 1..Len(Lines[j]) /\ Len(Lines[j]) \in Nat
         /\ Lines[j][n].file \in Files /\ Lines[j][n].type \in {"S", "R"}
         /\ JobOf(Lines[j][n].file) = j
         /\ Giver(Lines[j][n].file) =
               IF Lines[j][n].type = "S" THEN At[j] ELSE Other(At[j])
         /\ \A m \in DOMAIN Lines[j] : Lines[j][m].file = Lines[j][n].file => m = n
  <1> DEFINE f == Lines[j][n].file
             Line == [type : {"S", "R"}, file : Files]
  <1>1. \A k \in Jobs : Lines[k] \in Seq(Line)
    BY XferAssumption DEF XferConstants, JobsAssumption
  <1>2. \A k \in Jobs : /\ DOMAIN Lines[k] = 1..Len(Lines[k]) /\ Len(Lines[k]) \in Nat
                        /\ \A m \in DOMAIN Lines[k] : Lines[k][m] \in Line
    BY ZenonT(40), <1>1, LenProperties, ElementOfSeq
  <1>3. \A k \in Jobs : \A r : r \in Requests(k) <=> \E m \in DOMAIN Lines[k] : r = Lines[k][m]
    BY DEF Requests, Range
  <1>4. \A k \in Jobs, m \in DOMAIN Lines[j] : \A i \in DOMAIN Lines[k] :
           Lines[j][m].file = Lines[k][i].file => j = k /\ m = i
    BY XferAssumption DEF XferConstants, JobsAssumption
  <1>5. Lines[j][n] \in Line /\ f \in Files /\ Lines[j][n].type \in {"S", "R"}
    BY <1>2
  <1>6. \E k \in Jobs : \E r \in Requests(k) : r.file = f
    BY <1>3
  <1>7. JobOf(f) \in Jobs /\ \E r \in Requests(JobOf(f)) : r.file = f
    BY <1>6 DEF JobOf
  <1>8. JobOf(f) = j
    <2> HIDE DEF f
    <2> PICK r \in Requests(JobOf(f)) : r.file = f
      BY <1>7
    <2> PICK m \in DOMAIN Lines[JobOf(f)] : r = Lines[JobOf(f)][m]
      BY <1>3, <1>7
    <2> QED
      BY <1>4, <1>7 DEF f
  <1>9. \A r \in Requests(j) : r.file = f => r = Lines[j][n]
    BY <1>3, <1>4
  <1>10. Lines[j][n] \in Requests(j)
    BY <1>3
  <1>11. (\E r \in Requests(JobOf(f)) : r.file = f /\ r.type = "S") <=> Lines[j][n].type = "S"
    BY <1>8, <1>9, <1>10
  <1>12. Giver(f) = IF Lines[j][n].type = "S" THEN At[j] ELSE Other(At[j])
    BY <1>8, <1>11 DEF Giver
  <1> QED
    BY <1>2, <1>4, <1>5, <1>8, <1>12

\* Every file is in a line of its work file.
LEMMA FileFacts ==
  ASSUME NEW f \in Files
  PROVE  /\ JobOf(f) \in Jobs /\ Giver(f) \in Hosts
         /\ \E n \in DOMAIN Lines[JobOf(f)] : Lines[JobOf(f)][n].file = f
  <1>1. PICK j \in Jobs : \E r \in Requests(j) : r.file = f
    BY XferAssumption DEF XferConstants, JobsAssumption
  <1>2. JobOf(f) \in Jobs /\ \E r \in Requests(JobOf(f)) : r.file = f
    BY <1>1 DEF JobOf
  <1>3. \E n \in DOMAIN Lines[JobOf(f)] : Lines[JobOf(f)][n].file = f
    BY <1>2 DEF Requests, Range
  <1>4. Giver(f) \in Hosts
    BY <1>2, Constants, HostFacts DEF Giver
  <1> QED
    BY <1>2, <1>3, <1>4

\* The parts of a file.
LEMMA PartFacts ==
  ASSUME NEW f \in Files
  PROVE  /\ Whole(f) \in Seq([file : Files, off : Nat]) /\ Len(Whole(f)) = Size[f]
         /\ Size[f] \in Nat
         /\ \A n \in 1..Size[f] : Whole(f)[n] = Block(f, n)
         /\ Whole(f) \in Prefixes(f)
         /\ \A w \in Prefixes(f) :
               /\ w \in Seq([file : Files, off : Nat]) /\ Len(w) \in 0..Size[f]
               /\ \A i \in 1..Len(w) : w[i] = Block(f, i)
               /\ w = SubSeq(Whole(f), 1, Len(w))
               /\ Len(w) = Size[f] => w = Whole(f)
  <1> DEFINE B == [file : Files, off : Nat]
  <1>1. Size[f] \in Nat
    BY Constants
  <1>2. \A n \in 1..Size[f] : Block(f, n) \in B
    BY <1>1 DEF Block
  <1>3. Whole(f) \in [1..Size[f] -> B]
    BY <1>2 DEF Whole
  <1>4. Whole(f) \in Seq(B) /\ Len(Whole(f)) = Size[f]
    <2>1. Whole(f) \in Seq(B)
      BY <1>1, <1>3, SeqDef
    <2>2. DOMAIN Whole(f) = 1..Size[f]
      BY <1>3
    <2>3. 1..Size[f] = 1..Len(Whole(f)) /\ Len(Whole(f)) \in Nat
      BY <2>1, <2>2, LenProperties
    <2> QED
      BY <2>1, <2>3, <1>1
  <1>5. \A n \in 1..Size[f] : Whole(f)[n] = Block(f, n)
    BY DEF Whole
  <1>6. \A n \in 0..Size[f] :
           /\ SubSeq(Whole(f), 1, n) \in Seq(B) /\ Len(SubSeq(Whole(f), 1, n)) = n
           /\ \A i \in 1..n : SubSeq(Whole(f), 1, n)[i] = Block(f, i)
    <2> TAKE n \in 0..Size[f]
    <2>1. n \in Nat /\ n <= Size[f]
      BY <1>1
    <2>2. \A i \in 1..n : i \in 1..Size[f] /\ Whole(f)[i] \in B
      BY <2>1, <1>1, <1>3
    <2>3. /\ SubSeq(Whole(f), 1, n) \in Seq(B)
          /\ Len(SubSeq(Whole(f), 1, n)) = IF 1 <= n THEN n - 1 + 1 ELSE 0
          /\ \A i \in 1..(n - 1 + 1) : SubSeq(Whole(f), 1, n)[i] = Whole(f)[1 + i - 1]
      BY <2>1, <2>2, SubSeqProperties
    <2>4. n - 1 + 1 = n /\ \A i \in 1..n : 1 + i - 1 = i
      BY <2>1
    <2> QED
      BY <2>1, <2>2, <2>3, <2>4, <1>5
  <1>7. SubSeq(Whole(f), 1, Size[f]) = Whole(f)
    BY <1>4, SubSeqFull
  <1>8. Size[f] \in 0..Size[f]
    BY <1>1
  <1>9. Whole(f) \in Prefixes(f)
    BY <1>7, <1>8 DEF Prefixes
  <1>10. ASSUME NEW w \in Prefixes(f)
         PROVE  /\ w \in Seq(B) /\ Len(w) \in 0..Size[f]
                /\ \A i \in 1..Len(w) : w[i] = Block(f, i)
                /\ w = SubSeq(Whole(f), 1, Len(w))
                /\ Len(w) = Size[f] => w = Whole(f)
    <2> PICK n \in 0..Size[f] : w = SubSeq(Whole(f), 1, n)
      BY DEF Prefixes
    <2> QED
      BY <1>6, <1>7
  <1> QED
    BY <1>1, <1>4, <1>5, <1>9, <1>10

\* A part of a part is a part, and so is a part with the next block.
LEMMA PrefixFacts ==
  ASSUME NEW f \in Files, NEW w \in Prefixes(f)
  PROVE  /\ <<>> \in Prefixes(f)
         /\ \A n \in 0..Len(w) : SubSeq(w, 1, n) \in Prefixes(f)
         /\ Len(w) < Size[f] => Append(w, Block(f, Len(w) + 1)) \in Prefixes(f)
  <1> DEFINE B == [file : Files, off : Nat]
  <1>1. /\ Whole(f) \in Seq(B) /\ Len(Whole(f)) = Size[f] /\ Size[f] \in Nat
        /\ \A n \in 1..Size[f] : Whole(f)[n] = Block(f, n)
        /\ w \in Seq(B) /\ Len(w) \in 0..Size[f]
        /\ \A i \in 1..Len(w) : w[i] = Block(f, i)
    BY PartFacts
  <1>2. ASSUME NEW n \in 0..Size[f], NEW v \in Seq(B), Len(v) = n,
               \A i \in 1..n : v[i] = Block(f, i)
        PROVE  v \in Prefixes(f)
    <2>1. \A i \in 1..n : i \in 1..Size[f] /\ Whole(f)[i] \in B
      <3>1. \A i \in 1..n : i \in 1..Size[f]
        BY <1>1
      <3>2. \A i \in 1..Len(Whole(f)) : Whole(f)[i] \in B
        BY <1>1, ElementOfSeq
      <3> QED
        BY <3>1, <3>2, <1>1
    <2>2. n \in Int /\ 1 \in Int
      OBVIOUS
    <2>3. /\ SubSeq(Whole(f), 1, n) \in Seq(B)
          /\ Len(SubSeq(Whole(f), 1, n)) = IF 1 <= n THEN n - 1 + 1 ELSE 0
          /\ \A i \in 1..(n - 1 + 1) : SubSeq(Whole(f), 1, n)[i] = Whole(f)[1 + i - 1]
      BY <2>1, <2>2, SubSeqProperties
    <2>4. n - 1 + 1 = n /\ \A i \in 1..n : 1 + i - 1 = i
      BY <2>2
    <2>5. /\ Len(SubSeq(Whole(f), 1, n)) = n
          /\ \A i \in 1..n : SubSeq(Whole(f), 1, n)[i] = Block(f, i)
      BY <2>1, <2>3, <2>4, <1>1
    <2>6. v = SubSeq(Whole(f), 1, n)
      BY <1>2, <2>3, <2>5, SeqEqual
    <2> QED
      BY <2>6 DEF Prefixes
  <1>3. <<>> \in Prefixes(f)
    <2>1. <<>> \in Seq(B) /\ Len(<<>>) = 0 /\ 0 \in 0..Size[f] /\ 1..0 = {}
      BY <1>1, EmptySeq
    <2> QED
      BY <1>2, <2>1
  <1>4. ASSUME NEW n \in 0..Len(w) PROVE SubSeq(w, 1, n) \in Prefixes(f)
    <2>1. n \in 0..Size[f] /\ n \in Int /\ 1 \in Int
      BY <1>1
    <2>2. \A i \in 1..n : i \in 1..Len(w) /\ w[i] \in B
      <3>1. \A i \in 1..n : i \in 1..Len(w)
        BY <1>1
      <3>2. \A i \in 1..Len(w) : w[i] \in B
        BY <1>1, ElementOfSeq
      <3> QED
        BY <3>1, <3>2
    <2>3. /\ SubSeq(w, 1, n) \in Seq(B)
          /\ Len(SubSeq(w, 1, n)) = IF 1 <= n THEN n - 1 + 1 ELSE 0
          /\ \A i \in 1..(n - 1 + 1) : SubSeq(w, 1, n)[i] = w[1 + i - 1]
      BY <2>1, <2>2, SubSeqProperties
    <2>4. n - 1 + 1 = n /\ \A i \in 1..n : 1 + i - 1 = i
      BY <2>1
    <2>5. /\ Len(SubSeq(w, 1, n)) = n
          /\ \A i \in 1..n : SubSeq(w, 1, n)[i] = Block(f, i)
      BY <2>1, <2>2, <2>3, <2>4, <1>1
    <2> QED
      BY <1>2, <2>1, <2>3, <2>5
  <1>5. ASSUME Len(w) < Size[f] PROVE Append(w, Block(f, Len(w) + 1)) \in Prefixes(f)
    <2> DEFINE n == Len(w) + 1
               v == Append(w, Block(f, n))
    <2>1. n \in 0..Size[f] /\ n \in Nat /\ \A i \in 1..n : i \in 1..Len(w) \/ i = n
      BY <1>1, <1>5
    <2>2. Block(f, n) \in B
      BY <2>1 DEF Block
    <2>3. /\ v \in Seq(B) /\ Len(v) = n /\ v[n] = Block(f, n)
          /\ \A i \in 1..Len(w) : v[i] = w[i]
      BY <2>2, <1>1, AppendProperties
    <2>4. \A i \in 1..n : v[i] = Block(f, i)
      BY <2>1, <2>3, <1>1
    <2> HIDE DEF n, v
    <2>5. v \in Prefixes(f)
      BY <1>2, <2>1, <2>3, <2>4
    <2> QED
      BY <2>5 DEF n, v
  <1> QED
    BY <1>3, <1>4, <1>5

-----------------------------------------------------------------------------
(***************************************************************************)
(* One step of one process.                                                *)
(***************************************************************************)
\* q can be h's memory.
Fit(h, q) ==
    /\ q \in Process
    /\ q.tmp # None => \E f \in Files : q.tmp = Tmp[f] /\ Giver(f) = Other(h)
    /\ q.spool => q.tmp # None
    /\ \A j \in q.todo : At[j] = h
    /\ q.file # None => q.pos <= Size[q.file]

LEMMA FitNow ==
  ASSUME XferInv, NEW h \in Hosts
  PROVE  Fit(h, p[h])
  BY DEF XferInv, TypeOK, Fit, Roles, Holds

\* q is out of the session.
Quits(q) == q.state \in Gone /\ q.job = None /\ ~q.stream

LEMMA Quitting ==
  ASSUME NEW h \in Hosts, NEW q, Fit(h, q)
  PROVE  /\ Fit(h, Lost(q)) /\ Quits(Lost(q)) /\ Lost(q).state = "over"
         /\ Fit(h, Abort(q)) /\ Quits(Abort(q)) /\ Abort(q).state = "endp"
  <1>1. Fit(h, Lost(q)) /\ Quits(Lost(q)) /\ Lost(q).state = "over"
    <2>1. Lost(q) \in Process
      BY DEF Fit, Lost, Process, States, Statuses
    <2>2. /\ Lost(q).state = "over" /\ Lost(q).job = None /\ ~Lost(q).stream
          /\ Lost(q).tmp = q.tmp /\ Lost(q).spool = q.spool /\ Lost(q).todo = q.todo
          /\ Lost(q).file = q.file /\ Lost(q).pos = q.pos
      BY DEF Fit, Lost, Process
    <2> QED
      BY <2>1, <2>2 DEF Fit, Quits, Gone
  <1>2. Fit(h, Abort(q))
    <2>1. Abort(q) = [Lost(q) EXCEPT !.state = "endp", !.aborted = TRUE]
      BY DEF Fit, Abort, Lost, Process
    <2>2. Lost(q) \in Process
      BY <1>1 DEF Fit
    <2>3. Abort(q) \in Process
      BY <2>1, <2>2 DEF Process, States
    <2> QED
      BY <2>3 DEF Fit, Abort
  <1>3. Quits(Abort(q)) /\ Abort(q).state = "endp"
    BY DEF Fit, Quits, Abort, Gone, Process
  <1> QED
    BY <1>1, <1>2, <1>3

\* r is q, with the next request.
Finishes(r, q) ==
    /\ r.state = IF q.master THEN "request" ELSE "recvhdr"
    /\ r.master = q.master /\ r.job = q.job /\ r.line = q.line /\ r.errs = q.errs
    /\ r.todo = q.todo /\ r.stream = q.stream /\ r.file = None

LEMMA Finishing ==
  ASSUME NEW h \in Hosts, NEW q, Fit(h, q)
  PROVE  Fit(h, FileDone(q)) /\ Finishes(FileDone(q), q)
  BY DEF Fit, Finishes, FileDone, Process, States, Reading

\* r is q with n blocks of f in the buffer or sent.
Starts(r, q, f, n) ==
    /\ r.state = IF n = Size[f] THEN "sendeof" ELSE "senddata"
    /\ r.master = q.master /\ r.job = q.job /\ r.line = q.line /\ r.errs = q.errs
    /\ r.todo = q.todo /\ r.stream /\ r.file = f /\ r.pos = n

LEMMA Starting ==
  ASSUME NEW h \in Hosts, NEW q, Fit(h, q), NEW f \in Files, q.file = f,
         NEW n \in 0..Size[f]
  PROVE  Fit(h, StartSending(q, f, n)) /\ Starts(StartSending(q, f, n), q, f, n)
  <1>1. n \in Nat /\ n <= Size[f]
    BY Constants
  <1> QED
    BY ZenonT(40), <1>1 DEF Fit, Starts, StartSending, Process, States, Reading

\* The master and the slave.
LEMMA Turning ==
  ASSUME TypeOK, NEW h \in Hosts, NEW q, Fit(h, q)
  PROVE  /\ Fit(h, Master(q, h)) /\ Fit(h, Slave(q))
         /\ Master(q, h).state = "nextjob" /\ Master(q, h).master
         /\ Master(q, h).job = q.job /\ Master(q, h).stream = q.stream
         /\ Slave(q).state = "recvhdr" /\ ~Slave(q).master
         /\ Slave(q).job = q.job /\ Slave(q).stream = q.stream
  <1>1. Mine(h) \subseteq Jobs /\ \A j \in Mine(h) : At[j] = h
    BY DEF TypeOK, Mine
  <1>2. Master(q, h) \in Process /\ Slave(q) \in Process
    BY <1>1 DEF Fit, Master, Slave, Process, States, Reading
  <1>3. /\ Master(q, h).state = "nextjob" /\ Master(q, h).master
        /\ Master(q, h).job = q.job /\ Master(q, h).stream = q.stream
        /\ Master(q, h).tmp = q.tmp /\ Master(q, h).spool = q.spool
        /\ Master(q, h).todo = Mine(h)
        /\ Master(q, h).file = q.file /\ Master(q, h).pos = q.pos
    BY DEF Fit, Master, Process
  <1>4. /\ Slave(q).state = "recvhdr" /\ ~Slave(q).master
        /\ Slave(q).job = q.job /\ Slave(q).stream = q.stream
        /\ Slave(q).tmp = q.tmp /\ Slave(q).spool = q.spool /\ Slave(q).todo = q.todo
        /\ Slave(q).file = q.file /\ Slave(q).pos = q.pos
    BY DEF Fit, Slave, Process
  <1> QED
    BY <1>1, <1>2, <1>3, <1>4 DEF Fit

\* What there is of a process, apart from the session.
Self(h) == Roles(h) /\ Work(h) /\ Holds(h) /\ Behind(h)

LEMMA Becoming ==
  ASSUME TypeOK, NEW h \in Hosts, NEW q, Fit(h, q), become(h, q)
  PROVE  /\ p'[h] = q /\ p'[Other(h)] = p[Other(h)] /\ p' \in [Hosts -> Process]
         /\ Holds(h)'
  <1>1. p'[h] = q /\ p'[Other(h)] = p[Other(h)] /\ p' \in [Hosts -> Process]
    BY HostFacts DEF TypeOK, become, Fit
  <1> QED
    BY <1>1 DEF Holds, Fit

\* A process that leaves the session: nothing else is to be shown of it.
LEMMA Leaves ==
  ASSUME TypeOK, NEW h \in Hosts, NEW q, Fit(h, q), Quits(q), become(h, q)
  PROVE  Self(h)' /\ ~Busy(h)' /\ Turns'
  <1>1. p'[h] = q /\ q \in Process /\ Holds(h)'
    BY Becoming DEF Fit
  <1>2. ~Busy(h)' /\ Turns'
    BY <1>1 DEF Quits, Busy, Turns
  <1>3. Roles(h)'
    BY <1>1, Constants DEF Quits, Fit, Roles, Gone, Chosen, Transfer
  <1>4. Work(h)'
    BY <1>1 DEF Quits, Work, Gone, Working, Transfer
  <1>5. Behind(h)'
    BY <1>1 DEF Quits, Behind
  <1> QED
    BY <1>1, <1>2, <1>3, <1>4, <1>5 DEF Self

\* The other host's own state when h moves: what it holds is still there.
LEMMA Undisturbed ==
  ASSUME NEW h \in Hosts, Self(h), p'[h] = p[h],
         p[h].job # None => p[h].job \in queue',
         p[h].state \in {"putreply", "senddata", "sendeof", "eofreply"} /\ p[h].file \in src
            => p[h].file \in src',
         p[h].state \in {"takefile", "recvdata", "recveof"} /\ Kept(p[h].file)
            => Kept(p[h].file)',
         p[h].state \in {"recvdata", "recveof"} => temp'[p[h].tmp] = temp[p[h].tmp],
         p[h].job # None /\ ~p[h].errs =>
            \A n \in DOMAIN Lines[p[h].job] :
               (n < p[h].line \/ (n = p[h].line /\ p[h].state = "request"))
               /\ Done(Lines[p[h].job][n].file) => Done(Lines[p[h].job][n].file)'
  PROVE  Self(h)'
  <1>1. Roles(h)'
    BY DEF Self, Roles
  <1>2. Work(h)'
    <2>1. p[h].state \in {"takefile", "recvdata", "recveof"} =>
             p[h].file \in src' /\ JobOf(p[h].file) \in queue'
      <3>1. p[h].state \in {"takefile", "recvdata", "recveof"} => Kept(p[h].file)
        BY DEF Self, Work, Working, Transfer
      <3> QED
        BY <3>1 DEF Kept
    <2> QED
      BY <2>1 DEF Self, Work, Kept, Working, Giving, Transfer
  <1>3. Holds(h)'
    BY DEF Self, Holds
  <1>4. Behind(h)'
    BY DEF Self, Behind, Done, Arrived
  <1> QED
    BY <1>1, <1>2, <1>3, <1>4 DEF Self

DiskTypes ==
    /\ queue \subseteq Jobs /\ src \subseteq Files
    /\ temp \in [Temps -> Contents] /\ place \in [Files -> Contents]
    /\ later \subseteq Later /\ faults \in 0..MaxFaults
    /\ delivered \in [Files -> Nat] /\ refused \subseteq Files
FilesOK == Temporary /\ Sources /\ NothingLost /\ Intact

StillKept(f)    == f \in src' /\ JobOf(f) \in queue'
StillArrived(f) == place'[f] = Whole(f) /\ delivered'[f] > 0
StillDone(f)    == StillArrived(f) \/ f \in refused'

\* What a step does to the files leaves h all it counts on.
MailKept(h) ==
    /\ \A i \in 1..Words(inb[h]) :
          inb[h][i].type = "S" /\ Kept(inb[h][i].file) => StillKept(inb[h][i].file)
    /\ p[h].state = "getreply" /\ p[h].file \in src => p[h].file \in src'
    /\ p[h].state = "eofreply" /\ Words(inb[h]) >= 1 /\ Arrived(p[h].file)
          => StillArrived(p[h].file)
    /\ p[h].state = "recvdata" => temp'[p[h].tmp] = temp[p[h].tmp]
Keeps(h) == DiskTypes' /\ FilesOK' /\ Self(h)' /\ (Busy(h) => MailKept(h))

\* Nothing happens to the files, but a sender may be told that one is refused.
QuietDisk ==
    /\ UNCHANGED <<disk, delivered>> /\ later' = later
    /\ refused \subseteq refused' /\ refused' \subseteq Files
    /\ faults' \in 0..MaxFaults

LEMMA QuietDiskFacts ==
  ASSUME TypeOK, FilesOK, QuietDisk, NEW h \in Hosts, Self(h), p'[h] = p[h]
  PROVE  /\ Keeps(h)
         /\ \A f : Kept(f)' = Kept(f) /\ Arrived(f)' = Arrived(f) /\ (Done(f) => Done(f)')
  <1>1. \A f : Kept(f)' = Kept(f) /\ Arrived(f)' = Arrived(f) /\ (Done(f) => Done(f)')
    BY DEF QuietDisk, disk, Kept, Arrived, Done
  <1>2. FilesOK'
    BY DEF QuietDisk, disk, FilesOK, Temporary, Sources, NothingLost, Intact, Arrived
  <1>3. Self(h)'
    <2>1. queue' = queue /\ src' = src /\ temp' = temp
      BY DEF QuietDisk, disk
    <2>2. p[h].job # None => p[h].job \in queue
      BY DEF Self, Roles
    <2>3. Kept(p[h].file) => Kept(p[h].file)'
      BY <2>1 DEF Kept
    <2>4. p[h].job # None /\ ~p[h].errs =>
            \A n \in DOMAIN Lines[p[h].job] :
               (n < p[h].line \/ (n = p[h].line /\ p[h].state = "request"))
               /\ Done(Lines[p[h].job][n].file) => Done(Lines[p[h].job][n].file)'
      BY DEF QuietDisk, disk, Arrived, Done
    <2> QED
      BY <2>1, <2>2, <2>3, <2>4, Undisturbed
  <1>4. DiskTypes'
    BY DEF QuietDisk, disk, DiskTypes, TypeOK
  <1>5. MailKept(h)
    BY DEF MailKept, QuietDisk, disk, Kept, StillKept, Arrived, StillArrived
  <1> QED
    BY <1>1, <1>2, <1>3, <1>4, <1>5 DEF Keeps

-----------------------------------------------------------------------------
(***************************************************************************)
(* What a step does to the packets under way.                              *)
(***************************************************************************)
InboxesOK == inb \in [Hosts -> Seq(Packet)]

LEMMA WordsFacts ==
  ASSUME NEW w \in Seq(Packet)
  PROVE  /\ Len(w) \in Nat /\ Words(w) \in Nat /\ Words(w) <= Len(w) /\ Len(w) <= Words(w) + 1
         /\ DOMAIN w = 1..Len(w) /\ (w = <<>> <=> Len(w) = 0)
         /\ \A i \in 1..Len(w) : w[i] \in Packet
         /\ w # <<>> => Head(w) = w[1]
         /\ w = <<>> => Words(w) = 0
         /\ w # <<>> /\ w[Len(w)].type # "CLOSE" => Words(w) = Len(w)
         /\ w # <<>> /\ w[Len(w)].type = "CLOSE" => Words(w) = Len(w) - 1
  <1>1. Len(w) \in Nat /\ DOMAIN w = 1..Len(w) /\ (w = <<>> <=> Len(w) = 0)
    BY LenProperties, EmptySeq
  <1>2. \A i \in 1..Len(w) : w[i] \in Packet
    BY ElementOfSeq
  <1>3. w # <<>> => Head(w) = w[1]
    OBVIOUS
  <1>4. w = <<>> => Words(w) = 0 /\ Len(w) = 0
    BY <1>1 DEF Words
  <1>5. w # <<>> => Len(w) >= 1
    BY <1>1
  <1>6. w # <<>> /\ w[Len(w)].type = "CLOSE" => Words(w) = Len(w) - 1
    BY DEF Words
  <1>7. w # <<>> /\ w[Len(w)].type # "CLOSE" => Words(w) = Len(w)
    BY DEF Words
  <1>8. Words(w) \in Nat /\ Words(w) <= Len(w) /\ Len(w) <= Words(w) + 1
    <2>1. CASE w = <<>>
      BY <2>1, <1>4
    <2>2. CASE w # <<>> /\ w[Len(w)].type = "CLOSE"
      BY <2>2, <1>1, <1>5, <1>6
    <2>3. CASE w # <<>> /\ w[Len(w)].type # "CLOSE"
      BY <2>3, <1>1, <1>7
    <2> QED
      BY <2>1, <2>2, <2>3
  <1> QED
    BY <1>1, <1>2, <1>3, <1>4, <1>6, <1>7, <1>8

\* A process does not come back to a session it has left.
Stays(h) == p[h].state \in {"closing", "over"} => p'[h].state \in {"closing", "over"}

LEMMA Unread ==
  ASSUME TypeOK, NEW h \in Hosts, UNCHANGED inb
  PROVE  /\ InboxesOK'
         /\ Closed(h) /\ p'[Other(h)] = p[Other(h)] => Closed(h)'
         /\ Closed(Other(h)) /\ Stays(h) => Closed(Other(h))'
  BY HostFacts DEF TypeOK, InboxesOK, Packet, Closed, Stays

LEMMA Popped ==
  ASSUME TypeOK, NEW h \in Hosts, Closed(h), inb[h] # <<>>, Head(inb[h]).type # "CLOSE",
         inb' = [inb EXCEPT ![h] = Tail(@)], p'[Other(h)] = p[Other(h)]
  PROVE  /\ InboxesOK' /\ inb'[Other(h)] = inb[Other(h)]
         /\ Head(inb[h]) = inb[h][1] /\ inb[h][1] \in Packet
         /\ Words(inb[h]) >= 1 /\ Len(inb[h]) >= 1
         /\ Words(inb'[h]) = Words(inb[h]) - 1 /\ Len(inb'[h]) = Len(inb[h]) - 1
         /\ \A i \in 1..Len(inb'[h]) : inb'[h][i] = inb[h][i + 1]
         /\ Closed(h)'
         /\ Closed(Other(h)) /\ Stays(h) => Closed(Other(h))'
  <1> DEFINE w == inb[h]
  <1>1. w \in Seq(Packet)
    BY DEF TypeOK, Packet
  <1>2. inb'[h] = Tail(w) /\ inb'[Other(h)] = inb[Other(h)]
    BY HostFacts DEF TypeOK
  <1>3. /\ Tail(w) \in Seq(Packet) /\ Len(Tail(w)) = Len(w) - 1
        /\ \A i \in 1..Len(Tail(w)) : Tail(w)[i] = w[i + 1]
    BY <1>1, HeadTailProperties
  <1>4. InboxesOK'
    BY <1>1, <1>3 DEF TypeOK, InboxesOK, Packet
  <1>5. /\ Len(w) \in Nat /\ Len(w) >= 1 /\ DOMAIN w = 1..Len(w) /\ Head(w) = w[1]
        /\ w[1] \in Packet
    BY <1>1, WordsFacts
  <1>6. DOMAIN Tail(w) = 1..(Len(w) - 1)
    BY <1>3, WordsFacts
  <1>7. ASSUME NEW i \in 1..(Len(w) - 1)
        PROVE  i + 1 \in 1..Len(w) /\ Tail(w)[i] = w[i + 1] /\ (i + 1 = Len(w) => i = Len(w) - 1)
    BY <1>3, <1>5
  <1>8. Closed(h)'
    BY <1>2, <1>3, <1>5, <1>6, <1>7 DEF Closed
  <1>9. Closed(Other(h)) /\ Stays(h) => Closed(Other(h))'
    BY <1>2, HostFacts DEF Closed, Stays
  <1>10. CASE Len(w) = 1
    <2>1. w[Len(w)].type # "CLOSE" /\ w # <<>>
      BY <1>5, <1>10
    <2>2. Words(w) = 1
      BY <1>1, <1>10, <2>1, WordsFacts
    <2>3. Tail(w) = <<>> /\ Words(Tail(w)) = 0
      <3>1. Len(Tail(w)) = 0
        BY <1>3, <1>10
      <3> QED
        BY <3>1, <1>3, WordsFacts
    <2> QED
      BY <1>2, <1>3, <1>4, <1>5, <1>8, <1>9, <1>10, <2>2, <2>3
  <1>11. CASE Len(w) > 1
    <2>1. Tail(w) # <<>> /\ Tail(w)[Len(Tail(w))] = w[Len(w)]
      <3>1. Len(w) - 1 \in 1..Len(Tail(w)) /\ (Len(w) - 1) + 1 = Len(w)
        BY <1>3, <1>5, <1>11
      <3>2. Tail(w)[Len(w) - 1] = w[Len(w)]
        BY <1>3, <3>1
      <3>3. Len(w) - 1 # 0
        <4> HIDE DEF w
        <4> QED
          BY <1>5, <1>11
      <3> QED
        BY <1>3, <3>1, <3>2, <3>3, WordsFacts
    <2>2. Words(Tail(w)) = Words(w) - 1 /\ Words(w) >= 1
      <3>1. CASE w[Len(w)].type = "CLOSE"
        <4>1. Words(w) = Len(w) - 1
          BY <1>1, <3>1, <1>5, WordsFacts
        <4>2. Words(Tail(w)) = Len(Tail(w)) - 1
          BY <1>3, <2>1, <3>1, WordsFacts
        <4> QED
          BY <4>1, <4>2, <1>3, <1>5, <1>11
      <3>2. CASE w[Len(w)].type # "CLOSE"
        <4>1. Words(w) = Len(w)
          BY <1>1, <3>2, <1>5, WordsFacts
        <4>2. Words(Tail(w)) = Len(Tail(w))
          BY <1>3, <2>1, <3>2, WordsFacts
        <4> QED
          BY <4>1, <4>2, <1>3, <1>5, <1>11
      <3> QED
        BY <3>1, <3>2
    <2> QED
      BY <1>2, <1>3, <1>4, <1>5, <1>8, <1>9, <2>2
  <1>12. Len(w) = 1 \/ Len(w) > 1
    <2> HIDE DEF w
    <2> QED
      BY <1>5
  <1> QED
    BY <1>10, <1>11, <1>12

LEMMA Posted ==
  ASSUME TypeOK, NEW h \in Hosts, Closed(h), Closed(Other(h)),
         p[h].state \notin {"closing", "over"}, NEW m \in Packet, post(h, m),
         p'[Other(h)] = p[Other(h)], m.type = "CLOSE" => p'[h].state = "closing"
  PROVE  /\ InboxesOK' /\ inb'[h] = inb[h]
         /\ Words(inb[Other(h)]) = Len(inb[Other(h)]) /\ Len(inb[Other(h)]) \in Nat
         /\ Len(inb'[Other(h)]) = Len(inb[Other(h)]) + 1
         /\ Words(inb'[Other(h)]) =
               IF m.type = "CLOSE" THEN Len(inb[Other(h)]) ELSE Len(inb[Other(h)]) + 1
         /\ \A i \in 1..Len(inb[Other(h)]) : inb'[Other(h)][i] = inb[Other(h)][i]
         /\ inb'[Other(h)][Len(inb[Other(h)]) + 1] = m
         /\ Closed(h)' /\ Closed(Other(h))'
  <1> DEFINE w == inb[Other(h)]
             v == Append(w, m)
  <1>1. w \in Seq(Packet)
    BY HostFacts DEF TypeOK, Packet
  <1>2. inb'[h] = inb[h] /\ inb'[Other(h)] = v
    BY HostFacts DEF TypeOK, post
  <1>3. /\ v \in Seq(Packet) /\ v # <<>> /\ Len(v) = Len(w) + 1
        /\ (\A i \in 1..Len(w) : v[i] = w[i]) /\ v[Len(w) + 1] = m
    BY <1>1, AppendProperties
  <1>4. inb' = [inb EXCEPT ![Other(h)] = v]
    BY DEF post
  <1>5. inb \in [Hosts -> Seq(Packet)] /\ Other(h) \in Hosts
    BY HostFacts DEF TypeOK, Packet
  <1>6. InboxesOK'
    BY <1>3, <1>4, <1>5 DEF InboxesOK
  <1>7. Len(w) \in Nat /\ DOMAIN w = 1..Len(w) /\ DOMAIN v = 1..(Len(w) + 1)
    BY <1>1, <1>3, WordsFacts
  <1>8. \A i \in 1..Len(w) : w[i].type # "CLOSE"
    BY <1>7, HostFacts DEF Closed
  <1>9. Words(w) = Len(w)
    BY <1>1, <1>7, <1>8, WordsFacts
  <1>10. Words(v) = IF m.type = "CLOSE" THEN Len(w) ELSE Len(w) + 1
    <2>1. v[Len(v)] = m
      BY <1>3
    <2>2. m.type = "CLOSE" => Words(v) = Len(v) - 1
      BY <2>1, <1>3, WordsFacts
    <2>3. m.type # "CLOSE" => Words(v) = Len(v)
      BY <2>1, <1>3, WordsFacts
    <2> QED
      BY <2>2, <2>3, <1>3, <1>7
  <1>11. Closed(h)'
    BY <1>2, HostFacts DEF Closed
  <1>12. Closed(Other(h))'
    <2>1. ASSUME NEW i \in 1..(Len(w) + 1), v[i].type = "CLOSE"
          PROVE  i = Len(v) /\ m.type = "CLOSE"
      BY <2>1, <1>3, <1>7, <1>8
    <2>2. \A i \in DOMAIN inb'[Other(h)] :
             inb'[Other(h)][i].type = "CLOSE" =>
                i = Len(inb'[Other(h)]) /\ p'[h].state \in {"closing", "over"}
      BY <2>1, <1>2, <1>7
    <2> QED
      BY <2>2, HostFacts DEF Closed
  <1> QED
    BY <1>2, <1>3, <1>6, <1>7, <1>9, <1>10, <1>11, <1>12

\* Mail stays good when only packets from its end or a CLOSE are gone or come.
LEMMA MailStays ==
  ASSUME InboxesOK, InboxesOK', NEW h \in Hosts, Mail(h), p'[h] = p[h],
         Words(inb'[h]) <= Words(inb[h]),
         \A i \in 1..Words(inb'[h]) : inb'[h][i] = inb[h][i],
         MailKept(h)
  PROVE  Mail(h)'
  <1> DEFINE w == inb[h]
             v == inb'[h]
  <1>1. Words(w) \in Nat /\ Words(v) \in Nat
    BY WordsFacts DEF InboxesOK
  <1>2. Words(v) <= Words(w) /\ \A i \in 1..Words(v) : v[i] = w[i] /\ i \in 1..Words(w)
    BY <1>1
  <1>3. ASSUME NEW k \in Nat, NEW b, NEW f, Stream(w, k, b, f), k >= 1
        PROVE  Stream(v, k, b, f)
    <2> SUFFICES ASSUME NEW i \in k..Words(v)
                 PROVE  \/ /\ v[i].type = "data" /\ v[i].file = f
                           /\ v[i].off = b + (i - k) + 1 /\ v[i].off <= Size[f]
                        \/ v[i].type = "eof" /\ i = Words(v) /\ b + (i - k) = Size[f]
      BY DEF Stream
    <2>1. i \in k..Words(w) /\ v[i] = w[i] /\ (i = Words(w) => i = Words(v))
      BY <1>1, <1>2, <1>3
    <2> QED
      BY <2>1, <1>3 DEF Stream
  <1>4. ASSUME NEW i, i <= Words(v), i \in {1, 2}
        PROVE  /\ v[i] = w[i] /\ i <= Words(w)
               /\ Words(w) = i => Words(v) = i
               /\ Command(h, w[i]) => Command(h, inb[h][i])'
    <2>1. i \in 1..Words(v) /\ i <= Words(w) /\ (Words(w) = i => Words(v) = i)
      BY <1>1, <1>2, <1>4
    <2>2. v[i] = w[i]
      BY <1>2, <2>1
    <2>3. i \in 1..Words(w)
      BY <1>1, <2>1
    <2>4. Command(h, w[i]) => Command(h, inb[h][i])'
      BY <2>2, <2>3 DEF Command, Kept, MailKept, StillKept
    <2> QED
      BY <2>1, <2>2, <2>4
  <1>5. \A k : (Words(w) <= k /\ k \in Nat => Words(v) <= k) /\ (Words(w) = 0 => Words(v) = 0)
    BY <1>1, <1>2
  <1>6. p[h].state \notin Reading => Words(v) = 0
    BY <1>5 DEF Mail
  <1>7. p[h].state = "putreply" => Words(v) <= 1 /\ (Words(v) = 1 => v[1].type \in {"SY", "SN"})
    <2> HIDE DEF v, w
    <2>1. Words(v) = 1 => v[1] = w[1] /\ Words(w) >= 1
      BY <1>1, <1>4 DEF v, w
    <2>2. p[h].state = "putreply" => Words(w) <= 1 /\ (Words(w) = 1 => w[1].type \in {"SY", "SN"})
      BY DEF Mail, w
    <2> QED
      BY <2>1, <2>2, <1>1, <1>5
  <1>8. p[h].state = "getreply" =>
             /\ Words(v) >= 1 => \/ v[1].type = "RY" /\ p[h].file \in src'
                                 \/ v[1].type = "RN" /\ Words(v) = 1
             /\ Stream(v, 2, 0, p[h].file)
    <2> SUFFICES ASSUME p[h].state = "getreply"
                 PROVE  /\ Words(v) >= 1 => \/ v[1].type = "RY" /\ p[h].file \in src'
                                            \/ v[1].type = "RN" /\ Words(v) = 1
                        /\ Stream(v, 2, 0, p[h].file)
      OBVIOUS
    <2>1. /\ Words(w) >= 1 => \/ w[1].type = "RY" /\ p[h].file \in src
                              \/ w[1].type = "RN" /\ Words(w) = 1
          /\ Stream(w, 2, 0, p[h].file)
      BY DEF Mail
    <2>2. Stream(v, 2, 0, p[h].file)
      <3>1. 2 \in Nat /\ 2 >= 1
        OBVIOUS
      <3> QED
        BY <2>1, <3>1, <1>3
    <2>3. Words(v) >= 1 => v[1] = w[1] /\ Words(w) >= 1 /\ (Words(w) = 1 => Words(v) = 1)
      <3> HIDE DEF v, w
      <3> QED
        BY <1>1, <1>4 DEF v, w
    <2> QED
      BY <2>1, <2>2, <2>3 DEF MailKept
  <1>9. p[h].state = "eofreply" =>
             /\ Words(v) >= 1 =>
                   \/ v[1].type = "CY" /\ Arrived(p[h].file)' /\ (p[h].master => Words(v) = 1)
                   \/ v[1].type = "CN" /\ Words(v) = 1
             /\ Words(v) <= 2 /\ (Words(v) = 2 => Command(h, inb[h][2])')
    <2> SUFFICES ASSUME p[h].state = "eofreply"
                 PROVE  /\ Words(v) >= 1 =>
                             \/ v[1].type = "CY" /\ Arrived(p[h].file)' /\ (p[h].master => Words(v) = 1)
                             \/ v[1].type = "CN" /\ Words(v) = 1
                        /\ Words(v) <= 2 /\ (Words(v) = 2 => Command(h, inb[h][2])')
      OBVIOUS
    <2>1. /\ Words(w) >= 1 =>
                   \/ w[1].type = "CY" /\ Arrived(p[h].file) /\ (p[h].master => Words(w) = 1)
                   \/ w[1].type = "CN" /\ Words(w) = 1
          /\ Words(w) <= 2 /\ (Words(w) = 2 => Command(h, w[2]))
      BY DEF Mail
    <2>2. Words(v) >= 1 => v[1] = w[1] /\ Words(w) >= 1 /\ (Words(w) = 1 => Words(v) = 1)
      <3> HIDE DEF v, w
      <3> QED
        BY <1>1, <1>4 DEF v, w
    <2>3. Words(v) = 2 => Command(h, inb[h][2])'
      <3>1. Words(v) = 2 => Words(w) = 2
        <4> HIDE DEF v, w
        <4> QED
          BY <2>1, <1>1, <1>2
      <3> QED
        BY <3>1, <2>1, <1>4
    <2>4. Words(v) >= 1 /\ Arrived(p[h].file) => Arrived(p[h].file)'
      BY <2>2 DEF MailKept, Arrived, StillArrived
    <2> QED
      BY <2>1, <2>2, <2>3, <2>4, <1>5
  <1>10. p[h].state = "breakreply" =>
             /\ Words(v) >= 1 => \/ v[1].type = "HN"
                                 \/ v[1].type = "HY" /\ Words(v) = 1
             /\ Words(v) <= 2 /\ (Words(v) = 2 => Command(h, inb[h][2])')
    <2> SUFFICES ASSUME p[h].state = "breakreply"
                 PROVE  /\ Words(v) >= 1 => \/ v[1].type = "HN"
                                            \/ v[1].type = "HY" /\ Words(v) = 1
                        /\ Words(v) <= 2 /\ (Words(v) = 2 => Command(h, inb[h][2])')
      OBVIOUS
    <2>1. /\ Words(w) >= 1 => \/ w[1].type = "HN"
                              \/ w[1].type = "HY" /\ Words(w) = 1
          /\ Words(w) <= 2 /\ (Words(w) = 2 => Command(h, w[2]))
      BY DEF Mail
    <2>2. Words(v) >= 1 => v[1] = w[1] /\ Words(w) >= 1 /\ (Words(w) = 1 => Words(v) = 1)
      <3> HIDE DEF v, w
      <3> QED
        BY <1>1, <1>4 DEF v, w
    <2>3. Words(v) = 2 => Command(h, inb[h][2])'
      <3>1. Words(v) = 2 => Words(w) = 2
        <4> HIDE DEF v, w
        <4> QED
          BY <2>1, <1>1, <1>2
      <3> QED
        BY <3>1, <2>1, <1>4
    <2> QED
      BY <2>1, <2>2, <2>3, <1>5
  <1>11. p[h].state = "chkreply" => Words(v) <= 1 /\ (Words(v) = 1 => v[1].type = "HY")
    <2>1. Words(v) = 1 => v[1] = w[1]
      BY <1>4
    <2>2. p[h].state = "chkreply" => Words(w) <= 1 /\ (Words(w) = 1 => w[1].type = "HY")
      BY DEF Mail
    <2>3. Words(w) <= 1 /\ Words(v) = 1 => Words(w) = 1
      <3> HIDE DEF v, w
      <3> QED
        BY <1>1, <1>2
    <2> QED
      BY <2>1, <2>2, <2>3, <1>5
  <1>12. p[h].state = "recvhdr" => Words(v) <= 1 /\ (Words(v) = 1 => Command(h, inb[h][1])')
    <2>1. Words(v) = 1 => (Command(h, w[1]) => Command(h, inb[h][1])')
      BY <1>4
    <2>2. p[h].state = "recvhdr" => Words(w) <= 1 /\ (Words(w) = 1 => Command(h, w[1]))
      BY DEF Mail
    <2>3. Words(w) <= 1 /\ Words(v) = 1 => Words(w) = 1
      <3> HIDE DEF v, w
      <3> QED
        BY <1>1, <1>2
    <2> QED
      BY <2>1, <2>2, <2>3, <1>5
  <1>13. p[h].state = "recvdata" => Stream(v, 1, Len(temp'[p[h].tmp]), p[h].file)
    <2>1. 1 \in Nat /\ 1 >= 1
      OBVIOUS
    <2> QED
      BY <2>1, <1>3 DEF Mail, MailKept
  <1> QED
    BY <1>6, <1>7, <1>8, <1>9, <1>10, <1>11, <1>12, <1>13 DEF Mail

-----------------------------------------------------------------------------
(***************************************************************************)
(* Whose turn it is.                                                       *)
(***************************************************************************)
Both == \A h \in Hosts : Busy(h)
Turn(h) == Leads(h) \/ Asks(h) \/ Answers(h) \/ Answered(h) \/ Sends(h)

LEMMA TurnFacts ==
  ASSUME NEW h \in Hosts
  PROVE  /\ Busy(h) /\ Busy(Other(h)) => Both
         /\ Turns /\ Both => Turn(h) \/ Turn(Other(h))
         /\ Turn(h) \/ Turn(Other(h)) => Turns
         /\ ~Busy(h) => Turns
  BY HostFacts DEF Both, Turn, Turns

\* The master has its say.
LEMMA TurnToLead ==
  ASSUME Turns, Both, NEW h \in Hosts,
         p[h].state \in {"nextjob", "request", "putfile", "getfile", "nolocal"}
  PROVE  Leads(h)
  <1>1. Turn(h) \/ Turn(Other(h))
    BY TurnFacts
  <1>2. Other(h) \in Hosts /\ Other(Other(h)) = h
    BY HostFacts
  <1>3. ~Asks(h) /\ ~Answers(h) /\ ~Answered(h) /\ ~Sends(h)
    BY DEF Asks, Answers, Answered, Sends
  <1>4. ~Ready(h, 0) /\ ~Ready(h, 1)
    BY DEF Ready
  <1>5. ~Leads(Other(h)) /\ ~Asks(Other(h))
    BY <1>2, <1>4 DEF Leads, Asks
  <1>6. ~Answers(Other(h)) /\ ~Answered(Other(h)) /\ ~Sends(Other(h))
    BY <1>2 DEF Answers, Answered, Sends
  <1> QED
    BY <1>1, <1>3, <1>5, <1>6 DEF Turn

\* A host that has read a command is to answer it.
LEMMA TurnToAnswer ==
  ASSUME Turns, Both, NEW h \in Hosts, p[h].state \in {"takefile", "givefile", "noremote"}
  PROVE  Answers(h)
  <1>1. Turn(h) \/ Turn(Other(h))
    BY TurnFacts
  <1>2. Other(h) \in Hosts /\ Other(Other(h)) = h
    BY HostFacts
  <1>3. ~Leads(h) /\ ~Asks(h) /\ ~Answered(h) /\ ~Sends(h)
    BY DEF Leads, Asks, Answered, Sends
  <1>4. ~Ready(h, 0) /\ ~Ready(h, 1)
    BY DEF Ready
  <1>5. ~Leads(Other(h)) /\ ~Asks(Other(h))
    BY <1>2, <1>4 DEF Leads, Asks
  <1>6. ~Answers(Other(h)) /\ ~Answered(Other(h)) /\ ~Sends(Other(h))
    BY <1>2 DEF Answers, Answered, Sends
  <1> QED
    BY <1>1, <1>3, <1>5, <1>6 DEF Turn

\* The sender of a file, and its receiver.
LEMMA TurnToSend ==
  ASSUME Turns, Both, NEW h \in Hosts, p[h].state \in {"senddata", "sendeof"}
  PROVE  Sends(h)
  <1>1. Turn(h) \/ Turn(Other(h))
    BY TurnFacts
  <1>2. Other(h) \in Hosts /\ Other(Other(h)) = h
    BY HostFacts
  <1>3. ~Leads(h) /\ ~Asks(h) /\ ~Answered(h) /\ ~Answers(h)
    BY DEF Leads, Asks, Answered, Answers
  <1>4. ~Ready(h, 0) /\ ~Ready(h, 1)
    BY DEF Ready
  <1>5. ~Leads(Other(h)) /\ ~Asks(Other(h))
    BY <1>2, <1>4 DEF Leads, Asks
  <1>6. ~Answers(Other(h)) /\ ~Answered(Other(h)) /\ ~Sends(Other(h))
    BY <1>2 DEF Answers, Answered, Sends
  <1> QED
    BY <1>1, <1>3, <1>5, <1>6 DEF Turn

LEMMA TurnToReceive ==
  ASSUME Turns, Both, NEW h \in Hosts, p[h].state \in {"recvdata", "recveof"}
  PROVE  Sends(Other(h)) \/ (p[h].state = "recvdata" /\ Answered(h))
  <1>1. Turn(h) \/ Turn(Other(h))
    BY TurnFacts
  <1>2. Other(h) \in Hosts /\ Other(Other(h)) = h
    BY HostFacts
  <1>3. ~Leads(h) /\ ~Asks(h) /\ ~Sends(h) /\ ~Answers(h)
    BY DEF Leads, Asks, Sends, Answers
  <1>4. ~Ready(h, 0) /\ ~Ready(h, 1)
    BY DEF Ready
  <1>5. ~Leads(Other(h)) /\ ~Asks(Other(h))
    BY <1>2, <1>4 DEF Leads, Asks
  <1>6. ~Answers(Other(h)) /\ ~Answered(Other(h))
    BY <1>2 DEF Answers, Answered
  <1>7. p[h].state = "recveof" => ~Answered(h)
    BY DEF Answered
  <1> QED
    BY <1>1, <1>3, <1>5, <1>6, <1>7 DEF Turn

\* A host that has something to read.
LEMMA TurnToRead ==
  ASSUME TypeOK, Turns, Both, NEW h \in Hosts, inb[h] # <<>>
  PROVE  /\ p[h].state \in {"putreply"} => Answered(Other(h))
         /\ p[h].state = "getreply" => Answered(Other(h)) \/ Sends(Other(h))
         /\ p[h].state = "eofreply" /\ p[h].master => Answered(Other(h))
         /\ p[h].state = "eofreply" /\ ~p[h].master => Leads(Other(h)) \/ Asks(Other(h))
         /\ p[h].state = "breakreply" =>
               Leads(Other(h)) \/ Asks(Other(h)) \/ Answered(Other(h))
         /\ p[h].state = "recvhdr" => Asks(Other(h))
         /\ p[h].state # "chkreply"
  <1>1. Turn(h) \/ Turn(Other(h))
    BY TurnFacts
  <1>2. Other(h) \in Hosts /\ Other(Other(h)) = h
    BY HostFacts
  <1>3. ~Asks(h) /\ ~Answered(h) /\ ~Sends(h)
    BY DEF Asks, Answered, Sends
  <1>4. p[h].state \in {"putreply", "getreply", "eofreply", "breakreply", "recvhdr", "chkreply"}
           => ~Leads(h) /\ ~Answers(h) /\ ~Answers(Other(h))
    <2>1. ~Answers(Other(h))
      BY <1>2 DEF Answers
    <2> QED
      BY <2>1 DEF Leads, Answers
  <1>5. p[h].state \in {"putreply", "getreply", "chkreply"} => ~Leads(Other(h)) /\ ~Asks(Other(h))
    BY <1>2 DEF Leads, Asks, Ready
  <1>6. p[h].state = "eofreply" /\ p[h].master => ~Leads(Other(h)) /\ ~Asks(Other(h))
    BY <1>2 DEF Leads, Asks, Ready
  <1>7. p[h].state = "recvhdr" => ~Leads(Other(h))
    <2> SUFFICES ASSUME p[h].state = "recvhdr", Leads(Other(h)) PROVE FALSE
      OBVIOUS
    <2>1. Gets(h, 0)
      BY <1>2 DEF Leads, Ready
    <2>2. inb[h] \in Seq(Packet)
      BY DEF TypeOK, Packet
    <2>3. Len(inb[h]) \in Nat /\ Len(inb[h]) # 0
      BY <2>2, WordsFacts
    <2>4. Len(inb[h]) <= 0
      BY <2>1, <2>3 DEF Gets
    <2> QED
      BY <2>3, <2>4
  <1>8. p[h].state \in {"putreply", "eofreply", "breakreply", "recvhdr", "chkreply"} => ~Sends(Other(h))
    BY <1>2 DEF Sends
  <1>9. p[h].state \in {"recvhdr", "chkreply"} => ~Answered(Other(h))
    BY <1>2 DEF Answered
  <1>10. p[h].state = "eofreply" /\ ~p[h].master => ~Answered(Other(h))
    BY <1>2 DEF Answered
  <1> QED
    BY <1>1, <1>3, <1>4, <1>5, <1>6, <1>7, <1>8, <1>9, <1>10 DEF Turn

\* What is to be shown of a process.
Safe(h) == Self(h) /\ Closed(h) /\ (Busy(h) => Mail(h))

LEMMA XferInvParts ==
  XferInv <=> TypeOK /\ FilesOK /\ (\A h \in Hosts : Safe(h)) /\ Turns
  BY DEF XferInv, FilesOK, Safe, Self

LEMMA Moved ==
  ASSUME XferInv, NEW h \in Hosts, NEW q, Fit(h, q), become(h, q), Keeps(Other(h)),
         InboxesOK', up' \in BOOLEAN, resend' \in BOOLEAN, Safe(h)', Closed(Other(h))',
         Busy(Other(h)) => Mail(Other(h))', Turns'
  PROVE  XferInv'
  <1> DEFINE o == Other(h)
  <1>1. TypeOK
    BY XferInvParts
  <1>2. p'[h] = q /\ p'[o] = p[o] /\ p' \in [Hosts -> Process]
    BY <1>1, Becoming
  <1>3. Safe(o)'
    BY <1>2 DEF Safe, Busy, Keeps
  <1>4. TypeOK'
    <2>1. \A x \in Hosts : p'[x].file # None => p'[x].pos <= Size[p'[x].file]
      <3>1. p'[h].file # None => p'[h].pos <= Size[p'[h].file]
        BY <1>2 DEF Fit
      <3>2. p[o].file # None => p[o].pos <= Size[p[o].file]
        BY <1>1, HostFacts DEF TypeOK
      <3>3. p'[o].file # None => p'[o].pos <= Size[p'[o].file]
        BY <3>2, <1>2
      <3>4. \A x \in Hosts : x = h \/ x = o
        BY HostFacts
      <3> QED
        BY <3>1, <3>3, <3>4
    <2> QED
      BY <1>2, <2>1 DEF TypeOK, Keeps, DiskTypes, InboxesOK, Packet
  <1>5. \A x \in Hosts : Safe(x)'
    BY <1>3, HostFacts
  <1>6. (TypeOK /\ FilesOK /\ (\A x \in Hosts : Safe(x)) /\ Turns)'
    BY <1>4, <1>5 DEF Keeps
  <1> QED
    BY <1>6 DEF XferInv, FilesOK, Safe, Self

\* The other host's mail stays good if h posts nothing, or CLOSE.
LEMMA MailUntouched ==
  ASSUME TypeOK, InboxesOK', NEW h \in Hosts, Busy(h) => Mail(h), p'[h] = p[h], Keeps(h),
         Words(inb'[h]) <= Words(inb[h]),
         \A i \in 1..Words(inb'[h]) : inb'[h][i] = inb[h][i]
  PROVE  Busy(h) => Mail(h)'
  <1> SUFFICES ASSUME Busy(h) PROVE Mail(h)'
    OBVIOUS
  <1>1. InboxesOK
    BY DEF TypeOK, InboxesOK, Packet
  <1> QED
    BY <1>1, MailStays DEF Keeps

LEMMA MailSame ==
  ASSUME TypeOK, NEW h \in Hosts, Busy(h) => Mail(h), p'[h] = p[h], Keeps(h),
         InboxesOK', inb'[h] = inb[h]
  PROVE  Busy(h) => Mail(h)'
  <1>1. Words(inb[h]) \in Nat
    BY WordsFacts DEF TypeOK, Packet
  <1>2. Words(inb'[h]) <= Words(inb[h])
    BY <1>1
  <1> QED
    BY <1>2, MailUntouched

\* h leaves and posts nothing.
LEMMA MovedOut ==
  ASSUME XferInv, NEW h \in Hosts, NEW q, Fit(h, q), Quits(q), become(h, q),
         Keeps(Other(h)), UNCHANGED net, p[h].state \in {"closing", "over"} => q.state = "over"
  PROVE  XferInv'
  <1> DEFINE o == Other(h)
  <1>1. TypeOK /\ Closed(h) /\ Closed(o) /\ (Busy(o) => Mail(o))
    BY XferInvParts, HostFacts DEF Safe
  <1>2. Self(h)' /\ ~Busy(h)' /\ Turns'
    BY <1>1, Leaves
  <1>3. p'[h] = q /\ p'[o] = p[o] /\ p' \in [Hosts -> Process]
    BY <1>1, Becoming
  <1>4. inb' = inb /\ up' \in BOOLEAN /\ resend' \in BOOLEAN
    BY <1>1 DEF net, TypeOK
  <1>5. Stays(h)
    BY <1>3 DEF Stays
  <1>6. InboxesOK' /\ Closed(h)' /\ Closed(o)'
    BY <1>1, <1>3, <1>4, <1>5, Unread
  <1>7. Busy(o) => Mail(o)'
    BY <1>1, <1>3, <1>4, <1>6, HostFacts, MailSame
  <1>8. Safe(h)'
    BY <1>2, <1>6 DEF Safe
  <1> QED
    BY <1>2, <1>4, <1>6, <1>7, <1>8, Moved

\* h leaves after it has read a packet.
LEMMA ReadOut ==
  ASSUME XferInv, NEW h \in Hosts, NEW q, Fit(h, q), Quits(q), become(h, q),
         Keeps(Other(h)), inb[h] # <<>>, Head(inb[h]).type # "CLOSE", pop(h),
         p[h].state \notin {"closing", "over"}
  PROVE  XferInv'
  <1> DEFINE o == Other(h)
  <1>1. TypeOK /\ Closed(h) /\ Closed(o) /\ (Busy(o) => Mail(o))
    BY XferInvParts, HostFacts DEF Safe
  <1>2. Self(h)' /\ ~Busy(h)' /\ Turns'
    BY <1>1, Leaves
  <1>3. p'[h] = q /\ p'[o] = p[o] /\ p' \in [Hosts -> Process]
    BY <1>1, Becoming
  <1>4. up' \in BOOLEAN /\ resend' \in BOOLEAN
    BY <1>1 DEF pop, TypeOK
  <1>5. Stays(h)
    BY DEF Stays
  <1>6. InboxesOK' /\ Closed(h)' /\ Closed(o)' /\ inb'[o] = inb[o]
    BY <1>1, <1>3, <1>5, Popped DEF pop
  <1>7. Busy(o) => Mail(o)'
    BY <1>1, <1>3, <1>6, HostFacts, MailSame
  <1>8. Safe(h)'
    BY <1>2, <1>6 DEF Safe
  <1> QED
    BY <1>2, <1>4, <1>6, <1>7, <1>8, Moved

\* h leaves and posts a last packet: its partner is not in the session any
\* more, or the packet is CLOSE.
LEMMA PostedOut ==
  ASSUME XferInv, NEW h \in Hosts, NEW q, Fit(h, q), Quits(q), become(h, q),
         Keeps(Other(h)), NEW m \in Packet, post(h, m), up' = up, resend' = resend,
         p[h].state \notin {"closing", "over"},
         m.type = "CLOSE" => q.state = "closing",
         Busy(Other(h)) /\ m.type # "CLOSE" => Mail(Other(h))'
  PROVE  XferInv'
  <1> DEFINE o == Other(h)
  <1>1. TypeOK /\ Closed(h) /\ Closed(o) /\ (Busy(o) => Mail(o))
    BY XferInvParts, HostFacts DEF Safe
  <1>2. Self(h)' /\ ~Busy(h)' /\ Turns'
    BY <1>1, Leaves
  <1>3. p'[h] = q /\ p'[o] = p[o] /\ p' \in [Hosts -> Process]
    BY <1>1, Becoming
  <1>4. up' \in BOOLEAN /\ resend' \in BOOLEAN
    BY <1>1 DEF TypeOK
  <1>5. /\ InboxesOK' /\ Closed(h)' /\ Closed(o)'
        /\ Words(inb[o]) = Len(inb[o]) /\ Len(inb[o]) \in Nat
        /\ m.type = "CLOSE" => Words(inb'[o]) = Len(inb[o])
        /\ \A i \in 1..Len(inb[o]) : inb'[o][i] = inb[o][i]
    BY <1>1, <1>3, Posted
  <1>6. Busy(o) => Mail(o)'
    <2>1. CASE m.type = "CLOSE"
      <3>1. Words(inb'[o]) <= Words(inb[o])
        BY <2>1, <1>5
      <3>2. \A i \in 1..Words(inb'[o]) : inb'[o][i] = inb[o][i]
        BY <2>1, <1>5
      <3> QED
        BY <1>1, <1>3, <1>5, <3>1, <3>2, HostFacts, MailUntouched
    <2> QED
      BY <2>1
  <1>7. Safe(h)'
    BY <1>2, <1>5 DEF Safe
  <1> QED
    BY <1>2, <1>4, <1>5, <1>6, <1>7, Moved

\* What XferInv says, host by host.
LEMMA Known ==
  ASSUME XferInv, NEW h \in Hosts
  PROVE  /\ TypeOK /\ FilesOK /\ Turns /\ InboxesOK
         /\ Fit(h, p[h]) /\ p[h] \in Process /\ Roles(h) /\ Work(h) /\ Holds(h) /\ Behind(h)
         /\ Self(h) /\ Self(Other(h)) /\ Closed(h) /\ Closed(Other(h))
         /\ Busy(h) => Mail(h)
         /\ Busy(Other(h)) => Mail(Other(h))
         /\ inb[h] \in Seq(Packet) /\ inb[Other(h)] \in Seq(Packet)
         /\ DiskTypes
  <1>1. Safe(h) /\ Safe(Other(h)) /\ TypeOK /\ FilesOK /\ Turns
    BY XferInvParts, HostFacts
  <1>2. InboxesOK
    BY <1>1 DEF TypeOK, InboxesOK, Packet
  <1>3. inb[h] \in Seq(Packet) /\ inb[Other(h)] \in Seq(Packet)
    BY <1>2, HostFacts DEF InboxesOK
  <1>4. Fit(h, p[h]) /\ p[h] \in Process
    BY FitNow DEF Fit
  <1> QED
    BY <1>1, <1>2, <1>3, <1>4 DEF Safe, Self, TypeOK, DiskTypes

\* A step of h that leaves the files alone, as o sees it.
LEMMA QuietStep ==
  ASSUME XferInv, NEW h \in Hosts, NEW q, Fit(h, q), become(h, q), QuietDisk
  PROVE  Keeps(Other(h))
  BY Known, Becoming, QuietDiskFacts, HostFacts

-----------------------------------------------------------------------------
(***************************************************************************)
(* The master.                                                             *)
(***************************************************************************)
Leading == {"nextjob", "request", "putfile", "getfile", "nolocal"}

\* The master makes up its mind.
LEMMA LeadsOn ==
  ASSUME XferInv, NEW h \in Hosts, p[h].state \in Leading, NEW q, Fit(h, q), become(h, q),
         q.state \in Leading, UNCHANGED net, Keeps(Other(h)),
         Roles(h)', Work(h)', Behind(h)'
  PROVE  XferInv'
  <1> DEFINE o == Other(h)
  <1>1. TypeOK /\ Closed(h) /\ Closed(o) /\ (Busy(h) => Mail(h)) /\ (Busy(o) => Mail(o)) /\ Turns
    BY Known
  <1>2. p'[h] = q /\ p'[o] = p[o] /\ Holds(h)'
    BY <1>1, Becoming
  <1>3. inb' = inb /\ up' = up /\ up' \in BOOLEAN /\ resend' \in BOOLEAN
    BY <1>1 DEF net, TypeOK
  <1>4. Stays(h)
    BY DEF Stays, Leading
  <1>5. InboxesOK' /\ Closed(h)' /\ Closed(o)'
    BY <1>1, <1>2, <1>3, <1>4, Unread
  <1>6. Busy(o) => Mail(o)'
    BY <1>1, <1>2, <1>3, <1>5, HostFacts, MailSame
  <1>7. Mail(h)'
    <2>1. Busy(h) /\ Words(inb[h]) = 0
      BY <1>1 DEF Busy, Gone, Mail, Leading, Reading
    <2>2. Words(inb'[h]) = 0
      BY <2>1, <1>3
    <2>3. p'[h].state \in Leading
      BY <1>2
    <2> QED
      BY <2>2, <2>3 DEF Mail, Leading, Reading
  <1>8. Turns'
    <2>1. CASE Busy(o)
      <3>1. Both
        BY <2>1, TurnFacts DEF Busy, Leading, Gone
      <3>2. Leads(h)
        BY <1>1, <3>1, TurnToLead DEF Leading
      <3>3. Leads(h)'
        BY <3>2, <1>2, <1>3 DEF Leads, Leading, Ready, Gets, First
      <3> QED
        BY <3>3 DEF Turns
    <2>2. CASE ~Busy(o)
      BY <2>2, <1>2, HostFacts DEF Turns, Busy
    <2> QED
      BY <2>1, <2>2
  <1>9. Safe(h)'
    BY <1>2, <1>5, <1>7 DEF Safe, Self
  <1> QED
    BY <1>3, <1>5, <1>6, <1>8, <1>9, Moved

LEMMA ReadFailsStep ==
  ASSUME XferInv, NEW h \in Hosts, ReadFails(h)
  PROVE  XferInv'
  <1>1. Fit(h, p[h]) /\ TypeOK
    BY Known
  <1>2. Fit(h, Lost(p[h])) /\ Quits(Lost(p[h])) /\ Lost(p[h]).state = "over"
    BY <1>1, Quitting
  <1>3. become(h, Lost(p[h])) /\ QuietDisk /\ UNCHANGED net
    BY <1>1 DEF ReadFails, QuietDisk, hist, TypeOK
  <1>4. Keeps(Other(h))
    BY <1>2, <1>3, QuietStep
  <1> QED
    BY <1>2, <1>3, <1>4, MovedOut

LEMMA NextJobStep ==
  ASSUME XferInv, NEW h \in Hosts, NextJob(h)
  PROVE  XferInv'
  <1> DEFINE q == p[h]
             found == q.todo \cap queue
  <1>1. Fit(h, q) /\ TypeOK /\ Roles(h) /\ q.state = "nextjob"
    BY Known DEF NextJob
  <1>2. QuietDisk /\ UNCHANGED net
    BY <1>1 DEF NextJob, QuietDisk, hist, TypeOK
  <1>3. q.job = None /\ q.master /\ ~q.stream
    BY <1>1 DEF Roles, Chosen, Transfer
  <1>4. ASSUME NEW r, Fit(h, r), become(h, r), r.state \in {"nextjob", "nolocal"}, r.master,
               r.job = None, ~r.stream
        PROVE  XferInv'
    <2>1. p'[h] = r /\ Keeps(Other(h))
      BY <1>1, <1>2, <1>4, Becoming, QuietStep
    <2>2. Roles(h)' /\ Work(h)' /\ Behind(h)'
      BY <2>1, <1>4, Constants DEF Roles, Work, Behind, Fit, Chosen, Transfer, Working
    <2> QED
      BY <1>1, <1>2, <1>4, <2>1, <2>2, LeadsOn DEF Leading
  <1>5. ASSUME NEW j \in found,
               become(h, [q EXCEPT !.state = "request", !.job = j, !.line = 0,
                                   !.errs = FALSE, !.todo = found \ {j}])
        PROVE  XferInv'
    <2> DEFINE r == [q EXCEPT !.state = "request", !.job = j, !.line = 0,
                              !.errs = FALSE, !.todo = found \ {j}]
    <2>1. j \in Jobs /\ j \in queue /\ At[j] = h
      BY <1>1 DEF TypeOK, Fit
    <2>2. r \in Process
      BY ZenonT(40), <1>1, <2>1 DEF Fit, Process, States
    <2>3. /\ r.state = "request" /\ r.job = j /\ r.line = 0 /\ r.todo = found \ {j}
          /\ r.master /\ ~r.stream /\ r.tmp = q.tmp /\ r.spool = q.spool
          /\ r.file = q.file /\ r.pos = q.pos
      BY <1>1, <1>3 DEF Fit, Process
    <2> HIDE DEF r
    <2>4. Fit(h, r)
      BY <1>1, <2>2, <2>3 DEF Fit
    <2>5. p'[h] = r /\ Keeps(Other(h))
      BY <1>1, <1>2, <1>5, <2>4, Becoming, QuietStep DEF r
    <2>6. Len(Lines[j]) \in Nat /\ DOMAIN Lines[j] = 1..Len(Lines[j])
      BY <2>1, XferAssumption, LenProperties DEF XferConstants, JobsAssumption
    <2>7. Roles(h)'
      <3>1. queue' = queue
        BY <1>2 DEF QuietDisk, disk
      <3> QED
        BY <2>1, <2>3, <2>4, <2>5, <2>6, <3>1, Constants DEF Roles, Fit, Chosen, Transfer
    <2>8. Work(h)' /\ Behind(h)'
      BY <2>3, <2>5, <2>6 DEF Work, Behind, Working, Transfer
    <2> QED
      BY <1>1, <1>2, <1>5, <2>3, <2>4, <2>5, <2>7, <2>8, LeadsOn DEF Leading, r
  <1>6. CASE become(h, Master(q, h))
    <2>1. /\ Fit(h, Master(q, h)) /\ Master(q, h).state = "nextjob" /\ Master(q, h).master
          /\ Master(q, h).job = None /\ ~Master(q, h).stream
      BY <1>1, <1>3, Turning
    <2> QED
      BY <1>4, <1>6, <2>1
  <1>7. CASE become(h, [q EXCEPT !.state = "nolocal"])
    <2> DEFINE r == [q EXCEPT !.state = "nolocal"]
    <2>1. Fit(h, r) /\ r.state = "nolocal" /\ r.master /\ r.job = None /\ ~r.stream
      BY <1>1, <1>3 DEF Fit, Process, States
    <2> HIDE DEF r
    <2> QED
      BY <1>4, <1>7, <2>1 DEF r
  <1> QED
    BY <1>5, <1>6, <1>7 DEF NextJob

\* The other host is behind by the answer to the last command, at most.
LEMMA ReadyFacts ==
  ASSUME NEW x \in Hosts, inb[x] \in Seq(Packet), Ready(x, 0)
  PROVE  /\ p[x].state \in {"recvhdr", "eofreply", "breakreply"}
         /\ p[x].state = "eofreply" => ~p[x].master
         /\ Len(inb[x]) <= IF p[x].state = "recvhdr" THEN 0 ELSE 1
         /\ inb[x] # <<>> => inb[x][1].type \in {"CY", "HN"}
         /\ \A i \in 1..Words(inb[x]) : inb[x][i].type \in {"CY", "HN"}
  <1>1. /\ Len(inb[x]) \in Nat /\ Words(inb[x]) \in Nat /\ Words(inb[x]) <= Len(inb[x])
        /\ (inb[x] = <<>> <=> Len(inb[x]) = 0)
    BY WordsFacts
  <1>2. /\ p[x].state \in {"recvhdr", "eofreply", "breakreply"}
        /\ p[x].state = "eofreply" => ~p[x].master
    BY DEF Ready
  <1>3. Len(inb[x]) <= IF p[x].state = "recvhdr" THEN 0 ELSE 1
    <2>1. p[x].state = "recvhdr" => Gets(x, 0)
      BY DEF Ready
    <2>2. p[x].state # "recvhdr" => Gets(x, 0 + 1)
      BY DEF Ready
    <2>3. \A k \in Nat : Gets(x, k) => Len(inb[x]) <= k
      BY <1>1 DEF Gets
    <2> QED
      BY <2>1, <2>2, <2>3
  <1>4. inb[x] # <<>> => inb[x][1].type \in {"CY", "HN"}
    <2>1. p[x].state = "recvhdr" => inb[x] = <<>>
      BY <1>1, <1>3
    <2>2. p[x].state # "recvhdr" => First(x, {"CY"}) \/ First(x, {"HN"})
      BY DEF Ready
    <2> QED
      BY <2>1, <2>2 DEF First
  <1>5. \A i \in 1..Words(inb[x]) : i = 1 /\ inb[x] # <<>>
    BY <1>1, <1>3
  <1> QED
    BY <1>2, <1>3, <1>4, <1>5

LEMMA NewRequestStep ==
  ASSUME XferInv, NEW h \in Hosts, NewRequest(h)
  PROVE  XferInv'
  <1> DEFINE q == p[h]
             n == q.line + 1
             l == Lines[q.job][n]
             r == [q EXCEPT !.state = IF l.type = "S" THEN "putfile" ELSE "getfile",
                            !.line = n, !.file = l.file, !.pos = 0]
  <1>1. /\ Fit(h, q) /\ q \in Process /\ TypeOK /\ Roles(h) /\ Behind(h) /\ q.state = "request"
        /\ q.line < Len(Lines[q.job]) /\ become(h, r)
    BY Known DEF NewRequest
  <1>2. QuietDisk /\ UNCHANGED net
    BY <1>1 DEF NewRequest, QuietDisk, hist, TypeOK
  <1>3. /\ q.job \in Jobs /\ q.job # None /\ q.job \in queue /\ At[q.job] = h /\ q.master
        /\ ~q.stream /\ q.line \in Nat
    BY <1>1, Constants DEF Roles, Chosen, TypeOK, Process
  <1>4. DOMAIN Lines[q.job] = 1..Len(Lines[q.job]) /\ Len(Lines[q.job]) \in Nat
    BY <1>3, XferAssumption, LenProperties DEF XferConstants, JobsAssumption
  <1>5. n \in DOMAIN Lines[q.job] /\ n \in Nat /\ n <= Len(Lines[q.job]) /\ n >= 1
    BY <1>1, <1>3, <1>4
  <1>6. l.file \in Files /\ l.type \in {"S", "R"}
        /\ Giver(l.file) = IF l.type = "S" THEN h ELSE Other(h)
    BY <1>3, <1>5, LineFacts
  <1> HIDE DEF l, n
  <1>7. r \in Process
    BY <1>1, <1>5, <1>6 DEF Process, States
  <1>8. /\ r.state = IF l.type = "S" THEN "putfile" ELSE "getfile"
        /\ r.job = q.job /\ r.line = n /\ r.todo = q.todo /\ r.errs = q.errs
        /\ r.master = q.master /\ r.stream = q.stream /\ r.tmp = q.tmp /\ r.spool = q.spool
        /\ r.file = l.file /\ r.pos = 0
    BY <1>1 DEF Process
  <1> HIDE DEF r
  <1>9. Fit(h, r)
    <2>1. 0 <= Size[l.file]
      BY <1>6, Constants
    <2> QED
      BY <1>1, <1>7, <1>8, <2>1 DEF Fit
  <1>10. p'[h] = r /\ Keeps(Other(h)) /\ queue' = queue
    BY <1>1, <1>2, <1>9, Becoming, QuietStep DEF QuietDisk, disk
  <1>11. Roles(h)'
    BY <1>1, <1>3, <1>5, <1>8, <1>9, <1>10 DEF Roles, Fit, Chosen, Transfer
  <1>12. Work(h)'
    BY <1>5, <1>6, <1>8, <1>10 DEF Work, Working, Giving, Transfer, l
  <1>13. Behind(h)'
    <2>1. \A i \in DOMAIN Lines[q.job] : i < n => i < q.line \/ i = q.line
      BY <1>3, <1>4 DEF n
    <2>2. \A f : Done(f) => StillDone(f)
      BY <1>2 DEF QuietDisk, disk, Done, Arrived, StillDone, StillArrived
    <2>3. ~q.errs => \A i \in DOMAIN Lines[q.job] : i < n => Done(Lines[q.job][i].file)
      BY <1>1, <1>3, <2>1 DEF Behind
    <2>4. ~q.errs => \A i \in DOMAIN Lines[q.job] : i < n => StillDone(Lines[q.job][i].file)
      BY <2>2, <2>3
    <2> QED
      BY <1>8, <1>10, <2>4 DEF Behind, Done, Arrived, StillDone, StillArrived
  <1> QED
    BY <1>1, <1>2, <1>8, <1>9, <1>10, <1>11, <1>12, <1>13, LeadsOn DEF Leading

LEMMA JobDoneStep ==
  ASSUME XferInv, NEW h \in Hosts, JobDone(h)
  PROVE  XferInv'
  <1> DEFINE q == p[h]
             o == Other(h)
             r == [q EXCEPT !.state = "nextjob", !.job = None, !.file = None,
                            !.scan_not_needed = @ /\ q.errs]
  <1>1. /\ Fit(h, q) /\ q \in Process /\ TypeOK /\ FilesOK /\ Roles(h) /\ Behind(h)
        /\ q.state = "request" /\ q.line = Len(Lines[q.job]) /\ become(h, r)
    BY Known DEF JobDone
  <1>2. /\ q.job \in Jobs /\ q.job # None /\ q.job \in queue /\ At[q.job] = h /\ q.master
        /\ ~q.stream
    BY <1>1, Constants DEF Roles, Chosen, TypeOK, Process
  <1>3. r \in Process
    <2>1. ASSUME NEW b \in BOOLEAN
          PROVE  [q EXCEPT !.state = "nextjob", !.job = None, !.file = None,
                           !.scan_not_needed = b] \in Process
      BY <1>1 DEF Process, States
    <2>2. (q.scan_not_needed /\ q.errs) \in BOOLEAN
      OBVIOUS
    <2> QED
      BY <2>1, <2>2, Zenon
  <1>4. /\ r.state = "nextjob" /\ r.job = None /\ r.todo = q.todo /\ r.master = q.master
        /\ r.stream = q.stream /\ r.tmp = q.tmp /\ r.spool = q.spool /\ r.file = None
    BY <1>1 DEF Process
  <1> HIDE DEF r
  <1>5. Fit(h, r)
    BY <1>1, <1>3, <1>4 DEF Fit
  <1>6. p'[h] = r /\ p'[o] = p[o]
    BY <1>1, <1>5, Becoming
  <1>7. UNCHANGED <<src, temp, place, inb, up, resend, later, faults, delivered, refused>>
    BY DEF JobDone, net, hist
  <1>8. /\ \A f \in Files : JobOf(f) \in queue /\ JobOf(f) \notin queue' => Done(f)
        /\ queue' \subseteq queue /\ \A j \in queue : j # q.job => j \in queue'
    <2>1. CASE q.errs
      BY <2>1 DEF JobDone
    <2>2. CASE ~q.errs
      <3>1. queue' = queue \ {q.job}
        BY <2>2 DEF JobDone
      <3>2. ASSUME NEW f \in Files, JobOf(f) = q.job
            PROVE  Done(f)
        <4>1. PICK n \in DOMAIN Lines[q.job] : Lines[q.job][n].file = f
          BY <3>2, FileFacts
        <4>2. n \in 1..Len(Lines[q.job]) /\ Len(Lines[q.job]) \in Nat
          BY <1>2, LineFacts
        <4>3. n < q.line \/ n = q.line
          BY <4>2, <1>1
        <4> QED
          BY <1>1, <1>2, <2>2, <4>1, <4>3 DEF Behind
      <3> QED
        BY <3>1, <3>2
    <2> QED
      BY <2>1, <2>2
  <1>9. FilesOK'
    <2>1. Temporary' /\ Sources'
      BY <1>1, <1>7 DEF FilesOK, Temporary, Sources, Arrived
    <2>2. NothingLost'
      BY <1>1, <1>7, <1>8 DEF FilesOK, NothingLost, Done, Arrived
    <2>3. Intact'
      BY <1>1, <1>7, <1>8 DEF FilesOK, Intact, Done, Arrived
    <2> QED
      BY <2>1, <2>2, <2>3 DEF FilesOK
  <1>10. Busy(o) => /\ p[o].state \in {"recvhdr", "eofreply", "breakreply"}
                    /\ \A i \in 1..Words(inb[o]) : inb[o][i].type \in {"CY", "HN"}
    <2> SUFFICES ASSUME Busy(o)
                 PROVE  /\ p[o].state \in {"recvhdr", "eofreply", "breakreply"}
                        /\ \A i \in 1..Words(inb[o]) : inb[o][i].type \in {"CY", "HN"}
      OBVIOUS
    <2>1. Both
      BY <1>1, TurnFacts DEF Busy, Gone
    <2>2. Ready(o, 0)
      BY <1>1, <2>1, TurnToLead, Known DEF Leads
    <2> QED
      BY <2>2, ReadyFacts, Known, HostFacts
  <1>11. Self(o)'
    <2>1. Self(o) /\ o \in Hosts
      BY Known, HostFacts
    <2>2. p[o].job # None => p[o].job \in queue'
      <3>1. p[o].job # None => p[o].job \in queue /\ At[p[o].job] = o
        BY <2>1 DEF Self, Roles
      <3> QED
        BY <3>1, <1>2, <1>8, HostFacts
    <2>3. p[o].state \notin {"takefile", "recvdata", "recveof"}
      BY <1>10 DEF Busy, Gone
    <2>4. \A f : Done(f) => Done(f)'
      BY <1>7 DEF Done, Arrived
    <2>5. src' = src /\ temp' = temp
      BY <1>7
    <2>6. p[o].job # None /\ ~p[o].errs =>
            \A n \in DOMAIN Lines[p[o].job] :
               (n < p[o].line \/ (n = p[o].line /\ p[o].state = "request"))
               /\ Done(Lines[p[o].job][n].file) => Done(Lines[p[o].job][n].file)'
      BY <1>6, <1>7 DEF Done, Arrived
    <2> QED
      BY <1>6, <2>1, <2>2, <2>3, <2>5, <2>6, Undisturbed
  <1>12. Keeps(o)
    <2>1. DiskTypes'
      BY <1>7, <1>8, Known DEF DiskTypes
    <2>2. Busy(o) => MailKept(o)
      BY <1>7, <1>10 DEF MailKept, Arrived, StillArrived
    <2> QED
      BY <1>9, <1>11, <2>1, <2>2 DEF Keeps
  <1>13. Roles(h)' /\ Work(h)' /\ Behind(h)'
    BY <1>1, <1>2, <1>4, <1>5, <1>6, Constants DEF Roles, Work, Behind, Fit, Chosen, Transfer, Working
  <1>14. UNCHANGED net
    BY <1>7 DEF net
  <1> QED
    BY <1>1, <1>4, <1>5, <1>12, <1>13, <1>14, LeadsOn DEF Leading

LEMMA NoMail ==
  ASSUME NEW h \in Hosts, Words(inb'[h]) = 0
  PROVE  Mail(h)'
  <1>1. \A b, f : Stream(inb'[h], 2, b, f) /\ Stream(inb'[h], 1, b, f)
    BY DEF Stream
  <1> QED
    BY <1>1 DEF Mail

\* Nothing has come from a host that is in the session but words.
LEMMA OpenLine ==
  ASSUME XferInv, NEW h \in Hosts, Busy(Other(h))
  PROVE  /\ Words(inb[h]) = Len(inb[h]) /\ Len(inb[h]) \in Nat
         /\ \A i \in 1..Len(inb[h]) : inb[h][i].type # "CLOSE"
         /\ inb[h] # <<>> => Head(inb[h]).type # "CLOSE"
         /\ Words(inb[h]) = 0 => inb[h] = <<>>
         /\ ~HasClosed(h)
  <1>1. Closed(h) /\ inb[h] \in Seq(Packet)
    BY Known
  <1>2. /\ Len(inb[h]) \in Nat /\ DOMAIN inb[h] = 1..Len(inb[h])
        /\ inb[h] # <<>> => Head(inb[h]) = inb[h][1] /\ Len(inb[h]) >= 1
        /\ inb[h] = <<>> => Words(inb[h]) = 0 /\ Len(inb[h]) = 0
        /\ inb[h] # <<>> /\ inb[h][Len(inb[h])].type # "CLOSE" => Words(inb[h]) = Len(inb[h])
        /\ Len(inb[h]) = 0 => inb[h] = <<>>
    BY <1>1, WordsFacts
  <1>3. \A i \in 1..Len(inb[h]) : inb[h][i].type # "CLOSE"
    BY <1>1, <1>2 DEF Closed, Busy, Gone
  <1>4. inb[h] # <<>> => 1 \in 1..Len(inb[h]) /\ Len(inb[h]) \in 1..Len(inb[h])
    BY <1>2
  <1>5. Words(inb[h]) = Len(inb[h])
    BY <1>2, <1>3, <1>4
  <1>6. ~HasClosed(h)
    BY <1>2, <1>3 DEF HasClosed
  <1> QED
    BY <1>2, <1>3, <1>4, <1>5, <1>6

\* The line is lost when h sends.
LEMMA SendFails ==
  ASSUME XferInv, NEW h \in Hosts, p[h].state \notin {"closing", "over"},
         NEW q, Fit(h, q), become(h, Lost(q)), UNCHANGED <<inb, up, resend>>, Keeps(Other(h))
  PROVE  XferInv'
  <1>1. Fit(h, Lost(q)) /\ Quits(Lost(q))
    BY Quitting
  <1>2. UNCHANGED net
    BY DEF net
  <1> QED
    BY <1>1, <1>2, MovedOut

\* h goes on and has posted m.
LEMMA MovedPost ==
  ASSUME XferInv, NEW h \in Hosts, NEW q, Fit(h, q), become(h, q), Keeps(Other(h)),
         p[h].state \notin {"closing", "over"}, NEW m \in Packet, m.type # "CLOSE", post(h, m),
         UNCHANGED <<up, resend>>, Roles(h)', Work(h)', Behind(h)',
         Busy(h)' => Mail(h)', Busy(Other(h)) => Mail(Other(h))', Turns'
  PROVE  XferInv'
  <1>1. TypeOK /\ Closed(h) /\ Closed(Other(h))
    BY Known
  <1>2. p'[h] = q /\ p'[Other(h)] = p[Other(h)] /\ Holds(h)'
    BY <1>1, Becoming
  <1>3. InboxesOK' /\ Closed(h)' /\ Closed(Other(h))'
    BY <1>1, <1>2, Posted
  <1>4. up' \in BOOLEAN /\ resend' \in BOOLEAN
    BY <1>1 DEF TypeOK
  <1>5. Safe(h)'
    BY <1>2, <1>3 DEF Safe, Self
  <1> QED
    BY <1>3, <1>4, <1>5, Moved

\* What a command does to the host that is ready for it.
LEMMA CommandCame ==
  ASSUME NEW x \in Hosts, inb[x] \in Seq(Packet), inb'[x] \in Seq(Packet), up, up' = up,
         Ready(x, 0), Mail(x), p'[x] = p[x], MailKept(x), Words(inb[x]) = Len(inb[x]),
         NEW m, Command(x, m)', m.type \in {"S", "R", "H"}, 
         Words(inb'[x]) = Len(inb[x]) + 1, Len(inb'[x]) = Len(inb[x]) + 1,
         \A i \in 1..Len(inb[x]) : inb'[x][i] = inb[x][i],
         inb'[x][Len(inb[x]) + 1] = m
  PROVE  /\ Mail(x)' /\ Ready(x, 1)'
         /\ \A i \in DOMAIN inb'[x] :
               inb'[x][i].type \in {"S", "R", "H"} => inb'[x][i] = m
  <1> DEFINE w == inb[x]
             v == inb'[x]
  <1>1. /\ Len(w) \in Nat /\ DOMAIN v = 1..(Len(w) + 1)
        /\ w # <<>> => Len(w) >= 1
        /\ v # <<>>
    BY WordsFacts
  <1>2. /\ p[x].state \in {"recvhdr", "eofreply", "breakreply"}
        /\ p[x].state = "eofreply" => ~p[x].master
        /\ \A i \in 1..Words(w) : w[i].type \in {"CY", "HN"}
    BY ReadyFacts
  <1>3. \A i \in DOMAIN v : v[i].type \in {"S", "R", "H"} => v[i] = m
    BY SMTT(40), <1>1, <1>2
  <1>4. CASE p[x].state = "recvhdr"
    <2>1. Len(w) = 0
      BY <1>4 DEF Ready, Gets
    <2>2. v[1] = m /\ Words(v) = 1 /\ Len(v) = 1
      BY <2>1
    <2>3. Mail(x)'
      BY <1>4, <2>2 DEF Mail, Reading
    <2>4. Ready(x, 1)'
      BY <1>4, <2>2 DEF Ready, Gets
    <2> QED
      BY <2>3, <2>4, <1>3
  <1>5. CASE p[x].state = "eofreply"
    <2>1. Gets(x, 0 + 1) /\ First(x, {"CY"})
      BY <1>5 DEF Ready
    <2>2. Len(w) = 1
      BY <2>1 DEF Gets
    <2>3. w # <<>>
      BY <2>2, WordsFacts
    <2>4. w[1].type = "CY"
      BY <2>1, <2>3 DEF First
    <2>5. v[1] = w[1] /\ v[2] = m /\ Words(v) = 2 /\ Len(v) = 2
      BY <2>2
    <2>6. Arrived(p[x].file)'
      BY <1>5, <2>2, <2>4 DEF Mail, MailKept, Arrived, StillArrived
    <2>7. Mail(x)'
      BY <1>2, <1>5, <2>4, <2>5, <2>6 DEF Mail, Reading
    <2>8. Ready(x, 1)'
      BY <1>1, <1>2, <1>5, <2>4, <2>5 DEF Ready, Gets, First
    <2> QED
      BY <2>7, <2>8, <1>3
  <1>6. CASE p[x].state = "breakreply"
    <2>1. Gets(x, 0 + 1) /\ First(x, {"HN"})
      BY <1>6 DEF Ready
    <2>2. Len(w) = 1
      BY <2>1 DEF Gets
    <2>3. w # <<>>
      BY <2>2, WordsFacts
    <2>4. w[1].type = "HN"
      BY <2>1, <2>3 DEF First
    <2>5. v[1] = w[1] /\ v[2] = m /\ Words(v) = 2 /\ Len(v) = 2
      BY <2>2
    <2>6. Mail(x)'
      BY <1>6, <2>4, <2>5 DEF Mail, Reading
    <2>7. Ready(x, 1)'
      BY <1>1, <1>6, <2>4, <2>5 DEF Ready, Gets, First
    <2> QED
      BY <2>6, <2>7, <1>3
  <1> QED
    BY <1>2, <1>4, <1>5, <1>6

\* The master says what is to be done.
LEMMA Asking ==
  ASSUME XferInv, NEW h \in Hosts, p[h].state \in Leading, NEW q, Fit(h, q),
         NEW m \in Packet, send(h, m, q), QuietDisk, Command(Other(h), m),
         \/ m.type = "S" /\ q.state = "putreply" /\ m.file = q.file
         \/ m.type = "R" /\ q.state = "getreply" /\ m.file = q.file
         \/ m.type = "H" /\ q.state = "breakreply",
         p'[h] = q => Roles(h)' /\ Work(h)' /\ Behind(h)'
  PROVE  XferInv'
  <1> DEFINE o == Other(h)
  <1>1. /\ TypeOK /\ Turns /\ Closed(h) /\ Closed(o) /\ (Busy(h) => Mail(h))
        /\ (Busy(o) => Mail(o)) /\ inb[o] \in Seq(Packet) /\ o \in Hosts /\ Other(o) = h
    BY Known, HostFacts
  <1>2. Busy(h) /\ p[h].state \notin {"closing", "over"} /\ UNCHANGED <<up, resend>>
    BY DEF Leading, Busy, Gone, send
  <1>3. CASE ~Left(h) /\ post(h, m) /\ become(h, q)
    <2>1. Keeps(o) /\ p'[h] = q /\ p'[o] = p[o]
      BY <1>1, <1>3, QuietStep, Becoming
    <2>2. up
      BY <1>3 DEF Left
    <2>3. /\ InboxesOK' /\ inb'[h] = inb[h]
          /\ Words(inb[o]) = Len(inb[o]) /\ Len(inb[o]) \in Nat
          /\ Len(inb'[o]) = Len(inb[o]) + 1 /\ Words(inb'[o]) = Len(inb[o]) + 1
          /\ \A i \in 1..Len(inb[o]) : inb'[o][i] = inb[o][i]
          /\ inb'[o][Len(inb[o]) + 1] = m
      <3>1. m.type # "CLOSE"
        OBVIOUS
      <3> QED
        BY <1>1, <1>2, <1>3, <2>1, <3>1, Posted
    <2>4. Words(inb[h]) = 0
      BY <1>1, <1>2 DEF Mail, Leading, Reading
    <2>5. Mail(h)'
      BY <2>3, <2>4, NoMail
    <2>6. Busy(o) => Mail(o)' /\ Turns'
      <3> SUFFICES ASSUME Busy(o) PROVE Mail(o)' /\ Turns'
        OBVIOUS
      <3>1. Both
        BY <1>2, TurnFacts
      <3>2. Leads(h)
        BY <1>1, <3>1, TurnToLead DEF Leading
      <3>3. Command(o, m)'
        BY DEF Command, QuietDisk, disk, Kept
      <3>4. m.type \in {"S", "R", "H"}
        OBVIOUS
      <3>5. inb'[o] \in Seq(Packet) /\ MailKept(o) /\ Ready(o, 0)
        BY <1>1, <2>1, <2>3, <3>2 DEF InboxesOK, Keeps, Leads
      <3>6. /\ Mail(o)' /\ Ready(o, 1)'
            /\ \A i \in DOMAIN inb'[o] :
                  inb'[o][i].type \in {"S", "R", "H"} => inb'[o][i] = m
        BY <1>1, <1>2, <2>1, <2>2, <2>3, <3>3, <3>4, <3>5, CommandCame
      <3>7. inb'[h] = <<>>
        BY <2>3, <2>4, OpenLine
      <3>8. Asks(h)'
        BY <2>1, <3>6, <3>7 DEF Asks, Asked
      <3> QED
        BY <3>6, <3>8 DEF Turns
    <2>7. ~Busy(o) => Turns'
      BY <2>1, <1>1 DEF Turns, Busy
    <2>8. m.type # "CLOSE"
      OBVIOUS
    <2> QED
      BY <1>2, <1>3, <2>1, <2>5, <2>6, <2>7, <2>8, MovedPost
  <1>4. CASE (Left(h) \/ HasClosed(h)) /\ become(h, Lost(q)) /\ UNCHANGED inb
    <2>1. Keeps(o)
      BY <1>4, Quitting, QuietStep
    <2> QED
      BY <1>2, <1>4, <2>1, SendFails
  <1> QED
    BY <1>3, <1>4 DEF send

LEMMA Messages ==
  /\ \A type \in Types, f \in Files, n \in Nat :
        /\ Msg(type, f, n) \in Packet /\ Msg(type, f, n).type = type
        /\ Msg(type, f, n).file = f /\ Msg(type, f, n).off = n
  /\ \A type \in Types, n \in Nat :
        /\ Msg(type, None, n) \in Packet /\ Msg(type, None, n).type = type
        /\ Msg(type, None, n).off = n
  /\ \A type \in Types : Word(type) \in Packet /\ Word(type).type = type
  BY DEF Msg, Word, Packet

LEMMA PutFileStep ==
  ASSUME XferInv, NEW h \in Hosts, PutFile(h)
  PROVE  XferInv'
  <1> DEFINE q == p[h]
             f == q.file
  <1>1. /\ Fit(h, q) /\ q \in Process /\ TypeOK /\ Roles(h) /\ Work(h) /\ Behind(h)
        /\ q.state = "putfile" /\ FilesOK
    BY Known DEF PutFile
  <1>2. QuietDisk
    BY <1>1 DEF PutFile, QuietDisk, hist, TypeOK
  <1>3. /\ q.job \in Jobs /\ q.job # None /\ q.job \in queue /\ At[q.job] = h /\ q.master
        /\ ~q.stream /\ q.line \in Nat /\ q.line <= Len(Lines[q.job])
        /\ f \in Files /\ Giver(f) = h /\ q.line >= 1 /\ f = Lines[q.job][q.line].file
    BY <1>1, Constants DEF Roles, Chosen, TypeOK, Process, Work, Working, Giving
  <1>4. /\ q.line \in DOMAIN Lines[q.job] /\ JobOf(f) = q.job
        /\ DOMAIN Lines[q.job] = 1..Len(Lines[q.job])
    <2>1. DOMAIN Lines[q.job] = 1..Len(Lines[q.job]) /\ Len(Lines[q.job]) \in Nat
      BY <1>3, XferAssumption, LenProperties DEF XferConstants, JobsAssumption
    <2>2. q.line \in DOMAIN Lines[q.job]
      BY <2>1, <1>3
    <2> QED
      BY <2>1, <2>2, <1>3, LineFacts
  <1>5. \A g : Done(g) => StillDone(g)
    BY <1>2 DEF QuietDisk, disk, Done, Arrived, StillDone, StillArrived
  <1>6. queue' = queue /\ src' = src
    BY <1>2 DEF QuietDisk, disk
  <1>7. ASSUME NEW r, Fit(h, r), Finishes(FileDone(r), r), become(h, FileDone(r)), UNCHANGED net,
               r.master = q.master, r.job = q.job, r.line = q.line, r.stream = q.stream,
               ~r.errs => ~q.errs /\ Done(f)
        PROVE  XferInv'
    <2> DEFINE s == FileDone(r)
    <2>1. Fit(h, s) /\ Finishes(s, r)
      BY <1>7, Finishing
    <2>2. p'[h] = s /\ Keeps(Other(h))
      BY <1>1, <1>2, <1>7, <2>1, Becoming, QuietStep
    <2> HIDE DEF s
    <2>3. Roles(h)' /\ Work(h)'
      BY <1>3, <1>6, <1>7, <2>1, <2>2
      DEF Roles, Work, Fit, Finishes, Chosen, Transfer, Working
    <2>4. ASSUME ~s.errs, NEW n \in DOMAIN Lines[q.job], n < q.line \/ n = q.line
          PROVE  StillDone(Lines[q.job][n].file)
      <3>1. ~q.errs /\ Done(f)
        BY <1>7, <2>1, <2>4 DEF Finishes
      <3>2. n < q.line => Done(Lines[q.job][n].file)
        BY <1>1, <1>3, <3>1 DEF Behind
      <3> QED
        BY <1>3, <1>5, <2>4, <3>1, <3>2
    <2>5. Behind(h)'
      BY <1>7, <2>1, <2>2, <2>4 DEF Behind, Finishes, StillDone, StillArrived, Done, Arrived
    <2> QED
      BY <1>1, <1>3, <1>7, <2>1, <2>2, <2>3, <2>5, LeadsOn DEF Leading, Finishes, s
  <1>8. CASE f \notin src /\ become(h, FileDone(q)) /\ UNCHANGED net
    <2>1. Done(f)
      BY <1>1, <1>3, <1>8 DEF FilesOK, Sources, Done
    <2> QED
      BY <1>1, <1>7, <1>8, <2>1, Finishing
  <1>9. CASE become(h, FileDone([q EXCEPT !.errs = TRUE])) /\ UNCHANGED net
    <2> DEFINE r == [q EXCEPT !.errs = TRUE]
    <2>1. r \in Process
      BY <1>1 DEF Process
    <2>2. /\ r.master = q.master /\ r.job = q.job /\ r.line = q.line /\ r.stream = q.stream
          /\ r.errs /\ r.tmp = q.tmp /\ r.spool = q.spool /\ r.todo = q.todo
          /\ r.file = q.file /\ r.pos = q.pos
      BY <1>1 DEF Process
    <2> HIDE DEF r
    <2>3. Fit(h, r)
      BY <1>1, <2>1, <2>2 DEF Fit
    <2> QED
      BY <1>7, <1>9, <2>2, <2>3, Finishing DEF r
  <1>10. CASE /\ f \in src
              /\ send(h, Msg("S", f, 0), [q EXCEPT !.state = "putreply", !.stream = TRUE])
    <2> DEFINE r == [q EXCEPT !.state = "putreply", !.stream = TRUE]
               m == Msg("S", f, 0)
    <2>1. r \in Process
      BY <1>1 DEF Process, States, Reading
    <2>2. /\ r.master = q.master /\ r.job = q.job /\ r.line = q.line /\ r.stream
          /\ r.errs = q.errs /\ r.tmp = q.tmp /\ r.spool = q.spool /\ r.todo = q.todo
          /\ r.file = q.file /\ r.pos = q.pos /\ r.state = "putreply"
      BY <1>1 DEF Process
    <2>3. m \in Packet /\ m.type = "S" /\ m.file = f
      BY <1>3, Messages DEF Types
    <2>4. Command(Other(h), m)
      BY ZenonT(40), <1>3, <1>4, <1>10, <2>3, HostFacts DEF Command, Kept
    <2>5. send(h, m, r)
      BY <1>10
    <2> HIDE DEF r, m
    <2>6. Fit(h, r)
      BY <1>1, <2>1, <2>2 DEF Fit
    <2>7. ASSUME p'[h] = r PROVE Roles(h)' /\ Work(h)' /\ Behind(h)'
      <3>1. Roles(h)'
        BY <1>3, <1>6, <2>2, <2>6, <2>7 DEF Roles, Fit, Chosen, Transfer
      <3>2. Work(h)'
        BY <1>3, <1>6, <1>10, <2>2, <2>7 DEF Work, Working, Giving, Transfer
      <3>3. ASSUME ~q.errs, NEW n \in DOMAIN Lines[q.job], n < q.line
            PROVE  StillDone(Lines[q.job][n].file)
        BY <1>1, <1>3, <1>5, <3>3 DEF Behind
      <3>4. Behind(h)'
        BY <2>2, <2>7, <3>3 DEF Behind, StillDone, StillArrived, Done, Arrived
      <3> QED
        BY <3>1, <3>2, <3>4
    <2> QED
      BY <1>1, <1>2, <2>2, <2>3, <2>4, <2>5, <2>6, <2>7, Asking DEF Leading
  <1> QED
    BY <1>8, <1>9, <1>10 DEF PutFile

LEMMA GetFileStep ==
  ASSUME XferInv, NEW h \in Hosts, GetFile(h)
  PROVE  XferInv'
  <1> DEFINE q == p[h]
             f == q.file
             r == [q EXCEPT !.state = "getreply", !.tmp = Tmp[f], !.spool = f \in Spooled]
             m == Msg("R", f, 0)
  <1>1. /\ Fit(h, q) /\ q \in Process /\ TypeOK /\ Roles(h) /\ Work(h) /\ Behind(h)
        /\ q.state = "getfile" /\ send(h, m, r)
    BY Known DEF GetFile
  <1>2. QuietDisk
    BY <1>1 DEF GetFile, QuietDisk, hist, TypeOK
  <1>3. /\ q.job \in queue /\ At[q.job] = h /\ q.master /\ q.job # None
        /\ ~q.stream /\ q.line <= Len(Lines[q.job])
        /\ f \in Files /\ Giver(f) = Other(h) /\ q.line >= 1 /\ f = Lines[q.job][q.line].file
    BY <1>1, Constants DEF Roles, Chosen, Work, Working, Giving
  <1>4. Tmp[f] \in Temps /\ Tmp[f] # None
    BY <1>3, Constants
  <1>5. \A g : Done(g) => StillDone(g)
    BY <1>2 DEF QuietDisk, disk, Done, Arrived, StillDone, StillArrived
  <1>6. queue' = queue /\ src' = src
    BY <1>2 DEF QuietDisk, disk
  <1>7. r \in Process
    <2>1. ASSUME NEW b \in BOOLEAN, NEW t \in Temps
          PROVE  [q EXCEPT !.state = "getreply", !.tmp = t, !.spool = b] \in Process
      BY <1>1 DEF Process, States, Reading
    <2>2. (f \in Spooled) \in BOOLEAN
      OBVIOUS
    <2> QED
      BY <1>4, <2>1, <2>2, Zenon
  <1>8. /\ r.master = q.master /\ r.job = q.job /\ r.line = q.line /\ r.stream = q.stream
        /\ r.errs = q.errs /\ r.tmp = Tmp[f] /\ r.todo = q.todo
        /\ r.file = q.file /\ r.pos = q.pos /\ r.state = "getreply"
    BY <1>1 DEF Process
  <1>9. m \in Packet /\ m.type = "R" /\ m.file = f
    BY <1>3, Messages DEF Types
  <1>10. Command(Other(h), m)
    BY SMTT(40), <1>3, <1>9, HostFacts DEF Command
  <1> HIDE DEF r, m
  <1>11. Fit(h, r)
    BY ZenonT(40), <1>1, <1>3, <1>4, <1>7, <1>8 DEF Fit
  <1>12. ASSUME p'[h] = r PROVE Roles(h)' /\ Work(h)' /\ Behind(h)'
    <2>1. Roles(h)'
      BY Zenon, <1>3, <1>6, <1>8, <1>11, <1>12 DEF Roles, Fit, Chosen, Transfer
    <2>2. Work(h)'
      BY <1>3, <1>8, <1>12 DEF Work, Working, Giving, Transfer
    <2>3. ASSUME ~q.errs, NEW n \in DOMAIN Lines[q.job], n < q.line
          PROVE  StillDone(Lines[q.job][n].file)
      BY <1>1, <1>3, <1>5, <2>3 DEF Behind
    <2>4. Behind(h)'
      BY <1>8, <1>12, <2>3 DEF Behind, StillDone, StillArrived, Done, Arrived
    <2> QED
      BY <2>1, <2>2, <2>4
  <1> QED
    BY <1>1, <1>2, <1>8, <1>9, <1>10, <1>11, <1>12, Asking DEF Leading

LEMMA NoLocalStep ==
  ASSUME XferInv, NEW h \in Hosts, NoLocal(h)
  PROVE  XferInv'
  <1> DEFINE q == p[h]
             r == [q EXCEPT !.state = "breakreply"]
             m == Word("H")
  <1>1. /\ Fit(h, q) /\ q \in Process /\ TypeOK /\ Roles(h) /\ q.state = "nolocal"
        /\ send(h, m, r)
    BY Known DEF NoLocal
  <1>2. QuietDisk
    BY <1>1 DEF NoLocal, QuietDisk, hist, TypeOK
  <1>3. q.job = None /\ q.master /\ ~q.stream
    BY <1>1 DEF Roles, Chosen, Transfer
  <1>4. r \in Process
    BY <1>1 DEF Process, States, Reading
  <1>5. /\ r.master = q.master /\ r.job = q.job /\ r.stream = q.stream
        /\ r.tmp = q.tmp /\ r.spool = q.spool /\ r.todo = q.todo
        /\ r.file = q.file /\ r.pos = q.pos /\ r.state = "breakreply"
    BY <1>1 DEF Process
  <1>6. m \in Packet /\ m.type = "H" /\ Command(Other(h), m)
    BY Messages DEF Types, Command
  <1> HIDE DEF r, m
  <1>7. Fit(h, r)
    BY <1>1, <1>4, <1>5 DEF Fit
  <1>8. ASSUME p'[h] = r PROVE Roles(h)' /\ Work(h)' /\ Behind(h)'
    BY <1>3, <1>5, <1>7, <1>8 DEF Roles, Work, Behind, Fit, Chosen, Transfer, Working
  <1> QED
    BY <1>1, <1>2, <1>5, <1>6, <1>7, <1>8, Asking DEF Leading

-----------------------------------------------------------------------------
(***************************************************************************)
(* Answers and commands that are read.                                     *)
(***************************************************************************)
\* h goes on and has read a packet.
LEMMA MovedPop ==
  ASSUME XferInv, NEW h \in Hosts, NEW q, Fit(h, q), become(h, q), Keeps(Other(h)),
         p[h].state \in Reading, inb[h] # <<>>, Head(inb[h]).type # "CLOSE", pop(h),
         Roles(h)', Work(h)', Behind(h)', Busy(h)' => Mail(h)',
         Busy(Other(h)) => Turns'
  PROVE  XferInv'
  <1> DEFINE o == Other(h)
  <1>1. TypeOK /\ Closed(h) /\ Closed(o) /\ (Busy(o) => Mail(o)) /\ o \in Hosts
    BY Known, HostFacts
  <1>2. p'[h] = q /\ p'[o] = p[o] /\ Holds(h)'
    BY <1>1, Becoming
  <1>3. Stays(h)
    BY DEF Stays, Reading
  <1>4. InboxesOK' /\ Closed(h)' /\ Closed(o)' /\ inb'[o] = inb[o]
    BY <1>1, <1>2, <1>3, Popped DEF pop
  <1>5. up' \in BOOLEAN /\ resend' \in BOOLEAN
    BY <1>1 DEF TypeOK, pop
  <1>6. Busy(o) => Mail(o)'
    BY <1>1, <1>2, <1>4, MailSame
  <1>7. Safe(h)'
    BY <1>2, <1>4 DEF Safe, Self
  <1>8. Turns'
    <2>1. CASE Busy(o)
      BY <2>1
    <2>2. CASE ~Busy(o)
      BY <2>2, <1>1, <1>2 DEF Turns, Busy
    <2> QED
      BY <2>1, <2>2
  <1> QED
    BY <1>4, <1>5, <1>6, <1>7, <1>8, Moved

\* A packet that is read: what was said of it, and what is left.
LEMMA Reads ==
  ASSUME XferInv, NEW h \in Hosts, p[h].state \in Reading,
         inb[h] # <<>>, Head(inb[h]).type # "CLOSE", pop(h), p'[Other(h)] = p[Other(h)]
  PROVE  /\ Mail(h) /\ Busy(h) /\ Head(inb[h]) = inb[h][1] /\ inb[h][1] \in Packet
         /\ Words(inb[h]) \in Nat /\ Words(inb[h]) >= 1 /\ Len(inb[h]) \in Nat
         /\ Words(inb'[h]) = Words(inb[h]) - 1 /\ Len(inb'[h]) = Len(inb[h]) - 1
         /\ inb'[h] \in Seq(Packet) /\ Len(inb[h]) >= 1
         /\ \A i \in 1..Len(inb'[h]) : inb'[h][i] = inb[h][i + 1]
         /\ inb'[Other(h)] = inb[Other(h)] /\ up' = up
         /\ Busy(Other(h)) /\ Words(inb[h]) = 1 => inb'[h] = <<>>
         /\ Busy(Other(h)) => Both
  <1>1. /\ TypeOK /\ Closed(h) /\ Closed(Other(h)) /\ (Busy(h) => Mail(h))
        /\ inb[h] \in Seq(Packet)
    BY Known
  <1>2. Busy(h)
    BY DEF Busy, Reading, Gone
  <1>3. /\ InboxesOK' /\ inb'[Other(h)] = inb[Other(h)]
        /\ Head(inb[h]) = inb[h][1] /\ inb[h][1] \in Packet
        /\ Words(inb[h]) >= 1 /\ Len(inb[h]) >= 1
        /\ Words(inb'[h]) = Words(inb[h]) - 1 /\ Len(inb'[h]) = Len(inb[h]) - 1
        /\ \A i \in 1..Len(inb'[h]) : inb'[h][i] = inb[h][i + 1]
    BY <1>1, Popped DEF pop
  <1>4. Words(inb[h]) \in Nat /\ Len(inb[h]) \in Nat
    BY <1>1, WordsFacts
  <1>5. inb'[h] \in Seq(Packet)
    BY <1>3 DEF InboxesOK
  <1>6. Busy(Other(h)) /\ Words(inb[h]) = 1 => inb'[h] = <<>>
    <2> SUFFICES ASSUME Busy(Other(h)), Words(inb[h]) = 1 PROVE inb'[h] = <<>>
      OBVIOUS
    <2>1. Len(inb[h]) = 1
      BY OpenLine
    <2>2. Len(inb'[h]) = 0
      BY <2>1, <1>3
    <2> QED
      BY <2>2, <1>5, WordsFacts
  <1>7. Busy(Other(h)) => Both
    BY <1>2, TurnFacts
  <1>8. up' = up
    BY DEF pop
  <1> QED
    BY <1>1, <1>2, <1>3, <1>4, <1>5, <1>6, <1>7, <1>8

\* After the answer the master goes on.
LEMMA ReadAndLead ==
  ASSUME XferInv, NEW h \in Hosts, NEW q, Fit(h, q), become(h, q), Keeps(Other(h)),
         p[h].state \in Reading, inb[h] # <<>>, Head(inb[h]).type # "CLOSE", pop(h),
         Words(inb[h]) = 1, q.state = "request",
         Busy(Other(h)) => p[Other(h)].state = "recvhdr" /\ inb[Other(h)] = <<>>,
         Roles(h)', Behind(h)'
  PROVE  XferInv'
  <1> DEFINE o == Other(h)
  <1>1. p'[h] = q /\ p'[o] = p[o] /\ TypeOK /\ o \in Hosts
    BY Known, Becoming, HostFacts
  <1>2. Words(inb'[h]) = 0 /\ inb'[o] = inb[o] /\ up' = up
    BY <1>1, Reads
  <1>3. Mail(h)'
    BY <1>2, NoMail
  <1>4. Work(h)'
    BY <1>1 DEF Work, Working, Transfer
  <1>5. Busy(o) => Turns'
    <2> SUFFICES ASSUME Busy(o) PROVE Turns'
      OBVIOUS
    <2>1. Len(inb'[o]) = 0
      BY <1>2
    <2>2. Ready(o, 0)'
      BY <2>1, <1>1 DEF Ready, Gets
    <2>3. Leads(h)'
      BY <2>2, <1>1 DEF Leads
    <2> QED
      BY <2>3 DEF Turns
  <1> QED
    BY <1>3, <1>4, <1>5, MovedPop

\* After the answer the slave waits for a command.
LEMMA ReadAndFollow ==
  ASSUME XferInv, NEW h \in Hosts, NEW q, Fit(h, q), become(h, q), Keeps(Other(h)),
         inb[h] # <<>>, pop(h),
         \/ p[h].state = "eofreply" /\ ~p[h].master /\ Head(inb[h]).type = "CY"
         \/ p[h].state = "breakreply" /\ Head(inb[h]).type = "HN",
         QuietDisk, q.state = "recvhdr", Roles(h)', Behind(h)'
  PROVE  XferInv'
  <1> DEFINE o == Other(h)
             w == inb[h]
             v == inb'[h]
  <1>1. p'[h] = q /\ p'[o] = p[o] /\ TypeOK /\ o \in Hosts /\ Turns /\ Other(o) = h
    BY Known, Becoming, HostFacts
  <1>2. p[h].state \in Reading /\ Head(inb[h]).type # "CLOSE"
    BY DEF Reading
  <1>3. /\ Mail(h) /\ Head(w) = w[1] /\ Words(w) \in Nat /\ Words(w) >= 1 /\ Len(w) \in Nat
        /\ Words(v) = Words(w) - 1 /\ Len(v) = Len(w) - 1 /\ Len(w) >= 1 /\ v \in Seq(Packet)
        /\ \A i \in 1..Len(v) : v[i] = w[i + 1]
        /\ inb'[o] = inb[o] /\ up' = up /\ (Busy(o) => Both)
    BY <1>1, <1>2, Reads
  <1>4. Words(w) <= 2 /\ (Words(w) = 2 => Command(h, w[2]))
    BY <1>3 DEF Mail
  <1>5. Words(v) <= 1 /\ (Words(v) = 1 => v[1] = w[2] /\ Words(w) = 2)
    <2>1. Words(v) <= Len(v)
      BY <1>3, WordsFacts
    <2> QED
      BY <2>1, <1>3, <1>4
  <1>6. Words(v) = 1 => Command(h, inb[h][1])'
    <2>1. Words(v) = 1 => Command(h, v[1])
      BY <1>4, <1>5
    <2> QED
      BY <2>1 DEF Command, QuietDisk, disk, Kept
  <1>7. Mail(h)'
    BY <1>1, <1>5, <1>6 DEF Mail, Reading
  <1>8. Work(h)'
    BY <1>1 DEF Work, Working, Transfer
  <1>9. Busy(o) => Turns'
    <2> SUFFICES ASSUME Busy(o) PROVE Turns'
      OBVIOUS
    <2>1. Leads(o) \/ Asks(o)
      <3>1. First(h, {"HY"}) => p[h].state # "breakreply"
        BY <1>3 DEF First
      <3>2. p[h].state = "breakreply" => ~Answered(o)
        BY <1>1, <3>1 DEF Answered
      <3> QED
        BY <1>1, <1>3, <3>2, TurnToRead
    <2>2. CASE Leads(o)
      <3>1. Gets(h, 0 + 1)
        BY <2>2, <1>1 DEF Leads, Ready
      <3>2. Ready(h, 0)'
        <4>1. IF up THEN Len(v) = 0 ELSE Len(v) <= 0
          BY <3>1, <1>3 DEF Gets
        <4> QED
          BY <4>1, <1>1, <1>3 DEF Ready, Gets
      <3>3. Leads(o)'
        BY <2>2, <3>2, <1>1 DEF Leads
      <3> QED
        BY <3>3, <1>1 DEF Turns
    <2>3. CASE Asks(o)
      <3>1. Gets(h, 1 + 1) /\ inb[o] = <<>>
        BY <2>3, <1>1 DEF Asks, Ready
      <3>2. Ready(h, 1)'
        <4>1. IF up THEN Len(v) = 1 ELSE Len(v) <= 1
          BY <3>1, <1>3 DEF Gets
        <4> QED
          BY <4>1, <1>1, <1>3 DEF Ready, Gets
      <3>3. ASSUME NEW i \in DOMAIN v
            PROVE  i + 1 \in DOMAIN w /\ v[i] = w[i + 1]
        <4>1. DOMAIN v = 1..Len(v) /\ DOMAIN w = 1..Len(w)
          BY <1>1, <1>3, WordsFacts, Known
        <4>2. i \in 1..Len(v)
          BY <4>1
        <4>3. i + 1 \in 1..Len(w)
          <5> HIDE DEF v, w
          <5> QED
            BY <4>2, <1>3
        <4> QED
          BY <4>1, <4>2, <4>3, <1>3
      <3>4. \A i \in DOMAIN v : v[i].type \in {"S", "R", "H"} => Asked(o, v[i])
        BY <2>3, <3>3, <1>1 DEF Asks
      <3>5. Asks(o)'
        BY <2>3, <3>1, <3>2, <3>4, <1>1, <1>3 DEF Asks, Asked
      <3> QED
        BY <3>5, <1>1 DEF Turns
    <2> QED
      BY <2>1, <2>2, <2>3
  <1> QED
    BY <1>2, <1>7, <1>8, <1>9, MovedPop

LEMMA PutReplyStep ==
  ASSUME XferInv, NEW h \in Hosts, PutReply(h)
  PROVE  XferInv'
  <1> DEFINE q == p[h]
             o == Other(h)
             m == Head(inb[h])
             f == q.file
  <1>1. /\ Fit(h, q) /\ q \in Process /\ TypeOK /\ Roles(h) /\ Work(h) /\ Behind(h)
        /\ q.state = "putreply" /\ o \in Hosts /\ Other(o) = h /\ Turns
    BY Known, HostFacts DEF PutReply, awaits
  <1>2. inb[h] # <<>> /\ m.type \in {"SY", "SN"} /\ m.type # "CLOSE" /\ pop(h)
        /\ q.state \in Reading /\ q.state \notin {"closing", "over"}
    BY DEF PutReply, awaits, Reading
  <1>3. /\ q.job \in queue /\ At[q.job] = h /\ q.master /\ q.job # None
        /\ q.line <= Len(Lines[q.job]) /\ q.line >= 1 /\ f = Lines[q.job][q.line].file
        /\ f \in Files /\ Giver(f) = h /\ f \in src
    BY <1>1 DEF Roles, Chosen, Work, Working, Giving
  <1>4. QuietDisk
    <2>1. refused' \in {refused, refused \cup {f}}
      BY DEF PutReply
    <2> QED
      BY <2>1, <1>1, <1>3 DEF PutReply, QuietDisk, TypeOK
  <1>5. /\ \A g : Done(g) => StillDone(g)
        /\ queue' = queue /\ src' = src
    BY <1>4 DEF QuietDisk, disk, Done, Arrived, StillDone, StillArrived
  <1>6. Words(inb[h]) = 1 /\ Head(inb[h]) = inb[h][1]
    <2>1. p'[o] = p[o]
      BY <1>1, HostFacts DEF PutReply, become, TypeOK
    <2>2. Mail(h) /\ Words(inb[h]) \in Nat /\ Words(inb[h]) >= 1 /\ Head(inb[h]) = inb[h][1]
      BY <1>2, <2>1, Reads
    <2> QED
      BY <1>1, <2>2 DEF Mail
  <1>7. Busy(o) => Both /\ Answered(o)
    <2> SUFFICES ASSUME Busy(o) PROVE Both /\ Answered(o)
      OBVIOUS
    <2>1. Both
      BY <1>1, TurnFacts DEF Busy, Gone
    <2> QED
      BY <2>1, <1>1, <1>2, TurnToRead
  <1>8. CASE m.type = "SN"
    <2> DEFINE r == [q EXCEPT !.stream = FALSE]
               s == FileDone(r)
    <2>1. /\ become(h, s) /\ refused' = refused \cup {f}
      BY <1>8 DEF PutReply
    <2>2. r \in Process
      BY <1>1 DEF Process
    <2>3. /\ r.master = q.master /\ r.job = q.job /\ r.line = q.line /\ ~r.stream
          /\ r.errs = q.errs /\ r.tmp = q.tmp /\ r.spool = q.spool /\ r.todo = q.todo
          /\ r.file = q.file /\ r.pos = q.pos
      BY <1>1 DEF Process
    <2> HIDE DEF r
    <2>4. Fit(h, r)
      BY <1>1, <2>2, <2>3 DEF Fit
    <2>5. Fit(h, s) /\ Finishes(s, r)
      BY <2>4, Finishing
    <2> HIDE DEF s
    <2>6. p'[h] = s /\ Keeps(o)
      BY <1>1, <1>4, <2>1, <2>5, Becoming, QuietStep
    <2>7. Roles(h)'
      BY <1>1, <1>3, <1>5, <2>3, <2>5, <2>6 DEF Roles, Fit, Finishes, Chosen, Transfer
    <2>8. ASSUME ~q.errs, NEW n \in DOMAIN Lines[q.job], n < q.line \/ n = q.line
          PROVE  StillDone(Lines[q.job][n].file)
      <3>1. n < q.line => Done(Lines[q.job][n].file)
        BY <1>1, <1>3, <2>8 DEF Behind
      <3>2. StillDone(f)
        BY <2>1 DEF StillDone
      <3> QED
        BY <1>3, <1>5, <2>8, <3>1, <3>2
    <2>9. Behind(h)'
      BY <2>3, <2>5, <2>6, <2>8 DEF Behind, Finishes, StillDone, StillArrived, Done, Arrived
    <2>10. Busy(o) => p[o].state = "recvhdr" /\ inb[o] = <<>>
      BY <1>1, <1>2, <1>6, <1>7, <1>8 DEF Answered, First
    <2> QED
      BY <1>2, <1>3, <1>6, <2>1, <2>3, <2>5, <2>6, <2>7, <2>9, <2>10, ReadAndLead DEF Finishes
  <1>9. CASE m.type = "SY" /\ m.off > Size[f]
    <2>1. become(h, Abort(q))
      BY <1>9 DEF PutReply
    <2>2. Fit(h, Abort(q)) /\ Quits(Abort(q))
      BY <1>1, Quitting
    <2>3. Keeps(o)
      BY <1>4, <2>1, <2>2, QuietStep
    <2> QED
      BY <1>2, <2>1, <2>2, <2>3, ReadOut
  <1>10. CASE m.type = "SY" /\ ~(m.off > Size[f])
    <2> DEFINE s == StartSending(q, f, m.off)
    <2>1. become(h, s)
      BY <1>10 DEF PutReply
    <2>2. m.off \in 0..Size[f] /\ m.off \in Nat /\ Size[f] \in Nat
      <3>1. m \in Packet
        BY <1>2, Known, WordsFacts, HeadTailProperties
      <3> QED
        BY <3>1, <1>3, <1>10, Constants DEF Packet
    <2>3. Fit(h, s) /\ Starts(s, q, f, m.off)
      BY <1>1, <1>3, <2>2, Starting
    <2> HIDE DEF s
    <2>4. p'[h] = s /\ p'[o] = p[o] /\ Keeps(o)
      BY <1>1, <1>4, <2>1, <2>3, Becoming, QuietStep
    <2>5. Roles(h)'
      BY <1>1, <1>3, <1>5, <2>3, <2>4 DEF Roles, Fit, Starts, Chosen, Transfer
    <2>6. Work(h)'
      BY <1>3, <1>5, <2>2, <2>3, <2>4 DEF Work, Starts, Working, Giving, Transfer
    <2>7. ASSUME ~q.errs, NEW n \in DOMAIN Lines[q.job], n < q.line
          PROVE  StillDone(Lines[q.job][n].file)
      BY <1>1, <1>3, <1>5, <2>7 DEF Behind
    <2>8. Behind(h)'
      BY <2>3, <2>4, <2>7 DEF Behind, Starts, StillDone, StillArrived, Done, Arrived
    <2>9. /\ Words(inb'[h]) = 0 /\ inb'[o] = inb[o] /\ up' = up
          /\ Busy(o) => inb'[h] = <<>>
      BY <1>2, <1>6, <2>4, Reads
    <2>10. Mail(h)'
      BY <2>9, NoMail
    <2>11. Busy(o) => Turns'
      <3> SUFFICES ASSUME Busy(o) PROVE Turns'
        OBVIOUS
      <3>1. /\ inb[o] = <<>> /\ p[o].state = "recvdata" /\ ~p[o].master /\ Same(o)
            /\ m.off = Len(temp[p[o].tmp])
        BY <1>1, <1>2, <1>6, <1>7, <1>10 DEF Answered, First
      <3>2. DOMAIN inb[o] = {} /\ Len(inb[o]) = 0
        BY <3>1
      <3>3. temp' = temp
        BY <1>4 DEF QuietDisk, disk
      <3>4. s.pos = Len(temp[p[o].tmp]) + Len(inb[o])
        BY <2>2, <2>3, <3>1, <3>2 DEF Starts
      <3>5. Sends(h)'
        BY <1>1, <1>3, <2>3, <2>4, <2>9, <3>1, <3>2, <3>3, <3>4
        DEF Sends, Starts, Same
      <3> QED
        BY <3>5 DEF Turns
    <2> QED
      BY <1>2, <2>1, <2>3, <2>4, <2>5, <2>6, <2>8, <2>10, <2>11, MovedPop
  <1> QED
    BY <1>2, <1>8, <1>9, <1>10

LEMMA BreakHNStep ==
  ASSUME XferInv, NEW h \in Hosts, BreakHN(h)
  PROVE  XferInv'
  <1> DEFINE q == p[h]
             o == Other(h)
  <1>1. /\ Fit(h, q) /\ q \in Process /\ TypeOK /\ Roles(h) /\ q.state = "breakreply"
    BY Known DEF BreakHN, awaits
  <1>2. inb[h] # <<>> /\ Head(inb[h]).type = "HN" /\ Head(inb[h]).type # "CLOSE" /\ pop(h)
        /\ q.state \in Reading /\ q.state \notin {"closing", "over"}
    BY DEF BreakHN, awaits, Reading
  <1>3. QuietDisk
    BY <1>1 DEF BreakHN, QuietDisk, hist, TypeOK
  <1>4. q.job = None /\ q.master /\ ~q.stream
    BY <1>1 DEF Roles, Chosen, Transfer
  <1>5. CASE become(h, [q EXCEPT !.state = "endp"])
    <2> DEFINE r == [q EXCEPT !.state = "endp"]
    <2>1. Fit(h, r) /\ Quits(r)
      BY <1>1, <1>4 DEF Fit, Quits, Process, States, Gone
    <2>2. become(h, r)
      BY <1>5
    <2> HIDE DEF r
    <2>3. Keeps(o)
      BY <1>3, <2>1, <2>2, QuietStep
    <2> QED
      BY <1>2, <2>1, <2>2, <2>3, ReadOut
  <1>6. CASE become(h, Slave(q))
    <2> DEFINE s == Slave(q)
    <2>1. Fit(h, s) /\ s.state = "recvhdr" /\ ~s.master /\ s.job = None /\ ~s.stream
      BY <1>1, <1>4, Turning
    <2>2. become(h, s)
      BY <1>6
    <2> HIDE DEF s
    <2>3. p'[h] = s /\ Keeps(o)
      BY <1>1, <1>3, <2>1, <2>2, Becoming, QuietStep
    <2>4. Roles(h)' /\ Behind(h)'
      BY <2>1, <2>3, Constants DEF Roles, Behind, Fit, Chosen, Transfer
    <2> QED
      BY <1>1, <1>2, <1>3, <2>1, <2>2, <2>3, <2>4, ReadAndFollow
  <1> QED
    BY <1>5, <1>6 DEF BreakHN

LEMMA ChkReplyStep ==
  ASSUME XferInv, NEW h \in Hosts, ChkReply(h)
  PROVE  XferInv'
  <1> DEFINE q == p[h]
             o == Other(h)
             r == [q EXCEPT !.state = "endp"]
  <1>1. /\ Fit(h, q) /\ q \in Process /\ TypeOK /\ Roles(h) /\ q.state = "chkreply"
    BY Known DEF ChkReply, awaits
  <1>2. inb[h] # <<>> /\ Head(inb[h]).type # "CLOSE" /\ pop(h)
        /\ q.state \in Reading /\ q.state \notin {"closing", "over"} /\ become(h, r)
    BY DEF ChkReply, awaits, Reading
  <1>3. QuietDisk
    BY <1>1 DEF ChkReply, QuietDisk, hist, TypeOK
  <1>4. q.job = None /\ ~q.stream
    BY <1>1 DEF Roles, Chosen, Transfer
  <1>5. Fit(h, r) /\ Quits(r)
    BY <1>1, <1>4 DEF Fit, Quits, Process, States, Gone
  <1> HIDE DEF r
  <1>6. Keeps(o)
    BY <1>2, <1>3, <1>5, QuietStep
  <1> QED
    BY <1>2, <1>5, <1>6, ReadOut

LEMMA BreakHYStep ==
  ASSUME XferInv, NEW h \in Hosts, BreakHY(h)
  PROVE  XferInv'
  <1> DEFINE o == Other(h)
             q == [p[h] EXCEPT !.state = "endp", !.hstatus = "called"]
             rest == Tail(inb[h])
             m == Word("HY")
             w == inb[o]
             v == Append(w, m)
  <1>1. /\ Fit(h, p[h]) /\ p[h] \in Process /\ TypeOK /\ Roles(h) /\ p[h].state = "breakreply"
        /\ Closed(h) /\ Closed(o) /\ (Busy(o) => Mail(o)) /\ (Busy(h) => Mail(h))
        /\ o \in Hosts /\ Other(o) = h /\ o # h /\ Turns
        /\ inb[h] \in Seq(Packet) /\ w \in Seq(Packet) /\ InboxesOK
    BY Known, HostFacts DEF BreakHY, awaits
  <1>2. inb[h] # <<>> /\ Head(inb[h]).type = "HY" /\ Head(inb[h]).type # "CLOSE"
        /\ UNCHANGED <<up, resend>> /\ p[h].state \notin {"closing", "over"}
    BY DEF BreakHY, awaits
  <1>3. QuietDisk
    BY <1>1 DEF BreakHY, QuietDisk, hist, TypeOK, disk
  <1>4. p[h].job = None /\ ~p[h].stream
    BY <1>1 DEF Roles, Chosen, Transfer
  <1>5. Fit(h, q) /\ Quits(q)
    BY <1>1, <1>4 DEF Fit, Quits, Process, States, Statuses, Gone
  <1>6. CASE become(h, Lost(q)) /\ inb' = [inb EXCEPT ![h] = rest]
    <2>1. Fit(h, Lost(q)) /\ Quits(Lost(q))
      BY <1>5, Quitting
    <2>2. Keeps(o)
      BY <1>3, <1>6, <2>1, QuietStep
    <2>3. pop(h)
      BY <1>2, <1>6 DEF pop
    <2> HIDE DEF q
    <2> QED
      BY <1>2, <1>6, <2>1, <2>2, <2>3, ReadOut
  <1>7. CASE /\ become(h, q)
             /\ inb' = [inb EXCEPT ![h] = rest, ![o] = Append(@, m)]
    <2> HIDE DEF q, m
    <2>1. p'[h] = q /\ p'[o] = p[o] /\ Keeps(o)
      BY <1>1, <1>3, <1>5, <1>7, Becoming, QuietStep
    <2>2. Self(h)' /\ ~Busy(h)' /\ Turns'
      BY <1>1, <1>5, <1>7, Leaves
    <2>3. m \in Packet /\ m.type = "HY"
      BY Messages DEF Types, m
    <2>4. /\ v \in Seq(Packet) /\ v # <<>> /\ Len(v) = Len(w) + 1
          /\ (\A i \in 1..Len(w) : v[i] = w[i]) /\ v[Len(w) + 1] = m
      BY <1>1, <2>3, AppendProperties
    <2>5. /\ rest \in Seq(Packet) /\ Len(rest) = Len(inb[h]) - 1
          /\ \A i \in 1..Len(rest) : rest[i] = inb[h][i + 1]
      BY <1>1, <1>2, HeadTailProperties
    <2>6. inb'[h] = rest /\ inb'[o] = v /\ InboxesOK'
      <3> HIDE DEF rest
      <3>1. inb'[h] = rest
        BY <1>1, <1>7 DEF InboxesOK
      <3>2. inb'[o] = v
        BY <1>1, <1>7 DEF InboxesOK
      <3>3. inb' \in [Hosts -> Seq(Packet)]
        <4>1. inb' = [[inb EXCEPT ![h] = rest] EXCEPT ![o] = v]
          BY <1>1, <1>7 DEF InboxesOK
        <4> QED
          BY <1>1, <2>4, <2>5, <4>1 DEF InboxesOK
      <3> QED
        BY <3>1, <3>2, <3>3 DEF InboxesOK
    <2>7. /\ Len(w) \in Nat /\ DOMAIN w = 1..Len(w) /\ DOMAIN v = 1..(Len(w) + 1)
          /\ Len(inb[h]) \in Nat /\ DOMAIN inb[h] = 1..Len(inb[h])
          /\ DOMAIN rest = 1..(Len(inb[h]) - 1)
      BY <1>1, <2>4, <2>5, WordsFacts
    <2>8. Closed(h)'
      <3>1. ASSUME NEW i \in 1..(Len(inb[h]) - 1)
            PROVE  /\ i + 1 \in 1..Len(inb[h]) /\ rest[i] = inb[h][i + 1]
                   /\ i + 1 = Len(inb[h]) => i = Len(inb[h]) - 1
        BY <2>5, <2>7
      <3>2. ASSUME NEW i \in DOMAIN rest, rest[i].type = "CLOSE"
            PROVE  i = Len(rest) /\ p[o].state \in {"closing", "over"}
        <4>1. i \in 1..(Len(inb[h]) - 1)
          BY <2>7
        <4>2. inb[h][i + 1].type = "CLOSE" /\ i + 1 \in DOMAIN inb[h]
          BY <2>7, <3>1, <3>2, <4>1
        <4>3. i + 1 = Len(inb[h]) /\ p[o].state \in {"closing", "over"}
          BY <1>1, <4>2 DEF Closed
        <4> QED
          BY <2>5, <3>1, <4>1, <4>3
      <3> QED
        BY <2>1, <2>6, <3>2 DEF Closed
    <2>9. Closed(o)'
      <3>1. \A i \in 1..Len(w) : w[i].type # "CLOSE"
        BY <1>1, <1>2, <2>7 DEF Closed
      <3>2. \A i \in 1..(Len(w) + 1) : i \in 1..Len(w) \/ i = Len(w) + 1
        BY <2>7
      <3>3. \A i \in 1..(Len(w) + 1) : v[i].type # "CLOSE"
        BY <2>3, <2>4, <3>1, <3>2
      <3> QED
        BY <2>6, <2>7, <3>3 DEF Closed
    <2>10. Busy(o) => Mail(o)'
      <3> SUFFICES ASSUME Busy(o) PROVE Mail(o)'
        OBVIOUS
      <3>1. Both
        BY <1>1, TurnFacts DEF Busy, Gone
      <3>2. Head(inb[h]) = inb[h][1]
        BY <1>1, <1>2, WordsFacts
      <3>3. Answered(o)
        <4>1. Leads(o) \/ Asks(o) => First(h, {"HN"})
          BY <1>1 DEF Leads, Asks, Ready
        <4>2. ~First(h, {"HN"})
          BY <1>2, <3>2 DEF First
        <4> QED
          BY <1>1, <1>2, <3>1, <4>1, <4>2, TurnToRead
      <3>4. p[o].state = "chkreply" /\ w = <<>>
        BY <1>1, <3>3 DEF Answered
      <3>5. v[1] = m /\ Words(v) = 1
        <4>1. Len(w) = 0
          BY <3>4
        <4>2. Len(v) = 1 /\ v[1] = m /\ v[Len(v)].type # "CLOSE"
          BY <2>3, <2>4, <4>1
        <4> QED
          BY <2>4, <4>2, WordsFacts
      <3> QED
        BY <2>1, <2>3, <2>6, <3>4, <3>5 DEF Mail, Reading
    <2>11. Safe(h)' /\ up' \in BOOLEAN /\ resend' \in BOOLEAN
      BY <1>1, <1>2, <2>2, <2>8 DEF Safe, TypeOK
    <2> QED
      BY <1>5, <1>7, <2>1, <2>2, <2>6, <2>9, <2>10, <2>11, Moved
  <1> QED
    BY <1>2, <1>6, <1>7 DEF BreakHY

LEMMA RecvHdrStep ==
  ASSUME XferInv, NEW h \in Hosts, RecvHdr(h)
  PROVE  XferInv'
  <1> DEFINE q == p[h]
             o == Other(h)
             m == Head(inb[h])
             s == IF m.type = "H" THEN [q EXCEPT !.state = "noremote"]
                  ELSE [q EXCEPT !.state = IF m.type = "S" THEN "takefile" ELSE "givefile",
                                 !.file = m.file, !.pos = 0, !.tried = {}]
  <1>1. /\ Fit(h, q) /\ q \in Process /\ TypeOK /\ Roles(h)
        /\ q.state = "recvhdr" /\ o \in Hosts /\ Other(o) = h /\ Turns
    BY Known, HostFacts DEF RecvHdr, awaits
  <1>2. inb[h] # <<>> /\ m.type \in {"S", "R", "H"} /\ m.type # "CLOSE" /\ pop(h)
        /\ q.state \in Reading /\ q.state \notin {"closing", "over"} /\ become(h, s)
    BY DEF RecvHdr, awaits, Reading
  <1>3. QuietDisk
    BY <1>1 DEF RecvHdr, QuietDisk, hist, TypeOK
  <1>4. q.job = None /\ ~q.stream /\ ~q.master
    BY <1>1 DEF Roles, Chosen, Transfer
  <1>5. /\ Words(inb[h]) = 1 /\ m = inb[h][1] /\ Command(h, m)
    <2>1. p'[o] = p[o]
      BY <1>1, <1>2, HostFacts DEF become, TypeOK
    <2>2. Mail(h) /\ Words(inb[h]) \in Nat /\ Words(inb[h]) >= 1 /\ Head(inb[h]) = inb[h][1]
      BY <1>2, <2>1, Reads
    <2> QED
      BY <1>1, <2>2 DEF Mail
  <1>6. /\ s \in Process /\ s.job = None /\ ~s.stream /\ ~s.master /\ s.todo = q.todo
        /\ s.tmp = q.tmp /\ s.spool = q.spool
        /\ s.file # None => s.pos <= Size[s.file]
        /\ m.type = "H" => s.state = "noremote"
        /\ m.type = "S" => s.state = "takefile" /\ s.file = m.file
        /\ m.type = "R" => s.state = "givefile" /\ s.file = m.file
    <2>1. CASE m.type = "H"
      BY <1>1, <1>4, <2>1 DEF Process, States, Fit
    <2>2. CASE m.type # "H"
      <3>1. m.file \in Files /\ m.type \in {"S", "R"}
        BY <1>2, <1>5, <2>2 DEF Command
      <3>2. 0 <= Size[m.file]
        BY <3>1, Constants
      <3>3. ASSUME NEW st \in {"takefile", "givefile"}, NEW f \in Files
            PROVE  LET r == [q EXCEPT !.state = st, !.file = f, !.pos = 0, !.tried = {}]
                   IN /\ r \in Process /\ r.job = q.job /\ r.stream = q.stream
                      /\ r.master = q.master /\ r.todo = q.todo
                      /\ r.tmp = q.tmp /\ r.spool = q.spool
                      /\ r.file = f /\ r.pos = 0 /\ r.state = st
        BY <1>1 DEF Process, States
      <3>4. CASE m.type = "S"
        <4> DEFINE r == [q EXCEPT !.state = "takefile", !.file = m.file, !.pos = 0, !.tried = {}]
        <4>1. s = r
          BY <3>4
        <4>2. "takefile" \in {"takefile", "givefile"}
          OBVIOUS
        <4>3. /\ r \in Process /\ r.job = q.job /\ r.stream = q.stream
              /\ r.master = q.master /\ r.todo = q.todo /\ r.tmp = q.tmp /\ r.spool = q.spool
              /\ r.file = m.file /\ r.pos = 0 /\ r.state = "takefile"
          BY <3>1, <3>3, <4>2
        <4> HIDE DEF r, s, m
        <4> QED
          BY <1>4, <3>1, <3>2, <3>4, <4>1, <4>3
      <3>5. CASE m.type = "R"
        <4> DEFINE r == [q EXCEPT !.state = "givefile", !.file = m.file, !.pos = 0, !.tried = {}]
        <4>1. s = r
          BY <3>5
        <4>2. "givefile" \in {"takefile", "givefile"}
          OBVIOUS
        <4>3. /\ r \in Process /\ r.job = q.job /\ r.stream = q.stream
              /\ r.master = q.master /\ r.todo = q.todo /\ r.tmp = q.tmp /\ r.spool = q.spool
              /\ r.file = m.file /\ r.pos = 0 /\ r.state = "givefile"
          BY <3>1, <3>3, <4>2
        <4> HIDE DEF r, s, m
        <4> QED
          BY <1>4, <3>1, <3>2, <3>5, <4>1, <4>3
      <3> QED
        BY <3>1, <3>4, <3>5
    <2> QED
      BY <2>1, <2>2
  <1>7. Fit(h, s)
    BY <1>1, <1>6 DEF Fit
  <1> HIDE DEF s
  <1>8. p'[h] = s /\ p'[o] = p[o] /\ Keeps(o) /\ s.state \in {"noremote", "takefile", "givefile"}
    BY <1>1, <1>2, <1>3, <1>6, <1>7, Becoming, QuietStep
  <1>9. Roles(h)' /\ Behind(h)'
    BY <1>4, <1>6, <1>7, <1>8, Constants DEF Roles, Behind, Fit, Chosen, Transfer
  <1>10. Work(h)'
    <2>1. s.state = "takefile" => m.type = "S" /\ s.file = m.file
      BY <1>2, <1>6
    <2>2. s.state = "givefile" => m.type = "R" /\ s.file = m.file
      BY <1>2, <1>6
    <2>3. s.state = "takefile" => s.file \in Files /\ Giver(s.file) = o /\ StillKept(s.file)
      BY <1>3, <1>5, <2>1 DEF Command, Kept, StillKept, QuietDisk, disk
    <2>4. s.state = "givefile" => s.file \in Files /\ Giver(s.file) = h
      BY <1>5, <2>2 DEF Command
    <2> QED
      BY <1>6, <1>8, <2>3, <2>4 DEF Work, Working, Giving, Transfer, StillKept, Kept
  <1>11. /\ Words(inb'[h]) = 0 /\ inb'[o] = inb[o]
         /\ Busy(o) => inb'[h] = <<>> /\ Both
    BY <1>2, <1>5, <1>8, Reads
  <1>12. Mail(h)'
    BY <1>11, NoMail
  <1>13. Busy(o) => Turns'
    <2> SUFFICES ASSUME Busy(o) PROVE Turns'
      OBVIOUS
    <2>1. Asks(o)
      BY <1>1, <1>2, <1>11, TurnToRead
    <2>2. Asked(o, m) /\ inb[o] = <<>>
      <3>1. 1 \in DOMAIN inb[h]
        BY <1>1, <1>2, Known, WordsFacts
      <3> QED
        BY <1>1, <1>2, <1>5, <2>1, <3>1 DEF Asks
    <2>3. Answers(h)'
      BY <1>2, <1>6, <1>8, <1>11, <2>2 DEF Answers, Asked, Same
    <2> QED
      BY <2>3 DEF Turns
  <1> QED
    BY <1>2, <1>7, <1>8, <1>9, <1>10, <1>12, <1>13, MovedPop

LEMMA EofReplyStep ==
  ASSUME XferInv, NEW h \in Hosts, EofReply(h)
  PROVE  XferInv'
  <1> DEFINE q == p[h]
             o == Other(h)
             m == Head(inb[h])
             f == q.file
  <1>1. /\ Fit(h, q) /\ q \in Process /\ TypeOK /\ FilesOK /\ Roles(h) /\ Work(h) /\ Behind(h)
        /\ q.state = "eofreply" /\ o \in Hosts /\ Other(o) = h /\ o # h /\ Turns
        /\ Self(o) /\ DiskTypes
    BY Known, HostFacts DEF EofReply, awaits
  <1>2. inb[h] # <<>> /\ m.type \in {"CY", "CN"} /\ m.type # "CLOSE" /\ pop(h)
        /\ q.state \in Reading /\ q.state \notin {"closing", "over"}
    BY DEF EofReply, awaits, Reading
  <1>3. f \in Files /\ Giver(f) = h /\ f \in src /\ ~q.stream
    BY <1>1 DEF Work, Working, Giving, Transfer, Roles
  <1>4. UNCHANGED <<queue, temp, place, later, faults, delivered, refused>>
    BY DEF EofReply, hist
  <1>5. p'[o] = p[o]
    BY <1>1, HostFacts DEF EofReply, become, TypeOK
  <1>6. Mail(h) /\ Words(inb[h]) \in Nat /\ Words(inb[h]) >= 1 /\ m = inb[h][1]
        /\ (Busy(o) => Both)
    BY <1>2, <1>5, Reads
  <1>7. CASE m.type = "CN"
    <2>1. become(h, Abort(q)) /\ src' = src
      BY <1>7 DEF EofReply
    <2>2. Fit(h, Abort(q)) /\ Quits(Abort(q))
      BY <1>1, Quitting
    <2>3. QuietDisk
      BY <1>1, <1>4, <2>1 DEF QuietDisk, disk, DiskTypes
    <2>4. Keeps(o)
      BY <2>1, <2>2, <2>3, QuietStep
    <2> QED
      BY <1>2, <2>1, <2>2, <2>4, ReadOut
  <1>8. CASE m.type = "CY"
    <2> DEFINE s == FileDone(q)
    <2>1. become(h, s)
      BY <1>8 DEF EofReply
    <2>2. Fit(h, s) /\ Finishes(s, q)
      BY <1>1, Finishing
    <2> HIDE DEF s
    <2>3. Arrived(f) /\ (q.master => Words(inb[h]) = 1)
      BY <1>1, <1>6, <1>8 DEF Mail
    <2>4. p'[h] = s
      BY <1>1, <2>1, <2>2, Becoming
    <2>5. CASE q.master
      <3>1. src' = src \ ({f} \cap Copied)
        BY <1>8, <2>5 DEF EofReply
      <3>2. Busy(o) => p[o].state = "recvhdr" /\ inb[o] = <<>>
        <4>1. Busy(o) => Answered(o)
          BY <1>1, <1>2, <1>6, <2>5, TurnToRead
        <4> QED
          BY <1>1, <4>1 DEF Answered
      <3>3. FilesOK'
        <4>1. Temporary'
          BY <1>1, <1>4 DEF FilesOK, Temporary
        <4>2. Sources'
          BY <1>1, <1>4, <2>3, <3>1 DEF FilesOK, Sources, Arrived
        <4>3. NothingLost'
          BY <1>1, <1>4, <2>3, <3>1 DEF FilesOK, NothingLost, Arrived
        <4>4. Intact'
          BY <1>1, <1>4, <2>3, <3>1 DEF FilesOK, Intact, Arrived
        <4> QED
          BY <4>1, <4>2, <4>3, <4>4 DEF FilesOK
      <3>4. Self(o)'
        <4>1. p[o].job # None => p[o].job \in queue'
          BY <1>1, <1>4 DEF Self, Roles
        <4>2. p[o].state \in {"putreply", "senddata", "sendeof", "eofreply"} => p[o].file # f
          BY <1>1, <1>3 DEF Self, Work, Working, Giving, Transfer
        <4>3. p[o].state \notin {"takefile", "recvdata", "recveof"}
          BY <3>2 DEF Busy, Gone
        <4>4. p[o].job # None /\ ~p[o].errs =>
                \A n \in DOMAIN Lines[p[o].job] :
                   (n < p[o].line \/ (n = p[o].line /\ p[o].state = "request"))
                   /\ Done(Lines[p[o].job][n].file) => Done(Lines[p[o].job][n].file)'
          BY <1>4, <1>5 DEF Done, Arrived
        <4> QED
          BY <1>1, <1>5, <3>1, <4>1, <4>2, <4>3, <4>4, Undisturbed
      <3>5. Keeps(o)
        <4>1. DiskTypes'
          BY <1>1, <1>4, <3>1 DEF DiskTypes
        <4>2. Busy(o) => MailKept(o)
          <5>1. Busy(o) => Words(inb[o]) = 0
            BY <3>2 DEF Words
          <5> QED
            BY <3>2, <5>1 DEF MailKept
        <4> QED
          BY <3>3, <3>4, <4>1, <4>2 DEF Keeps
      <3>6. q.job # None /\ q.job \in queue /\ At[q.job] = h /\ q.line <= Len(Lines[q.job])
            /\ f = Lines[q.job][q.line].file
        BY <1>1, <2>5 DEF Roles, Work, Transfer, Working
      <3>7. Roles(h)'
        BY <1>1, <1>3, <1>4, <2>2, <2>4, <2>5, <3>6 DEF Roles, Fit, Finishes, Chosen, Transfer
      <3>8. \A g : Done(g) => StillDone(g)
        BY <1>4 DEF Done, StillDone, Arrived, StillArrived
      <3>9. ASSUME ~q.errs, NEW n \in DOMAIN Lines[q.job], n < q.line \/ n = q.line
            PROVE  StillDone(Lines[q.job][n].file)
        <4>1. n < q.line => Done(Lines[q.job][n].file)
          BY <1>1, <3>6, <3>9 DEF Behind
        <4>2. Done(f)
          BY <2>3 DEF Done
        <4> QED
          BY <3>6, <3>8, <3>9, <4>1, <4>2
      <3>10. Behind(h)'
        BY <2>2, <2>4, <3>9 DEF Behind, Finishes, StillDone, StillArrived, Done, Arrived
      <3> QED
        BY <1>2, <2>1, <2>2, <2>3, <2>4, <2>5, <3>2, <3>5, <3>7, <3>10, ReadAndLead DEF Finishes
    <2>6. CASE ~q.master
      <3>1. src' = src
        BY <1>8, <2>6 DEF EofReply
      <3>2. QuietDisk
        BY <1>1, <1>4, <3>1 DEF QuietDisk, disk, DiskTypes
      <3>3. Keeps(o)
        BY <2>1, <2>2, <3>2, QuietStep
      <3>4. q.job = None
        BY <1>1, <2>6 DEF Roles, Chosen
      <3>5. Roles(h)' /\ Behind(h)'
        BY <1>1, <1>3, <2>2, <2>4, <2>6, <3>4, Constants
        DEF Roles, Behind, Fit, Finishes, Chosen, Transfer
      <3>6. s.state = "recvhdr"
        BY <2>2, <2>6 DEF Finishes
      <3> QED
        BY <1>1, <1>2, <1>8, <2>1, <2>2, <2>6, <3>2, <3>3, <3>5, <3>6, ReadAndFollow
    <2> QED
      BY <2>5, <2>6
  <1> QED
    BY <1>2, <1>7, <1>8

-----------------------------------------------------------------------------
(***************************************************************************)
(* The receiver.                                                           *)
(***************************************************************************)
\* h writes the temporary file of f, which the other host sends.
LEMMA TempChange ==
  ASSUME XferInv, OwnTemps, NEW h \in Hosts, NEW f \in Files, Giver(f) = Other(h),
         NEW c \in {None} \cup Prefixes(f), temp' = [temp EXCEPT ![Tmp[f]] = c],
         UNCHANGED <<queue, src, place, later, delivered, refused>>,
         faults' \in 0..MaxFaults, p'[Other(h)] = p[Other(h)]
  PROVE  /\ Keeps(Other(h)) /\ temp'[Tmp[f]] = c
         /\ \A g : Done(g) => StillDone(g)
  <1> DEFINE o == Other(h)
  <1>1. TypeOK /\ FilesOK /\ Self(o) /\ DiskTypes /\ o \in Hosts /\ o # h
    BY Known, HostFacts
  <1>2. Tmp[f] \in Temps /\ temp'[Tmp[f]] = c
    BY <1>1, Constants DEF TypeOK
  <1>3. c \in Contents
    BY PartFacts DEF Contents
  <1>4. DiskTypes'
    BY <1>1, <1>3 DEF DiskTypes
  <1>5. \A g \in Files : g # f => temp'[Tmp[g]] = temp[Tmp[g]]
    BY <1>1, Constants DEF OwnTemps, TypeOK
  <1>6. FilesOK'
    <2>1. Temporary'
      BY <1>1, <1>2, <1>5 DEF FilesOK, Temporary
    <2>2. Sources' /\ NothingLost' /\ Intact'
      BY <1>1 DEF FilesOK, Sources, NothingLost, Intact, Arrived
    <2> QED
      BY <2>1, <2>2 DEF FilesOK
  <1>7. p[o].state \in {"recvdata", "recveof"} => temp'[p[o].tmp] = temp[p[o].tmp]
    <2>1. p[o].state \in {"recvdata", "recveof"} =>
             p[o].file \in Files /\ Giver(p[o].file) = Other(o) /\ p[o].tmp = Tmp[p[o].file]
      BY <1>1 DEF Self, Work, Working, Giving, Transfer
    <2>2. Other(o) = h
      BY HostFacts
    <2> QED
      BY <1>1, <1>5, <2>1, <2>2
  <1>8. Self(o)'
    <2>1. p[o].job # None => p[o].job \in queue'
      BY <1>1 DEF Self, Roles
    <2>2. Kept(p[o].file) => Kept(p[o].file)'
      BY DEF Kept
    <2>3. p[o].job # None /\ ~p[o].errs =>
            \A n \in DOMAIN Lines[p[o].job] :
               (n < p[o].line \/ (n = p[o].line /\ p[o].state = "request"))
               /\ Done(Lines[p[o].job][n].file) => Done(Lines[p[o].job][n].file)'
      BY DEF Done, Arrived
    <2> QED
      BY <1>1, <1>7, <2>1, <2>2, <2>3, Undisturbed
  <1>9. MailKept(o)
    BY <1>7 DEF MailKept, Kept, StillKept, Arrived, StillArrived
  <1>10. \A g : Done(g) => StillDone(g)
    BY DEF Done, StillDone, Arrived, StillArrived
  <1> QED
    BY <1>2, <1>4, <1>6, <1>8, <1>9, <1>10 DEF Keeps

\* What is left of a stream.
LEMMA StreamGoesOn ==
  ASSUME NEW w \in Seq(Packet), NEW v \in Seq(Packet), Words(w) >= 1,
         Words(v) = Words(w) - 1, NEW f,
         \A i \in 1..Len(v) : v[i] = w[i + 1]
  PROVE  /\ Stream(w, 2, 0, f) => Stream(v, 1, 0, f)
         /\ \A b \in Nat : Stream(w, 1, b, f) /\ w[1].type = "data" => Stream(v, 1, b + 1, f)
  <1>1. /\ Words(w) \in Nat /\ Words(v) \in Nat /\ Words(v) <= Len(v)
        /\ Len(v) \in Nat
    BY WordsFacts
  <1>2. ASSUME NEW i \in 1..Words(v)
        PROVE  /\ i + 1 \in 2..Words(w) /\ i + 1 \in 1..Words(w) /\ v[i] = w[i + 1]
               /\ i + 1 = Words(w) => i = Words(v)
    BY <1>1
  <1>3. ASSUME Stream(w, 2, 0, f)
        PROVE  Stream(v, 1, 0, f)
    <2> SUFFICES ASSUME NEW i \in 1..Words(v)
                 PROVE  \/ /\ v[i].type = "data" /\ v[i].file = f
                           /\ v[i].off = 0 + (i - 1) + 1 /\ v[i].off <= Size[f]
                        \/ v[i].type = "eof" /\ i = Words(v) /\ 0 + (i - 1) = Size[f]
      BY DEF Stream
    <2>1. \/ /\ v[i].type = "data" /\ v[i].file = f
             /\ v[i].off = 0 + ((i + 1) - 2) + 1 /\ v[i].off <= Size[f]
          \/ v[i].type = "eof" /\ i + 1 = Words(w) /\ 0 + ((i + 1) - 2) = Size[f]
      BY <1>2, <1>3 DEF Stream
    <2>2. (i + 1) - 2 = i - 1
      BY <1>1
    <2> QED
      BY <1>2, <2>1, <2>2
  <1>4. ASSUME NEW b \in Nat, Stream(w, 1, b, f)
        PROVE  Stream(v, 1, b + 1, f)
    <2> SUFFICES ASSUME NEW i \in 1..Words(v)
                 PROVE  \/ /\ v[i].type = "data" /\ v[i].file = f
                           /\ v[i].off = (b + 1) + (i - 1) + 1 /\ v[i].off <= Size[f]
                        \/ v[i].type = "eof" /\ i = Words(v) /\ (b + 1) + (i - 1) = Size[f]
      BY DEF Stream
    <2>1. \/ /\ v[i].type = "data" /\ v[i].file = f
             /\ v[i].off = b + ((i + 1) - 1) + 1 /\ v[i].off <= Size[f]
          \/ v[i].type = "eof" /\ i + 1 = Words(w) /\ b + ((i + 1) - 1) = Size[f]
      BY <1>2, <1>4 DEF Stream
    <2>2. b + ((i + 1) - 1) = (b + 1) + (i - 1)
      BY <1>1
    <2> QED
      BY <1>2, <2>1, <2>2
  <1> QED
    BY <1>3, <1>4

\* The sender stays in its turn when the receiver has read one more packet.
LEMMA SenderGoesOn ==
  ASSUME NEW x \in Hosts, NEW o, o = Other(x), Other(o) = x, Sends(x),
         inb[o] \in Seq(Packet), inb'[o] \in Seq(Packet),
         p'[x] = p[x], inb'[x] = inb[x], up' = up, up \in BOOLEAN,
         p'[o].master = p[o].master, p'[o].file = p[o].file,
         p'[o].state = "recvdata", p[o].state \in {"getreply", "recvdata"},
         inb[o] # <<>>, inb[o][1].type # "eof",
         Len(inb'[o]) = Len(inb[o]) - 1,
         \A i \in 1..Len(inb'[o]) : inb'[o][i] = inb[o][i + 1],
         Len(temp'[p'[o].tmp]) = IF p[o].state = "getreply" THEN 0 ELSE Len(temp[p[o].tmp]) + 1,
         p[o].state = "recvdata" => Len(temp[p[o].tmp]) \in Nat
  PROVE  Sends(x)'
  <1> DEFINE w == inb[o]
             v == inb'[o]
  <1>1. /\ Len(w) \in Nat /\ Len(w) >= 1 /\ Len(v) \in Nat /\ Len(v) = Len(w) - 1
        /\ DOMAIN v = 1..Len(v) /\ DOMAIN w = 1..Len(w) /\ (v = <<>> <=> Len(v) = 0)
    <2>1. /\ Len(w) \in Nat /\ DOMAIN w = 1..Len(w) /\ (w = <<>> <=> Len(w) = 0)
      BY WordsFacts
    <2>2. /\ Len(v) \in Nat /\ DOMAIN v = 1..Len(v) /\ (v = <<>> <=> Len(v) = 0)
      BY WordsFacts
    <2>3. Len(w) # 0 /\ Len(v) = Len(w) - 1
      BY <2>1
    <2> HIDE DEF v, w
    <2> QED
      BY <2>1, <2>2, <2>3
  <1>2. \A i \in DOMAIN v : v[i] = w[i + 1] /\ i + 1 \in DOMAIN w
    <2>1. ASSUME NEW i \in 1..Len(v) PROVE i + 1 \in 1..Len(w)
      <3> HIDE DEF v, w
      <3> QED
        BY <1>1
    <2> QED
      BY <2>1, <1>1
  <1>3. \A i \in DOMAIN v : v[i].type = "eof" => p[x].state = "eofreply"
    BY <1>2 DEF Sends
  <1>4. ASSUME up, p[x].state = "eofreply"
        PROVE  v # <<>> /\ v[Len(v)].type = "eof"
    <2>1. w[Len(w)].type = "eof"
      BY <1>4 DEF Sends
    <2>2. Len(w) # 1
      BY <2>1
    <2>3. Len(v) \in 1..Len(v) /\ Len(v) + 1 = Len(w) /\ Len(v) # 0
      <3> HIDE DEF v, w
      <3> QED
        BY <1>1, <2>2
    <2>4. v[Len(v)] = w[Len(v) + 1]
      BY <1>1, <1>2, <2>3
    <2> QED
      BY <1>1, <2>1, <2>3, <2>4
  <1>5. ASSUME up, p[x].state # "eofreply"
        PROVE  p[x].pos = Len(temp'[p'[o].tmp]) + Len(v)
    <2>1. CASE p[o].state = "getreply"
      <3>1. p[x].pos = Len(w) - 1
        BY <1>5, <2>1 DEF Sends
      <3> QED
        BY <2>1, <3>1, <1>1
    <2>2. CASE p[o].state = "recvdata"
      <3>1. p[x].pos = Len(temp[p[o].tmp]) + Len(w)
        BY <1>5, <2>2 DEF Sends
      <3>2. Len(temp[p[o].tmp]) + Len(w) = (Len(temp[p[o].tmp]) + 1) + Len(v)
        <4>1. Len(temp[p[o].tmp]) \in Nat
          BY <2>2
        <4> HIDE DEF v, w
        <4> QED
          BY <1>1, <4>1
      <3> QED
        BY <2>2, <3>1, <3>2
    <2> QED
      BY <2>1, <2>2
  <1>6. p[x].state \in {"senddata", "sendeof", "eofreply"} /\ inb[x] = <<>>
        /\ p[x].file = p[o].file /\ p[x].master # p[o].master
    BY DEF Sends, Same
  <1> QED
    BY <1>3, <1>4, <1>5, <1>6 DEF Sends, Same

LEMMA GetReplyStep ==
  ASSUME XferInv, OwnTemps, NEW h \in Hosts, GetReply(h)
  PROVE  XferInv'
  <1> DEFINE q == p[h]
             o == Other(h)
             m == Head(inb[h])
             f == q.file
  <1>1. /\ Fit(h, q) /\ q \in Process /\ TypeOK /\ Roles(h) /\ Work(h) /\ Behind(h)
        /\ q.state = "getreply" /\ o \in Hosts /\ Other(o) = h /\ o # h /\ Turns
        /\ DiskTypes /\ inb[h] \in Seq(Packet)
    BY Known, HostFacts DEF GetReply, awaits
  <1>2. inb[h] # <<>> /\ m.type \in {"RY", "RN"} /\ m.type # "CLOSE" /\ pop(h)
        /\ q.state \in Reading /\ q.state \notin {"closing", "over"}
    BY DEF GetReply, awaits, Reading
  <1>3. /\ q.job \in queue /\ At[q.job] = h /\ q.master /\ q.job # None /\ q.job \in Jobs
        /\ q.line <= Len(Lines[q.job]) /\ q.line >= 1 /\ f = Lines[q.job][q.line].file
        /\ f \in Files /\ Giver(f) = o /\ q.tmp = Tmp[f] /\ ~q.stream /\ q.line \in Nat
    BY <1>1 DEF Roles, Chosen, Work, Working, Giving, DiskTypes, Process
  <1>4. JobOf(f) = q.job
    <2>1. DOMAIN Lines[q.job] = 1..Len(Lines[q.job]) /\ Len(Lines[q.job]) \in Nat
      BY <1>3, XferAssumption, LenProperties DEF XferConstants, JobsAssumption
    <2>2. q.line \in DOMAIN Lines[q.job]
      BY <2>1, <1>3
    <2> QED
      BY <2>2, <1>3, LineFacts
  <1>5. UNCHANGED <<queue, src, place, later, delivered>>
    BY DEF GetReply
  <1>6. p'[o] = p[o]
    BY <1>1, HostFacts DEF GetReply, become, TypeOK
  <1>7. /\ Mail(h) /\ Words(inb[h]) \in Nat /\ Words(inb[h]) >= 1 /\ m = inb[h][1]
        /\ (Busy(o) => Both) /\ inb'[o] = inb[o] /\ up' = up /\ inb'[h] \in Seq(Packet)
        /\ Words(inb'[h]) = Words(inb[h]) - 1 /\ Len(inb'[h]) = Len(inb[h]) - 1
        /\ \A i \in 1..Len(inb'[h]) : inb'[h][i] = inb[h][i + 1]
    BY <1>2, <1>6, Reads
  <1>8. CASE /\ m.type = "RN"
             /\ become(h, FileDone(q)) /\ refused' = refused \cup {f}
             /\ UNCHANGED <<temp, faults>>
    <2> DEFINE s == FileDone(q)
    <2>1. Fit(h, s) /\ Finishes(s, q) /\ become(h, s)
      BY SMTT(40), <1>1, <1>8, Finishing
    <2> HIDE DEF s
    <2>2. QuietDisk
      BY Zenon, <1>1, <1>3, <1>5, <1>8 DEF QuietDisk, disk, DiskTypes
    <2>3. p'[h] = s /\ Keeps(o)
      BY <1>1, <2>1, <2>2, Becoming, QuietStep
    <2>4. \A g : Done(g) => StillDone(g)
      BY SMTT(40), <1>5, <1>8 DEF Done, StillDone, Arrived, StillArrived
    <2>5. Roles(h)'
      BY <1>1, <1>3, <1>5, <2>1, <2>3 DEF Roles, Fit, Finishes, Chosen, Transfer
    <2>6. ASSUME ~q.errs, NEW n \in DOMAIN Lines[q.job], n < q.line \/ n = q.line
          PROVE  StillDone(Lines[q.job][n].file)
      <3>1. n < q.line => Done(Lines[q.job][n].file)
        BY <1>1, <1>3, <2>6 DEF Behind
      <3>2. StillDone(f)
        BY <1>8 DEF StillDone
      <3> QED
        BY <1>3, <2>4, <2>6, <3>1, <3>2
    <2>7. Behind(h)'
      BY <2>1, <2>3, <2>6 DEF Behind, Finishes, StillDone, StillArrived, Done, Arrived
    <2>8. Words(inb[h]) = 1
      BY <1>1, <1>7, <1>8 DEF Mail
    <2>9. Busy(o) => p[o].state = "recvhdr" /\ inb[o] = <<>>
      <3>1. Busy(o) => Answered(o) \/ Sends(o)
        BY <1>1, <1>2, <1>7, TurnToRead
      <3>2. ~Sends(o)
        BY <1>1, <1>2, <1>7, <1>8 DEF Sends, First
      <3> QED
        BY <1>1, <3>1, <3>2 DEF Answered
    <2> QED
      BY <1>2, <1>3, <2>1, <2>3, <2>5, <2>7, <2>8, <2>9, ReadAndLead DEF Finishes
  <1>9. CASE /\ m.type = "RY" /\ become(h, [q EXCEPT !.state = "recvdata", !.stream = TRUE])
             /\ temp' = [temp EXCEPT ![q.tmp] = <<>>] /\ UNCHANGED <<refused, faults>>
    <2> DEFINE s == [q EXCEPT !.state = "recvdata", !.stream = TRUE]
    <2>1. s \in Process
      BY <1>1 DEF Process, States, Reading
    <2>2. /\ s.state = "recvdata" /\ s.stream /\ s.job = q.job /\ s.master = q.master
          /\ s.line = q.line /\ s.errs = q.errs /\ s.todo = q.todo /\ s.file = f
          /\ s.tmp = q.tmp /\ s.spool = q.spool /\ s.pos = q.pos
      BY <1>1 DEF Process
    <2>3. become(h, s)
      BY <1>9
    <2> HIDE DEF s
    <2>4. Fit(h, s)
      BY <1>1, <2>1, <2>2 DEF Fit
    <2>5. p'[h] = s
      BY <1>1, <2>3, <2>4, Becoming
    <2>6. <<>> \in Prefixes(f)
      BY SMTT(40), <1>3, PartFacts, PrefixFacts
    <2>7. faults' \in 0..MaxFaults
      BY <1>1, <1>9 DEF DiskTypes
    <2>8. Keeps(o) /\ temp'[Tmp[f]] = <<>> /\ \A g : Done(g) => StillDone(g)
      BY Zenon, <1>3, <1>5, <1>6, <1>9, <2>6, <2>7, TempChange
    <2>9. f \in src /\ Stream(inb[h], 2, 0, f)
      BY SMTT(40), <1>1, <1>7, <1>9 DEF Mail
    <2>10. Roles(h)'
      BY ZenonT(40), <1>1, <1>3, <1>5, <2>2, <2>4, <2>5 DEF Roles, Fit, Chosen, Transfer
    <2>11. Work(h)'
      <3>1. <<>> # None
        BY <1>3, <2>6, PartFacts, Constants
      <3> QED
        BY ZenonT(40), <1>3, <1>4, <1>5, <2>2, <2>5, <2>8, <2>9, <3>1
        DEF Work, Working, Giving, Transfer, Kept
    <2>12. Behind(h)'
      <3>1. ASSUME ~q.errs, NEW n \in DOMAIN Lines[q.job], n < q.line
            PROVE  StillDone(Lines[q.job][n].file)
        BY <1>1, <1>3, <2>8, <3>1 DEF Behind
      <3> QED
        BY <2>2, <2>5, <3>1 DEF Behind, StillDone, StillArrived, Done, Arrived
    <2>13. Mail(h)'
      <3>1. Stream(inb'[h], 1, 0, f)
        BY <1>1, <1>7, <2>9, StreamGoesOn
      <3>2. Len(temp'[p'[h].tmp]) = 0
        BY <1>3, <2>2, <2>5, <2>8
      <3> QED
        BY <2>2, <2>5, <3>1, <3>2 DEF Mail, Reading
    <2>14. Busy(o) => Turns'
      <3> SUFFICES ASSUME Busy(o) PROVE Turns'
        OBVIOUS
      <3>1. Answered(o) \/ Sends(o)
        BY <1>1, <1>2, <1>7, TurnToRead
      <3>2. Sends(o)
        BY <1>1, <1>2, <1>7, <1>9, <3>1 DEF Answered, First
      <3>3. Len(temp'[p'[h].tmp]) = 0
        BY <1>3, <2>2, <2>5, <2>8
      <3>4. up \in BOOLEAN
        BY <1>1 DEF TypeOK
      <3>5. /\ p'[h].master = p[h].master /\ p'[h].file = p[h].file
            /\ p'[h].state = "recvdata" /\ p[h].state \in {"getreply", "recvdata"}
            /\ inb[h][1].type # "eof" /\ h = Other(o) /\ Other(h) = o
            /\ Len(temp'[p'[h].tmp]) =
                  IF p[h].state = "getreply" THEN 0 ELSE Len(temp[p[h].tmp]) + 1
            /\ p[h].state = "recvdata" => Len(temp[p[h].tmp]) \in Nat
        BY <1>1, <1>7, <1>9, <2>2, <2>5, <3>3
      <3>6. Sends(o)'
        BY <1>1, <1>2, <1>6, <1>7, <3>2, <3>4, <3>5, SenderGoesOn
      <3> QED
        BY <1>1, <3>6 DEF Turns
    <2> QED
      BY <1>2, <2>3, <2>4, <2>8, <2>10, <2>11, <2>12, <2>13, <2>14, MovedPop
  <1>10. CASE DiskFault /\ become(h, Abort(q)) /\ UNCHANGED <<temp, refused>>
    <2>1. Fit(h, Abort(q)) /\ Quits(Abort(q))
      BY <1>1, Quitting
    <2>2. faults' \in 0..MaxFaults
      BY <1>1, <1>10, Constants DEF DiskFault, DiskTypes
    <2>3. QuietDisk
      BY <1>1, <1>5, <1>10, <2>2 DEF QuietDisk, disk, DiskTypes
    <2>4. Keeps(o)
      BY <1>10, <2>1, <2>3, QuietStep
    <2> QED
      BY <1>2, <1>10, <2>1, <2>4, ReadOut
  <1> QED
    BY <1>8, <1>9, <1>10 DEF GetReply

\* What is received of a file is a part of it.
LEMMA Received ==
  ASSUME XferInv, NEW h \in Hosts, p[h].state \in {"recvdata", "recveof"}
  PROVE  /\ p[h].file \in Files /\ Giver(p[h].file) = Other(h) /\ Kept(p[h].file)
         /\ p[h].tmp = Tmp[p[h].file] /\ temp[p[h].tmp] \in Prefixes(p[h].file)
         /\ Len(temp[p[h].tmp]) \in Nat /\ Size[p[h].file] \in Nat
         /\ p[h].master => /\ p[h].job \in queue /\ At[p[h].job] = h /\ p[h].job # None
                           /\ p[h].line <= Len(Lines[p[h].job]) /\ p[h].line >= 1
                           /\ p[h].file = Lines[p[h].job][p[h].line].file
         /\ ~p[h].master => p[h].job = None
  <1>1. Work(h) /\ Roles(h) /\ FilesOK
    BY Known
  <1>2. /\ p[h].file \in Files /\ Giver(p[h].file) = Other(h) /\ Kept(p[h].file)
        /\ p[h].tmp = Tmp[p[h].file] /\ temp[p[h].tmp] # None
    BY <1>1 DEF Work, Working, Giving, Transfer
  <1>3. temp[p[h].tmp] \in Prefixes(p[h].file)
    BY <1>1, <1>2 DEF FilesOK, Temporary
  <1>4. Size[p[h].file] \in Nat /\ Len(temp[p[h].tmp]) \in 0..Size[p[h].file]
    BY <1>2, <1>3, PartFacts
  <1>5. p[h].master => /\ p[h].job \in queue /\ At[p[h].job] = h /\ p[h].job # None
                       /\ p[h].line <= Len(Lines[p[h].job]) /\ p[h].line >= 1
                       /\ p[h].file = Lines[p[h].job][p[h].line].file
    BY <1>1 DEF Work, Roles, Working, Transfer
  <1>6. ~p[h].master => p[h].job = None
    BY <1>1 DEF Roles, Chosen
  <1> QED
    BY <1>2, <1>3, <1>4, <1>5, <1>6

LEMMA RecvDataStep ==
  ASSUME XferInv, OwnTemps, NEW h \in Hosts, RecvData(h)
  PROVE  XferInv'
  <1> DEFINE q == p[h]
             o == Other(h)
             m == Head(inb[h])
             f == q.file
             b == Len(temp[q.tmp])
  <1>1. /\ Fit(h, q) /\ q \in Process /\ TypeOK /\ Roles(h) /\ Work(h) /\ Behind(h)
        /\ q.state = "recvdata" /\ o \in Hosts /\ Other(o) = h /\ o # h /\ Turns
        /\ DiskTypes /\ inb[h] \in Seq(Packet)
    BY Known, HostFacts DEF RecvData, awaits
  <1>2. inb[h] # <<>> /\ m.type \in {"data", "eof"} /\ m.type # "CLOSE" /\ pop(h)
        /\ q.state \in Reading /\ q.state \notin {"closing", "over"}
    BY DEF RecvData, awaits, Reading
  <1>3. /\ f \in Files /\ Giver(f) = o /\ Kept(f) /\ q.tmp = Tmp[f]
        /\ temp[q.tmp] \in Prefixes(f) /\ b \in Nat /\ Size[f] \in Nat
        /\ q.master => /\ q.job \in queue /\ At[q.job] = h /\ q.job # None
                       /\ q.line <= Len(Lines[q.job]) /\ q.line >= 1
                       /\ f = Lines[q.job][q.line].file
        /\ ~q.master => q.job = None
    BY <1>1, Received
  <1>4. UNCHANGED <<queue, src, place, later, delivered, refused>>
    BY DEF RecvData
  <1>5. p'[o] = p[o]
    BY <1>1, HostFacts DEF RecvData, become, TypeOK
  <1>6. /\ Mail(h) /\ Words(inb[h]) \in Nat /\ Words(inb[h]) >= 1 /\ m = inb[h][1]
        /\ (Busy(o) => Both) /\ inb'[o] = inb[o] /\ up' = up /\ inb'[h] \in Seq(Packet)
        /\ Words(inb'[h]) = Words(inb[h]) - 1 /\ Len(inb'[h]) = Len(inb[h]) - 1
        /\ \A i \in 1..Len(inb'[h]) : inb'[h][i] = inb[h][i + 1]
    BY <1>2, <1>5, Reads
  <1>7. Stream(inb[h], 1, b, f)
    BY <1>1, <1>6 DEF Mail
  <1>8. \/ m.type = "data" /\ m.file = f /\ m.off = b + 1 /\ m.off <= Size[f]
        \/ m.type = "eof" /\ Words(inb[h]) = 1 /\ b = Size[f]
    <2>1. 1 \in 1..Words(inb[h]) /\ b + (1 - 1) = b
      BY <1>3, <1>6
    <2> QED
      BY <1>6, <1>7, <2>1 DEF Stream
  <1>9. Busy(o) => Sends(o)
    <2>1. ~Answered(h)
      BY <1>2 DEF Answered
    <2> QED
      BY <1>1, <1>6, <2>1, TurnToReceive
  <1>10. CASE /\ m.type = "eof" /\ become(h, [q EXCEPT !.state = "recveof"])
              /\ UNCHANGED <<temp, faults>>
    <2> DEFINE s == [q EXCEPT !.state = "recveof"]
    <2>1. s \in Process
      BY <1>1 DEF Process, States
    <2>2. /\ s.state = "recveof" /\ s.stream = q.stream /\ s.job = q.job /\ s.master = q.master
          /\ s.line = q.line /\ s.errs = q.errs /\ s.todo = q.todo /\ s.file = f
          /\ s.tmp = q.tmp /\ s.spool = q.spool /\ s.pos = q.pos
      BY <1>1 DEF Process
    <2>3. become(h, s)
      BY <1>10
    <2> HIDE DEF s
    <2>4. Fit(h, s)
      BY <1>1, <2>1, <2>2 DEF Fit
    <2>5. QuietDisk
      BY <1>1, <1>4, <1>10 DEF QuietDisk, disk, DiskTypes
    <2>6. p'[h] = s /\ Keeps(o)
      BY <1>1, <2>3, <2>4, <2>5, Becoming, QuietStep
    <2>7. temp[q.tmp] = Whole(f)
      BY <1>3, <1>8, <1>10, PartFacts
    <2>8. Roles(h)'
      BY <1>1, <1>3, <1>4, <2>2, <2>4, <2>6 DEF Roles, Fit, Chosen, Transfer
    <2>9. Work(h)'
      <3>1. Whole(f) # None
        BY <1>3, PartFacts, Constants
      <3> QED
        BY <1>3, <1>4, <1>10, <2>2, <2>6, <2>7, <3>1
        DEF Work, Working, Giving, Transfer, Kept
    <2>10. Behind(h)'
      <3>1. ASSUME q.job # None, ~q.errs, NEW n \in DOMAIN Lines[q.job], n < q.line
            PROVE  StillDone(Lines[q.job][n].file)
        BY <1>1, <1>4, <3>1 DEF Behind, Done, Arrived, StillDone, StillArrived
      <3> QED
        BY <2>2, <2>6, <3>1 DEF Behind, StillDone, StillArrived, Done, Arrived
    <2>11. Words(inb'[h]) = 0
      BY <1>6, <1>8, <1>10
    <2>12. Mail(h)'
      BY <2>11, NoMail
    <2>13. Busy(o) => Turns'
      <3> SUFFICES ASSUME Busy(o) PROVE Turns'
        OBVIOUS
      <3>1. 1 \in DOMAIN inb[h] /\ inb[h][1].type = "eof"
        BY <1>1, <1>2, <1>6, <1>10, WordsFacts
      <3>2. p[o].state = "eofreply"
        BY <1>1, <1>9, <3>1 DEF Sends
      <3>3. Sends(o)'
        BY <1>1, <1>5, <1>6, <1>9, <2>2, <2>6, <3>2 DEF Sends, Same
      <3> QED
        BY <1>1, <3>3 DEF Turns
    <2> QED
      BY <1>2, <2>3, <2>4, <2>6, <2>8, <2>9, <2>10, <2>12, <2>13, MovedPop
  <1>11. CASE /\ m.type = "data"
              /\ temp' = [temp EXCEPT ![q.tmp] = Append(@, Block(m.file, m.off))]
              /\ UNCHANGED <<p, faults>>
    <2> DEFINE c == Append(temp[q.tmp], Block(f, b + 1))
    <2>1. p' = p /\ become(h, q)
      BY <1>1, <1>11 DEF become, TypeOK
    <2>2. b < Size[f] /\ m.file = f /\ m.off = b + 1
      BY <1>3, <1>8, <1>11
    <2>3. c \in Prefixes(f) /\ Len(c) = b + 1
      <3>1. Len(temp[q.tmp]) + 1 = b + 1
        OBVIOUS
      <3>2. c \in Prefixes(f)
        BY <1>3, <2>2, PrefixFacts
      <3>3. temp[q.tmp] \in Seq([file : Files, off : Nat])
        BY <1>3, PartFacts
      <3>4. Block(f, b + 1) \in [file : Files, off : Nat]
        <4>1. b + 1 \in Nat
          BY <1>3
        <4> QED
          BY <1>3, <4>1 DEF Block
      <3>5. Len(c) = b + 1
        BY <3>3, <3>4, AppendProperties
      <3> QED
        BY <3>2, <3>5
    <2>4. temp' = [temp EXCEPT ![Tmp[f]] = c]
      BY <1>3, <1>11, <2>2
    <2> HIDE DEF c
    <2>5. faults' \in 0..MaxFaults
      BY <1>1, <1>11 DEF DiskTypes
    <2>6. Keeps(o) /\ temp'[Tmp[f]] = c /\ \A g : Done(g) => StillDone(g)
      BY <1>3, <1>4, <1>5, <2>3, <2>4, <2>5, TempChange
    <2>7. Roles(h)'
      BY <1>1, <1>4, <2>1 DEF Roles
    <2>8. Work(h)'
      <3>1. c # None
        BY <1>3, <2>3, PartFacts, Constants
      <3> QED
        BY <1>1, <1>3, <1>4, <2>1, <2>6, <3>1 DEF Work, Working, Giving, Transfer, Kept
    <2>9. Behind(h)'
      <3>1. ASSUME q.job # None, ~q.errs, NEW n \in DOMAIN Lines[q.job], n < q.line
            PROVE  StillDone(Lines[q.job][n].file)
        BY <1>1, <2>6, <3>1 DEF Behind
      <3> QED
        BY <1>1, <2>1, <3>1 DEF Behind, StillDone, StillArrived, Done, Arrived
    <2>10. Len(temp'[p'[h].tmp]) = b + 1
      BY <1>3, <2>1, <2>3, <2>6
    <2>11. Mail(h)'
      <3>1. Stream(inb'[h], 1, b + 1, f)
        BY <1>1, <1>3, <1>6, <1>7, <1>11, StreamGoesOn
      <3> QED
        BY <1>1, <2>1, <2>10, <3>1 DEF Mail, Reading
    <2>12. Busy(o) => Turns'
      <3> SUFFICES ASSUME Busy(o) PROVE Turns'
        OBVIOUS
      <3>1. up \in BOOLEAN /\ Sends(o)
        BY <1>1, <1>9 DEF TypeOK
      <3>2. /\ p'[h].master = p[h].master /\ p'[h].file = p[h].file
            /\ p'[h].state = "recvdata" /\ p[h].state \in {"getreply", "recvdata"}
            /\ inb[h][1].type # "eof" /\ h = Other(o) /\ Other(h) = o
            /\ Len(temp'[p'[h].tmp]) =
                  IF p[h].state = "getreply" THEN 0 ELSE Len(temp[p[h].tmp]) + 1
            /\ p[h].state = "recvdata" => Len(temp[p[h].tmp]) \in Nat
        BY <1>1, <1>3, <1>6, <1>11, <2>1, <2>10
      <3>3. Sends(o)'
        BY <1>1, <1>2, <1>5, <1>6, <3>1, <3>2, SenderGoesOn
      <3> QED
        BY <1>1, <3>3 DEF Turns
    <2> QED
      BY <1>1, <1>2, <2>1, <2>6, <2>7, <2>8, <2>9, <2>11, <2>12, MovedPop
  <1>12. CASE DiskFault /\ become(h, Abort(q)) /\ UNCHANGED temp
    <2>1. Fit(h, Abort(q)) /\ Quits(Abort(q))
      BY <1>1, Quitting
    <2>2. faults' \in 0..MaxFaults
      BY <1>1, <1>12, Constants DEF DiskFault, DiskTypes
    <2>3. QuietDisk
      BY <1>1, <1>4, <1>12, <2>2 DEF QuietDisk, disk, DiskTypes
    <2>4. Keeps(o)
      BY <1>12, <2>1, <2>3, QuietStep
    <2> QED
      BY <1>2, <1>12, <2>1, <2>4, ReadOut
  <1> QED
    BY <1>10, <1>11, <1>12 DEF RecvData

-----------------------------------------------------------------------------
(***************************************************************************)
(* Answers, blocks and ends of files that are sent.                        *)
(***************************************************************************)
\* m has come to x, after what there was.
Came(x, m) ==
    /\ inb[x] \in Seq(Packet) /\ inb'[x] \in Seq(Packet)
    /\ Words(inb[x]) = Len(inb[x]) /\ Len(inb[x]) \in Nat
    /\ Len(inb'[x]) = Len(inb[x]) + 1 /\ Words(inb'[x]) = Len(inb[x]) + 1
    /\ \A i \in 1..Len(inb[x]) : inb'[x][i] = inb[x][i]
    /\ inb'[x][Len(inb[x]) + 1] = m
\* h, which both hosts being in the session has said m, goes on as q.
Said(h, m, q) ==
    /\ p'[h] = q /\ p'[Other(h)] = p[Other(h)] /\ Both /\ up /\ up' = up
    /\ inb[h] = <<>> /\ inb'[h] = <<>> /\ Came(Other(h), m)

\* A host that has nothing to read says something.
LEMMA Posting ==
  ASSUME XferInv, NEW h \in Hosts, p[h].state \notin Reading \cup Gone, NEW q, Fit(h, q),
         NEW m \in Packet, m.type # "CLOSE", send(h, m, q), Keeps(Other(h)),
         p'[h] = q => Roles(h)' /\ Work(h)' /\ Behind(h)',
         Said(h, m, q) => Mail(Other(h))' /\ Turns'
  PROVE  XferInv'
  <1> DEFINE o == Other(h)
  <1>1. /\ TypeOK /\ Turns /\ Closed(h) /\ Closed(o) /\ (Busy(h) => Mail(h))
        /\ (Busy(o) => Mail(o)) /\ inb[o] \in Seq(Packet) /\ o \in Hosts /\ Other(o) = h
    BY Known, HostFacts
  <1>2. /\ Busy(h) /\ p[h].state \notin Reading /\ p[h].state \notin {"closing", "over"}
        /\ UNCHANGED <<up, resend>>
    BY DEF Busy, Gone, send
  <1>3. CASE ~Left(h) /\ post(h, m) /\ become(h, q)
    <2>1. p'[h] = q /\ p'[o] = p[o]
      BY <1>1, <1>3, Becoming
    <2>2. up
      BY <1>3 DEF Left
    <2>3. /\ InboxesOK' /\ inb'[h] = inb[h]
          /\ Words(inb[o]) = Len(inb[o]) /\ Len(inb[o]) \in Nat
          /\ Len(inb'[o]) = Len(inb[o]) + 1 /\ Words(inb'[o]) = Len(inb[o]) + 1
          /\ \A i \in 1..Len(inb[o]) : inb'[o][i] = inb[o][i]
          /\ inb'[o][Len(inb[o]) + 1] = m
      BY <1>1, <1>2, <1>3, <2>1, Posted
    <2>4. Words(inb[h]) = 0
      BY <1>1, <1>2 DEF Mail
    <2>5. Mail(h)'
      BY <2>3, <2>4, NoMail
    <2>6. Busy(o) => Mail(o)' /\ Turns'
      <3> SUFFICES ASSUME Busy(o) PROVE Mail(o)' /\ Turns'
        OBVIOUS
      <3>1. Both
        BY <1>2, TurnFacts
      <3>2. inb[h] = <<>> /\ inb'[h] = <<>>
        BY <2>3, <2>4, OpenLine
      <3>3. inb'[o] \in Seq(Packet)
        BY <1>1, <2>3 DEF InboxesOK
      <3>4. Came(o, m)
        BY <1>1, <2>3, <3>3 DEF Came
      <3> QED
        BY <1>2, <2>1, <2>2, <3>1, <3>2, <3>4 DEF Said
    <2>7. ~Busy(o) => Turns'
      BY <2>1, <1>1 DEF Turns, Busy
    <2> QED
      BY <1>2, <1>3, <2>1, <2>5, <2>6, <2>7, MovedPost
  <1>4. CASE (Left(h) \/ HasClosed(h)) /\ become(h, Lost(q)) /\ UNCHANGED inb
    BY <1>2, <1>4, SendFails
  <1> QED
    BY <1>3, <1>4 DEF send

\* The first packet of an answer.
LEMMA FirstCame ==
  ASSUME NEW x \in Hosts, NEW m, Came(x, m), inb[x] = <<>>
  PROVE  /\ Len(inb'[x]) = 1 /\ Words(inb'[x]) = 1 /\ inb'[x][1] = m /\ inb'[x] # <<>>
         /\ DOMAIN inb'[x] = {1}
  <1>1. Len(inb[x]) = 0
    BY WordsFacts DEF Came
  <1>2. Len(inb'[x]) = 1 /\ Words(inb'[x]) = 1 /\ inb'[x][1] = m
    BY <1>1 DEF Came
  <1>3. inb'[x] # <<>> /\ DOMAIN inb'[x] = 1..Len(inb'[x])
    BY <1>2, WordsFacts DEF Came
  <1> QED
    BY <1>2, <1>3

\* The slave takes a file, or refuses it.
LEMMA TakeFileStep ==
  ASSUME XferInv, OwnTemps, NEW h \in Hosts, TakeFile(h)
  PROVE  XferInv'
  <1> DEFINE q == p[h]
             o == Other(h)
             f == q.file
             t == Tmp[f]
             old == IF resend /\ temp[t] # None THEN temp[t] ELSE <<>>
             there == [q EXCEPT !.spool = f \in Spooled, !.tmp = t]
  <1>1. /\ Fit(h, q) /\ q \in Process /\ TypeOK /\ Roles(h) /\ Work(h) /\ Behind(h)
        /\ q.state = "takefile" /\ o \in Hosts /\ Other(o) = h /\ o # h /\ Turns
        /\ DiskTypes /\ FilesOK
    BY Known, HostFacts DEF TakeFile
  <1>2. /\ f \in Files /\ Giver(f) = o /\ Kept(f) /\ ~q.master /\ q.job = None /\ ~q.stream
        /\ q.state \notin Reading \cup Gone
    BY <1>1 DEF Work, Roles, Working, Giving, Transfer, Chosen, Reading, Gone
  <1>3. t \in Temps /\ t # None
    BY <1>2, Constants
  <1>4. Both => p[o].state = "putreply" /\ p[o].file = f /\ inb[o] = <<>>
    BY <1>1, TurnToAnswer DEF Answers, Same
  <1>5. UNCHANGED <<queue, src, place, later, delivered, refused>>
    BY DEF TakeFile
  \* The memory a process goes on with: its tmp and spool are r's.
  <1>6. ASSUME NEW r, Fit(h, r), r.master = q.master, r.job = q.job, r.line = q.line,
               r.errs = q.errs, r.todo = q.todo, r.stream = q.stream,
               UNCHANGED <<temp>>, faults' \in 0..MaxFaults, send(h, Word("SN"), FileDone(r))
        PROVE  XferInv'
    <2> DEFINE s == FileDone(r)
               m == Word("SN")
    <2>1. Fit(h, s) /\ Finishes(s, r) /\ Fit(h, Lost(s))
      BY <1>6, Finishing, Quitting
    <2>2. m \in Packet /\ m.type = "SN"
      BY Messages DEF Types
    <2>3. send(h, m, s)
      BY <1>6
    <2> HIDE DEF s, m
    <2>4. QuietDisk
      BY <1>1, <1>5, <1>6 DEF QuietDisk, disk, DiskTypes
    <2>5. Keeps(o)
      BY <2>1, <2>3, <2>4, QuietStep DEF send
    <2>6. s.state = "recvhdr" /\ s.job = None /\ ~s.stream /\ ~s.master /\ s.todo = q.todo
      BY <1>2, <1>6, <2>1 DEF Finishes
    <2>7. ASSUME p'[h] = s PROVE Roles(h)' /\ Work(h)' /\ Behind(h)'
      BY <2>1, <2>6, <2>7 DEF Roles, Work, Behind, Fit, Chosen, Transfer, Working
    <2>8. ASSUME Said(h, m, s) PROVE Mail(o)' /\ Turns'
      <3>1. p[o].state = "putreply" /\ inb[o] = <<>> /\ p'[o] = p[o] /\ p'[h] = s /\ inb'[h] = <<>>
        BY <1>4, <2>8 DEF Said
      <3>2. Len(inb'[o]) = 1 /\ Words(inb'[o]) = 1 /\ inb'[o][1] = m
        BY <1>1, <2>8, <3>1, FirstCame DEF Said
      <3>3. Mail(o)'
        BY <2>2, <3>1, <3>2 DEF Mail, Reading
      <3>4. Answered(h)'
        BY <2>2, <2>6, <3>1, <3>2 DEF Answered, Gets, First
      <3> QED
        BY <3>3, <3>4 DEF Turns
    <2> QED
      BY <1>1, <1>2, <2>1, <2>2, <2>3, <2>5, <2>7, <2>8, Posting
  <1>7. \A b \in BOOLEAN, x \in Temps : [q EXCEPT !.spool = b, !.tmp = x] \in Process
    BY <1>1 DEF Process
  <1>8. there \in Process
    <2>1. (f \in Spooled) \in BOOLEAN
      OBVIOUS
    <2> QED
      BY <1>3, <1>7, <2>1, Zenon
  <1>9. /\ there.master = q.master /\ there.job = q.job /\ there.line = q.line
        /\ there.errs = q.errs /\ there.todo = q.todo /\ there.stream = q.stream
        /\ there.tmp = t /\ there.file = f /\ there.pos = q.pos
    BY <1>1 DEF Process
  <1>10. Fit(h, there)
    <2> HIDE DEF there
    <2> QED
      BY <1>1, <1>2, <1>3, <1>8, <1>9 DEF Fit
  <1>11. CASE send(h, Word("SN"), FileDone([q EXCEPT !.spool = FALSE])) /\ UNCHANGED <<temp, faults>>
    <2> DEFINE r == [q EXCEPT !.spool = FALSE]
    <2>1. r \in Process
      BY <1>1 DEF Process
    <2>2. /\ r.master = q.master /\ r.job = q.job /\ r.line = q.line /\ r.stream = q.stream
          /\ r.errs = q.errs /\ r.tmp = q.tmp /\ ~r.spool /\ r.todo = q.todo
          /\ r.file = q.file /\ r.pos = q.pos
      BY <1>1 DEF Process
    <2>3. send(h, Word("SN"), FileDone(r))
      BY <1>11
    <2> HIDE DEF r
    <2>4. Fit(h, r)
      BY <1>1, <2>1, <2>2 DEF Fit
    <2>5. faults' \in 0..MaxFaults
      BY <1>1, <1>11 DEF DiskTypes
    <2> QED
      BY <1>6, <1>11, <2>2, <2>3, <2>4, <2>5
  <1>12. CASE DiskFault /\ send(h, Word("SN"), FileDone(there)) /\ UNCHANGED temp
    <2>1. faults' \in 0..MaxFaults
      BY <1>1, <1>12, Constants DEF DiskFault, DiskTypes
    <2> HIDE DEF there
    <2> QED
      BY <1>6, <1>9, <1>10, <1>12, <2>1
  <1>13. CASE /\ temp' = [temp EXCEPT ![t] = old] /\ UNCHANGED faults
              /\ send(h, Msg("SY", None, Len(old)),
                      [there EXCEPT !.state = "recvdata", !.stream = TRUE])
    <2> DEFINE s == [there EXCEPT !.state = "recvdata", !.stream = TRUE]
               m == Msg("SY", None, Len(old))
    <2>1. old \in Prefixes(f) /\ Len(old) \in Nat /\ old # None
      <3>1. <<>> \in Prefixes(f)
        BY <1>2, PartFacts, PrefixFacts
      <3>2. temp[t] # None => temp[t] \in Prefixes(f)
        BY <1>1, <1>2 DEF FilesOK, Temporary
      <3>3. old \in Prefixes(f)
        BY <3>1, <3>2
      <3> HIDE DEF old
      <3>4. Len(old) \in 0..Size[f] /\ old \in Seq([file : Files, off : Nat])
        BY <1>2, <3>3, PartFacts
      <3> QED
        BY <3>3, <3>4, Constants
    <2>2. s \in Process
      BY <1>8 DEF Process, States, Reading
    <2>3. /\ s.state = "recvdata" /\ s.stream /\ s.job = q.job /\ s.master = q.master
          /\ s.line = q.line /\ s.errs = q.errs /\ s.todo = q.todo /\ s.file = f
          /\ s.tmp = t /\ s.pos = q.pos
      <3> HIDE DEF there
      <3> QED
        BY <1>8, <1>9 DEF Process
    <2>4. m \in Packet /\ m.type = "SY" /\ m.off = Len(old)
      <3> HIDE DEF old
      <3> QED
        BY <2>1, Messages DEF Types
    <2>5. send(h, m, s)
      BY <1>13
    <2>6. temp' = [temp EXCEPT ![Tmp[f]] = old]
      BY <1>13
    <2> HIDE DEF s, m, old, there
    <2>7. Fit(h, s)
      BY <1>1, <1>2, <1>3, <2>2, <2>3 DEF Fit
    <2>8. p'[o] = p[o]
      <3>1. Fit(h, Lost(s))
        BY <2>7, Quitting
      <3> QED
        BY <1>1, <2>5, <2>7, <3>1, Becoming DEF send
    <2>9. faults' \in 0..MaxFaults
      BY <1>1, <1>13 DEF DiskTypes
    <2>10. Keeps(o) /\ temp'[Tmp[f]] = old
      BY <1>2, <1>5, <2>1, <2>6, <2>8, <2>9, TempChange
    <2>11. ASSUME p'[h] = s PROVE Roles(h)' /\ Work(h)' /\ Behind(h)'
      <3>1. Roles(h)'
        BY <1>2, <2>3, <2>7, <2>11 DEF Roles, Fit, Chosen, Transfer
      <3>2. Work(h)'
        BY <1>2, <1>5, <2>1, <2>3, <2>10, <2>11 DEF Work, Working, Giving, Transfer, Kept
      <3>3. Behind(h)'
        BY <1>2, <2>3, <2>11 DEF Behind
      <3> QED
        BY <3>1, <3>2, <3>3
    <2>12. ASSUME Said(h, m, s) PROVE Mail(o)' /\ Turns'
      <3>1. /\ p[o].state = "putreply" /\ inb[o] = <<>> /\ p'[o] = p[o] /\ p'[h] = s
            /\ inb'[h] = <<>> /\ p[o].file = f
        BY <1>4, <2>12 DEF Said
      <3>2. Len(inb'[o]) = 1 /\ Words(inb'[o]) = 1 /\ inb'[o][1] = m
        BY <1>1, <2>12, <3>1, FirstCame DEF Said
      <3>3. Mail(o)'
        BY <2>4, <3>1, <3>2 DEF Mail, Reading
      <3>4. Answered(h)'
        BY <1>2, <2>3, <2>4, <2>10, <3>1, <3>2 DEF Answered, Gets, First, Same
      <3> QED
        BY <3>3, <3>4 DEF Turns
    <2> QED
      BY <1>1, <1>2, <2>4, <2>5, <2>7, <2>10, <2>11, <2>12, Posting
  <1> QED
    BY <1>11, <1>12, <1>13 DEF TakeFile

\* Saying something leaves the other host what it counts on.
LEMMA SayingQuietly ==
  ASSUME XferInv, NEW h \in Hosts, NEW q, Fit(h, q), NEW m, send(h, m, q), QuietDisk
  PROVE  Keeps(Other(h))
  <1>1. Fit(h, Lost(q))
    BY Quitting
  <1> QED
    BY <1>1, QuietStep DEF send

\* The slave gives a file, or refuses it.
LEMMA GiveFileStep ==
  ASSUME XferInv, NEW h \in Hosts, GiveFile(h)
  PROVE  XferInv'
  <1> DEFINE q == p[h]
             o == Other(h)
             f == q.file
  <1>1. /\ Fit(h, q) /\ q \in Process /\ TypeOK /\ Roles(h) /\ Work(h) /\ Behind(h)
        /\ q.state = "givefile" /\ o \in Hosts /\ Other(o) = h /\ o # h /\ Turns
        /\ DiskTypes /\ FilesOK
    BY Known, HostFacts DEF GiveFile
  <1>2. /\ f \in Files /\ Giver(f) = h /\ ~q.master /\ q.job = None /\ ~q.stream
        /\ q.state \notin Reading \cup Gone
    BY <1>1 DEF Work, Roles, Working, Giving, Transfer, Chosen, Reading, Gone
  <1>3. Both => p[o].state = "getreply" /\ p[o].file = f /\ inb[o] = <<>>
    BY <1>1, TurnToAnswer DEF Answers, Same
  <1>4. QuietDisk
    BY <1>1 DEF GiveFile, QuietDisk, hist, DiskTypes
  <1>5. src' = src /\ queue' = queue
    BY <1>4 DEF QuietDisk, disk
  <1>6. CASE send(h, Word("RN"), FileDone(q))
    <2> DEFINE s == FileDone(q)
               m == Word("RN")
    <2>1. Fit(h, s) /\ Finishes(s, q)
      BY <1>1, Finishing
    <2>2. m \in Packet /\ m.type = "RN"
      BY Messages DEF Types
    <2>3. send(h, m, s)
      BY <1>6
    <2> HIDE DEF s, m
    <2>4. Keeps(o)
      BY <1>4, <2>1, <2>3, SayingQuietly
    <2>5. s.state = "recvhdr" /\ s.job = None /\ ~s.stream /\ ~s.master /\ s.todo = q.todo
      BY <1>2, <2>1 DEF Finishes
    <2>6. ASSUME p'[h] = s PROVE Roles(h)' /\ Work(h)' /\ Behind(h)'
      BY <2>1, <2>5, <2>6 DEF Roles, Work, Behind, Fit, Chosen, Transfer, Working
    <2>7. ASSUME Said(h, m, s) PROVE Mail(o)' /\ Turns'
      <3>1. p[o].state = "getreply" /\ inb[o] = <<>> /\ p'[o] = p[o] /\ p'[h] = s /\ inb'[h] = <<>>
        BY <1>3, <2>7 DEF Said
      <3>2. Len(inb'[o]) = 1 /\ Words(inb'[o]) = 1 /\ inb'[o][1] = m
        BY <1>1, <2>7, <3>1, FirstCame DEF Said
      <3>3. Mail(o)'
        BY <2>2, <3>1, <3>2 DEF Mail, Reading, Stream
      <3>4. Answered(h)'
        BY <2>2, <2>5, <3>1, <3>2 DEF Answered, Gets, First
      <3> QED
        BY <3>3, <3>4 DEF Turns
    <2> QED
      BY <1>1, <1>2, <2>1, <2>2, <2>3, <2>4, <2>6, <2>7, Posting
  <1>7. CASE f \in src /\ send(h, Word("RY"), StartSending(q, f, 0))
    <2> DEFINE s == StartSending(q, f, 0)
               m == Word("RY")
    <2>1. Size[f] \in Nat /\ 0 \in 0..Size[f]
      BY <1>2, Constants
    <2>2. Fit(h, s) /\ Starts(s, q, f, 0)
      BY <1>1, <1>2, <2>1, Starting
    <2>3. m \in Packet /\ m.type = "RY"
      BY Messages DEF Types
    <2>4. send(h, m, s)
      BY <1>7
    <2> HIDE DEF s, m
    <2>5. Keeps(o)
      BY <1>4, <2>2, <2>4, SayingQuietly
    <2>6. /\ s.state \in {"senddata", "sendeof"} /\ s.job = None /\ ~s.master /\ s.todo = q.todo
          /\ s.file = f /\ s.pos = 0 /\ (s.state = "sendeof" <=> 0 = Size[f])
      BY <1>2, <2>2 DEF Starts
    <2>7. ASSUME p'[h] = s PROVE Roles(h)' /\ Work(h)' /\ Behind(h)'
      <3>1. Roles(h)'
        BY <2>2, <2>6, <2>7 DEF Roles, Fit, Chosen, Transfer
      <3>2. Work(h)'
        BY <1>2, <1>5, <1>7, <2>1, <2>6, <2>7 DEF Work, Working, Giving, Transfer
      <3>3. Behind(h)'
        BY <2>6, <2>7 DEF Behind
      <3> QED
        BY <3>1, <3>2, <3>3
    <2>8. ASSUME Said(h, m, s) PROVE Mail(o)' /\ Turns'
      <3>1. /\ p[o].state = "getreply" /\ inb[o] = <<>> /\ p'[o] = p[o] /\ p'[h] = s
            /\ inb'[h] = <<>> /\ p[o].file = f
        BY <1>3, <2>8 DEF Said
      <3>2. /\ Len(inb'[o]) = 1 /\ Words(inb'[o]) = 1 /\ inb'[o][1] = m /\ inb'[o] # <<>>
            /\ DOMAIN inb'[o] = {1}
        BY <1>1, <2>8, <3>1, FirstCame DEF Said
      <3>3. Mail(o)'
        BY <1>5, <1>7, <2>3, <3>1, <3>2 DEF Mail, Reading, Stream
      <3>4. Roles(o)
        BY <1>1, Known
      <3>5. p[o].master
        BY <3>1, <3>4 DEF Roles, Chosen
      <3>6. s.master # p[o].master
        BY <2>6, <3>5
      <3>7. First(o, {"RY"})'
        BY <2>3, <3>2 DEF First
      <3>8. \A i \in DOMAIN inb'[o] : inb'[o][i].type # "eof"
        BY <2>3, <3>2
      <3>9. s.state # "eofreply" /\ s.pos = Len(inb'[o]) - 1
        BY <2>6, <3>2
      <3>10. Sends(h)'
        BY <2>6, <3>1, <3>6, <3>7, <3>8, <3>9 DEF Sends, Same
      <3> QED
        BY <3>3, <3>10 DEF Turns
    <2> QED
      BY <1>1, <1>2, <2>2, <2>3, <2>4, <2>5, <2>7, <2>8, Posting
  <1> QED
    BY <1>6, <1>7 DEF GiveFile

\* The slave says whether it has work.
LEMMA NoRemoteStep ==
  ASSUME XferInv, NEW h \in Hosts, NoRemote(h)
  PROVE  XferInv'
  <1> DEFINE q == p[h]
             o == Other(h)
  <1>1. /\ Fit(h, q) /\ q \in Process /\ TypeOK /\ Roles(h) /\ Work(h) /\ Behind(h)
        /\ q.state = "noremote" /\ o \in Hosts /\ Other(o) = h /\ o # h /\ Turns
        /\ DiskTypes /\ FilesOK
    BY Known, HostFacts DEF NoRemote
  <1>2. /\ ~q.master /\ q.job = None /\ ~q.stream /\ q.state \notin Reading \cup Gone
    BY <1>1 DEF Roles, Transfer, Chosen, Reading, Gone
  <1>3. Both => p[o].state = "breakreply" /\ inb[o] = <<>>
    BY <1>1, TurnToAnswer DEF Answers, Same
  <1>4. QuietDisk
    BY <1>1 DEF NoRemote, QuietDisk, hist, DiskTypes
  <1>5. CASE send(h, Word("HY"), [q EXCEPT !.state = "chkreply", !.hstatus = "called"])
    <2> DEFINE s == [q EXCEPT !.state = "chkreply", !.hstatus = "called"]
               m == Word("HY")
    <2>1. s \in Process
      BY <1>1 DEF Process, States, Reading, Statuses
    <2>2. /\ s.state = "chkreply" /\ s.job = q.job /\ s.stream = q.stream /\ s.master = q.master
          /\ s.todo = q.todo /\ s.file = q.file /\ s.pos = q.pos /\ s.tmp = q.tmp
          /\ s.spool = q.spool
      BY <1>1 DEF Process
    <2>3. m \in Packet /\ m.type = "HY"
      BY Messages DEF Types
    <2>4. send(h, m, s)
      BY <1>5
    <2> HIDE DEF s, m
    <2>5. Fit(h, s)
      BY <1>1, <2>1, <2>2 DEF Fit
    <2>6. Keeps(o)
      BY <1>4, <2>4, <2>5, SayingQuietly
    <2>7. ASSUME p'[h] = s PROVE Roles(h)' /\ Work(h)' /\ Behind(h)'
      BY <1>2, <2>2, <2>5, <2>7 DEF Roles, Work, Behind, Fit, Chosen, Transfer, Working
    <2>8. ASSUME Said(h, m, s) PROVE Mail(o)' /\ Turns'
      <3>1. p[o].state = "breakreply" /\ inb[o] = <<>> /\ p'[o] = p[o] /\ p'[h] = s /\ inb'[h] = <<>>
        BY <1>3, <2>8 DEF Said
      <3>2. Len(inb'[o]) = 1 /\ Words(inb'[o]) = 1 /\ inb'[o][1] = m
        BY <1>1, <2>8, <3>1, FirstCame DEF Said
      <3>3. Mail(o)'
        BY <2>3, <3>1, <3>2 DEF Mail, Reading
      <3>4. Answered(h)'
        BY <2>2, <2>3, <3>1, <3>2 DEF Answered, Gets, First
      <3> QED
        BY <3>3, <3>4 DEF Turns
    <2> QED
      BY <1>1, <1>2, <2>3, <2>4, <2>5, <2>6, <2>7, <2>8, Posting
  <1>6. CASE send(h, Word("HN"), Master(q, h))
    <2> DEFINE s == Master(q, h)
               m == Word("HN")
    <2>1. Fit(h, s) /\ s.state = "nextjob" /\ s.master /\ s.job = None /\ ~s.stream
      BY <1>1, <1>2, Turning
    <2>2. m \in Packet /\ m.type = "HN"
      BY Messages DEF Types
    <2>3. send(h, m, s)
      BY <1>6
    <2> HIDE DEF s, m
    <2>4. Keeps(o)
      BY <1>4, <2>1, <2>3, SayingQuietly
    <2>5. ASSUME p'[h] = s PROVE Roles(h)' /\ Work(h)' /\ Behind(h)'
      BY <2>1, <2>5 DEF Roles, Work, Behind, Fit, Chosen, Transfer, Working
    <2>6. ASSUME Said(h, m, s) PROVE Mail(o)' /\ Turns'
      <3>1. p[o].state = "breakreply" /\ inb[o] = <<>> /\ p'[o] = p[o] /\ p'[h] = s /\ inb'[h] = <<>>
        BY <1>3, <2>6 DEF Said
      <3>2. Len(inb'[o]) = 1 /\ Words(inb'[o]) = 1 /\ inb'[o][1] = m
        BY <1>1, <2>6, <3>1, FirstCame DEF Said
      <3>3. Mail(o)'
        BY <2>2, <3>1, <3>2 DEF Mail, Reading
      <3>4. Ready(o, 0)'
        BY <2>2, <3>1, <3>2 DEF Ready, Gets, First
      <3>5. Leads(h)'
        BY <2>1, <3>1, <3>4 DEF Leads
      <3> QED
        BY <3>3, <3>5 DEF Turns
    <2> QED
      BY <1>1, <1>2, <2>1, <2>2, <2>3, <2>4, <2>5, <2>6, Posting
  <1> QED
    BY <1>5, <1>6 DEF NoRemote

\* What the other host may read next of a file: b blocks have come before.
LEMMA StreamComes ==
  ASSUME NEW x \in Hosts, NEW m, Came(x, m), NEW k \in {1, 2}, NEW b \in Nat, NEW f,
         Len(inb[x]) >= k - 1, Stream(inb[x], k, b, f),
         \/ /\ m.type = "data" /\ m.file = f /\ m.off <= Size[f]
            /\ m.off = b + (Len(inb[x]) + 1 - k) + 1
         \/ m.type = "eof" /\ b + (Len(inb[x]) + 1 - k) = Size[f],
         \A i \in 1..Len(inb[x]) : inb[x][i].type # "eof"
  PROVE  Stream(inb'[x], k, b, f)
  <1> DEFINE w == inb[x]
             v == inb'[x]
  <1>1. /\ Len(w) \in Nat /\ Words(w) = Len(w) /\ Words(v) = Len(w) + 1
        /\ \A i \in 1..Len(w) : v[i] = w[i]
        /\ v[Len(w) + 1] = m
    BY DEF Came
  <1> HIDE DEF w, v
  <1>2. SUFFICES ASSUME NEW i \in k..Words(v)
        PROVE  \/ /\ v[i].type = "data" /\ v[i].file = f
                  /\ v[i].off = b + (i - k) + 1 /\ v[i].off <= Size[f]
               \/ v[i].type = "eof" /\ i = Words(v) /\ b + (i - k) = Size[f]
    BY DEF Stream, v
  <1>3. CASE i <= Len(w)
    <2>1. i \in k..Words(w) /\ i \in 1..Len(w) /\ v[i] = w[i]
      BY <1>1, <1>2, <1>3
    <2>2. w[i].type # "eof"
      BY <2>1 DEF w
    <2>3. Stream(w, k, b, f)
      BY DEF w
    <2> QED
      BY <2>1, <2>2, <2>3 DEF Stream
  <1>4. CASE i = Len(w) + 1
    <2>1. v[i] = m
      BY <1>1, <1>4
    <2> QED
      BY <1>1, <1>4, <2>1 DEF w
  <1>5. i <= Len(w) \/ i = Len(w) + 1
    BY <1>1, <1>2
  <1> QED
    BY <1>3, <1>4, <1>5

\* The next block of a file, or its end, is on its way.
LEMMA BlockSaid ==
  ASSUME XferInv, NEW h \in Hosts, p[h].state \in {"senddata", "sendeof"},
         NEW m, NEW s, Said(h, m, s), QuietDisk,
         s.file = p[h].file, s.master = p[h].master,
         \/ /\ m.type = "data" /\ m.file = p[h].file /\ m.off = p[h].pos + 1
            /\ m.off <= Size[p[h].file]
            /\ s.state \in {"senddata", "sendeof"} /\ s.pos = p[h].pos + 1
         \/ m.type = "eof" /\ p[h].pos = Size[p[h].file] /\ s.state = "eofreply"
  PROVE  Mail(Other(h))' /\ Turns'
  <1> DEFINE q == p[h]
             o == Other(h)
             f == q.file
             w == inb[o]
             v == inb'[o]
             T == temp[p[o].tmp]
  <1>1. /\ Turns /\ o \in Hosts /\ Other(o) = h /\ q \in Process /\ Work(h)
        /\ (Busy(o) => Mail(o))
    BY Known, HostFacts
  <1>2. /\ p'[h] = s /\ p'[o] = p[o] /\ Both /\ up /\ up' = up
        /\ inb[h] = <<>> /\ inb'[h] = <<>> /\ Came(o, m)
    BY DEF Said
  <1>3. Sends(h) /\ Mail(o)
    BY <1>1, <1>2, TurnToSend DEF Both
  <1>4. f \in Files /\ q.pos \in Nat /\ Size[f] \in Nat
    BY <1>1, Constants DEF Work, Working, Transfer, Process
  <1>5. /\ p[o].state \in {"getreply", "recvdata"} /\ p[o].file = f
        /\ q.master # p[o].master
        /\ p[o].state = "getreply" => First(o, {"RY"})
        /\ \A i \in DOMAIN w : w[i].type # "eof"
        /\ q.pos = IF p[o].state = "getreply" THEN Len(w) - 1 ELSE Len(T) + Len(w)
    BY <1>2, <1>3 DEF Sends, Same
  <1>6. temp' = temp /\ src' = src
    BY DEF QuietDisk, disk
  <1>7. /\ w \in Seq(Packet) /\ v \in Seq(Packet) /\ Len(w) \in Nat
        /\ Len(v) = Len(w) + 1 /\ v[Len(w) + 1] = m
        /\ \A i \in 1..Len(w) : v[i] = w[i]
        /\ Words(w) = Len(w)
    BY <1>2 DEF Came
  <1>8. DOMAIN w = 1..Len(w) /\ DOMAIN v = 1..(Len(w) + 1) /\ v # <<>>
    BY <1>7, WordsFacts
  <1>9. \A i \in 1..Len(w) : w[i].type # "eof"
    BY <1>5, <1>8
  <1> HIDE DEF w, v, T
  <1>10. CASE p[o].state = "getreply"
    <2>1. Len(w) >= 1 /\ q.pos = Len(w) - 1
      BY <1>4, <1>5, <1>7, <1>10
    <2>2. w # <<>> /\ 1 \in 1..Len(w)
      BY <1>7, <2>1, WordsFacts
    <2>3. v[1] = w[1] /\ w[1].type = "RY"
      BY <1>5, <1>7, <1>10, <2>2 DEF First, w
    <2>4. f \in src /\ Stream(w, 2, 0, f)
      BY <1>3, <1>5, <1>7, <1>10, <2>1, <2>3 DEF Mail, w
    <2>5. /\ Len(inb[o]) >= 2 - 1 /\ Stream(inb[o], 2, 0, f)
          /\ \A i \in 1..Len(inb[o]) : inb[o][i].type # "eof"
          /\ \/ /\ m.type = "data" /\ m.file = f /\ m.off <= Size[f]
                /\ m.off = 0 + (Len(inb[o]) + 1 - 2) + 1
             \/ m.type = "eof" /\ 0 + (Len(inb[o]) + 1 - 2) = Size[f]
      BY <1>4, <1>7, <1>9, <2>1, <2>4 DEF w
    <2>6. Stream(v, 2, 0, f)
      BY <1>1, <1>2, <2>5, StreamComes DEF v
    <2>7. Mail(o)'
      <3>1. Stream(inb'[o], 2, 0, f) /\ inb'[o][1].type = "RY"
        BY <2>3, <2>6 DEF v
      <3> QED
        BY <1>2, <1>5, <1>6, <1>10, <2>4, <3>1 DEF Mail, Reading
    <2>8. First(o, {"RY"})'
      BY <2>3 DEF First, v
    <2> QED
      <3>1. CASE m.type = "data"
        <4>1. s.state \in {"senddata", "sendeof"} /\ s.pos = Len(v) - 1
          BY <1>4, <1>7, <2>1, <3>1
        <4>2. \A i \in DOMAIN v : v[i].type # "eof"
          BY <1>7, <1>8, <1>9, <3>1
        <4>3. Sends(h)'
          BY <1>2, <1>5, <1>10, <2>8, <4>1, <4>2 DEF Sends, Same, v
        <4> QED
          BY <2>7, <4>3 DEF Turns
      <3>2. CASE m.type = "eof"
        <4>1. s.state = "eofreply" /\ v[Len(v)].type = "eof"
          BY <1>7, <3>2
        <4>2. Sends(h)'
          BY <1>2, <1>5, <1>8, <1>10, <2>8, <4>1 DEF Sends, Same, v
        <4> QED
          BY <2>7, <4>2 DEF Turns
      <3> QED
        BY <3>1, <3>2
  <1>11. CASE p[o].state = "recvdata"
    <2>1. Len(T) \in Nat /\ q.pos = Len(T) + Len(w)
      BY <1>1, <1>5, <1>11, Received DEF T
    <2>2. Stream(inb[o], 1, Len(T), f)
      BY <1>3, <1>5, <1>11 DEF Mail, T
    <2>3. /\ Len(inb[o]) >= 1 - 1
          /\ \A i \in 1..Len(inb[o]) : inb[o][i].type # "eof"
          /\ \/ /\ m.type = "data" /\ m.file = f /\ m.off <= Size[f]
                /\ m.off = Len(T) + (Len(inb[o]) + 1 - 1) + 1
             \/ m.type = "eof" /\ Len(T) + (Len(inb[o]) + 1 - 1) = Size[f]
      BY <1>4, <1>7, <1>9, <2>1 DEF w
    <2>4. Stream(v, 1, Len(T), f)
      BY <1>1, <1>2, <2>1, <2>2, <2>3, StreamComes DEF v
    <2>5. Mail(o)'
      <3>1. Stream(inb'[o], 1, Len(temp'[p'[o].tmp]), f)
        BY <1>2, <1>6, <2>4 DEF v, T
      <3> QED
        BY <1>2, <1>5, <1>11, <3>1 DEF Mail, Reading
    <2>6. temp'[p'[o].tmp] = T
      BY <1>2, <1>6 DEF T
    <2> QED
      <3>1. CASE m.type = "data"
        <4>1. s.state \in {"senddata", "sendeof"} /\ s.pos = Len(T) + Len(v)
          BY <1>4, <1>7, <2>1, <3>1
        <4>2. \A i \in DOMAIN v : v[i].type # "eof"
          BY <1>7, <1>8, <1>9, <3>1
        <4>3. Sends(h)'
          BY <1>2, <1>5, <1>11, <2>6, <4>1, <4>2 DEF Sends, Same, v
        <4> QED
          BY <2>5, <4>3 DEF Turns
      <3>2. CASE m.type = "eof"
        <4>1. s.state = "eofreply" /\ v[Len(v)].type = "eof"
          BY <1>7, <3>2
        <4>2. Sends(h)'
          BY <1>2, <1>5, <1>8, <1>11, <4>1 DEF Sends, Same, v
        <4> QED
          BY <2>5, <4>2 DEF Turns
      <3> QED
        BY <3>1, <3>2
  <1> QED
    BY <1>5, <1>10, <1>11

\* A host that goes on sending: its memory.
LEMMA SenderSelf ==
  ASSUME XferInv, NEW h \in Hosts, p[h].state \in {"senddata", "sendeof"}, NEW s, Fit(h, s),
         s.state \in {"senddata", "sendeof", "eofreply"},
         s.master = p[h].master, s.job = p[h].job, s.line = p[h].line, s.errs = p[h].errs,
         s.todo = p[h].todo, s.file = p[h].file, s.stream => s.state \in {"senddata", "sendeof"},
         s.state = "senddata" => s.pos < Size[s.file],
         s.state = "sendeof" => s.pos = Size[s.file],
         QuietDisk, p'[h] = s
  PROVE  Roles(h)' /\ Work(h)' /\ Behind(h)'
  <1> DEFINE q == p[h]
  <1>1. Roles(h) /\ Work(h) /\ Behind(h)
    BY Known
  <1>2. src' = src /\ queue' = queue /\ \A g : Done(g) => StillDone(g)
    BY DEF QuietDisk, disk, Done, Arrived, StillDone, StillArrived
  <1>3. Roles(h)'
    BY <1>1, <1>2 DEF Roles, Transfer, Chosen
  <1>4. Work(h)'
    BY <1>1, <1>2 DEF Work, Working, Giving, Transfer
  <1>5. ASSUME s.job # None, ~s.errs, NEW n \in DOMAIN Lines[s.job], n < s.line
        PROVE  StillDone(Lines[s.job][n].file)
    BY <1>1, <1>2, <1>5 DEF Behind
  <1>6. Behind(h)'
    BY <1>5 DEF Behind, StillDone, StillArrived, Done, Arrived
  <1> QED
    BY <1>3, <1>4, <1>6

\* The sender sends a block.
LEMMA SendDataStep ==
  ASSUME XferInv, NEW h \in Hosts, SendData(h)
  PROVE  XferInv'
  <1> DEFINE q == p[h]
             o == Other(h)
             f == q.file
             s == StartSending(q, f, q.pos + 1)
             m == Msg("data", f, q.pos + 1)
  <1>1. /\ Fit(h, q) /\ q \in Process /\ Work(h) /\ q.state = "senddata" /\ DiskTypes
        /\ send(h, m, s)
    BY Known DEF SendData
  <1>2. /\ f \in Files /\ q.pos \in Nat /\ Size[f] \in Nat /\ q.pos < Size[f]
        /\ q.state \notin Reading \cup Gone
    BY <1>1, Constants DEF Work, Working, Transfer, Process, Reading, Gone
  <1>3. q.pos + 1 \in Nat /\ q.pos + 1 \in 0..Size[f]
    BY <1>2
  <1>4. Fit(h, s) /\ Starts(s, q, f, q.pos + 1)
    BY <1>1, <1>2, <1>3, Starting
  <1>5. /\ m \in Packet /\ m.type = "data" /\ m.file = f /\ m.off = q.pos + 1
    BY <1>2, <1>3, Messages DEF Types
  <1>6. QuietDisk
    BY <1>1 DEF SendData, QuietDisk, hist, DiskTypes
  <1> HIDE DEF s, m
  <1>7. /\ s.state \in {"senddata", "sendeof"} /\ s.master = q.master /\ s.job = q.job
        /\ s.line = q.line /\ s.errs = q.errs /\ s.todo = q.todo /\ s.file = f
        /\ s.pos = q.pos + 1
        /\ s.state = "senddata" => s.pos < Size[f]
        /\ s.state = "sendeof" => s.pos = Size[f]
    BY <1>2, <1>3, <1>4 DEF Starts
  <1>8. p'[h] = s => Roles(h)' /\ Work(h)' /\ Behind(h)'
    BY <1>1, <1>4, <1>6, <1>7, SenderSelf
  <1>9. Said(h, m, s) => Mail(o)' /\ Turns'
    BY <1>1, <1>3, <1>5, <1>6, <1>7, BlockSaid
  <1>10. Keeps(o)
    BY <1>1, <1>4, <1>6, SayingQuietly
  <1> QED
    BY <1>1, <1>2, <1>4, <1>5, <1>8, <1>9, <1>10, Posting

\* A file to send cannot be read on, or a work file not be opened.
LEMMA ReadErrorStep ==
  ASSUME XferInv, NEW h \in Hosts, ReadError(h)
  PROVE  XferInv'
  <1>1. Fit(h, p[h]) /\ DiskTypes /\ p[h].state \in {"senddata", "nextjob", "noremote"}
    BY Known DEF ReadError, CannotOpen
  <1>2. Fit(h, Abort(p[h])) /\ Quits(Abort(p[h]))
    BY <1>1, Quitting
  <1>3. faults' \in 0..MaxFaults
    BY <1>1, Constants DEF ReadError, DiskFault, DiskTypes
  <1>4. QuietDisk
    BY <1>1, <1>3 DEF ReadError, QuietDisk, DiskTypes
  <1>5. Keeps(Other(h))
    BY <1>2, <1>4, QuietStep DEF ReadError
  <1> QED
    BY <1>1, <1>2, <1>5, MovedOut DEF ReadError

\* The sender says that the file ends here, starts again, or is told to end.
LEMMA SendEofStep ==
  ASSUME XferInv, NEW h \in Hosts, SendEof(h)
  PROVE  XferInv'
  <1> DEFINE q == p[h]
             o == Other(h)
             f == q.file
  <1>1. /\ Fit(h, q) /\ q \in Process /\ Work(h) /\ q.state = "sendeof" /\ DiskTypes
        /\ o \in Hosts /\ Other(o) = h /\ o # h /\ TypeOK /\ Closed(h) /\ Closed(o) /\ Turns
        /\ (Busy(h) => Mail(h)) /\ (Busy(o) => Mail(o))
    BY Known, HostFacts DEF SendEof
  <1>2. /\ f \in Files /\ q.pos \in Nat /\ Size[f] \in Nat /\ q.pos = Size[f]
        /\ q.state \notin Reading \cup Gone /\ q.state \notin {"closing", "over"}
    BY <1>1, Constants DEF Work, Working, Transfer, Process, Reading, Gone
  <1>3. QuietDisk /\ up' = up /\ resend' = resend
    BY <1>1 DEF SendEof, QuietDisk, hist, DiskTypes, disk
  <1>4. CASE /\ ~Left(h) /\ post(h, Word("eof"))
             /\ become(h, [q EXCEPT !.state = "eofreply", !.stream = FALSE])
    <2> DEFINE s == [q EXCEPT !.state = "eofreply", !.stream = FALSE]
               m == Word("eof")
    <2>1. s \in Process
      BY <1>1 DEF Process, States, Reading
    <2>2. /\ s.state = "eofreply" /\ s.job = q.job /\ ~s.stream /\ s.master = q.master
          /\ s.todo = q.todo /\ s.file = f /\ s.pos = q.pos /\ s.tmp = q.tmp
          /\ s.spool = q.spool /\ s.line = q.line /\ s.errs = q.errs
      BY <1>1 DEF Process
    <2>3. m \in Packet /\ m.type = "eof"
      BY Messages DEF Types
    <2>4. send(h, m, s)
      BY <1>3, <1>4 DEF send
    <2> HIDE DEF s, m
    <2>5. Fit(h, s)
      BY <1>1, <2>1, <2>2 DEF Fit
    <2>6. Keeps(o)
      BY <1>3, <2>4, <2>5, SayingQuietly
    <2>7. p'[h] = s => Roles(h)' /\ Work(h)' /\ Behind(h)'
      BY <1>1, <1>3, <2>2, <2>5, SenderSelf
    <2>8. Said(h, m, s) => Mail(o)' /\ Turns'
      BY <1>1, <1>2, <1>3, <2>2, <2>3, BlockSaid
    <2> QED
      BY <1>1, <1>2, <2>3, <2>4, <2>5, <2>6, <2>7, <2>8, Posting
  <1>5. CASE Left(h) /\ become(h, StartSending(q, f, 0)) /\ UNCHANGED inb
    <2> DEFINE s == StartSending(q, f, 0)
    <2>1. 0 \in 0..Size[f]
      BY <1>2
    <2>2. Fit(h, s) /\ Starts(s, q, f, 0)
      BY <1>1, <1>2, <2>1, Starting
    <2>3. p'[h] = s /\ p'[o] = p[o] /\ Keeps(o) /\ Holds(h)'
      BY <1>1, <1>3, <1>5, <2>2, Becoming, QuietStep
    <2> HIDE DEF s
    <2>4. /\ s.state \in {"senddata", "sendeof"} /\ s.master = q.master /\ s.job = q.job
          /\ s.line = q.line /\ s.errs = q.errs /\ s.todo = q.todo /\ s.file = f
          /\ s.pos = 0
          /\ s.state = "senddata" => s.pos < Size[f]
          /\ s.state = "sendeof" => s.pos = Size[f]
      BY <1>2, <2>2 DEF Starts
    <2>5. Roles(h)' /\ Work(h)' /\ Behind(h)'
      BY <1>1, <1>3, <2>2, <2>3, <2>4, SenderSelf
    <2>6. InboxesOK' /\ Closed(h)' /\ Closed(o)' /\ inb'[o] = inb[o] /\ inb'[h] = inb[h]
      BY <1>1, <1>2, <1>5, <2>3, Unread DEF Stays
    <2>7. Mail(h)'
      <3>1. Words(inb'[h]) = 0
        BY <1>1, <1>2, <2>6 DEF Mail, Busy
      <3> QED
        BY <3>1, NoMail
    <2>8. Busy(o) => Mail(o)'
      BY <1>1, <2>3, <2>6, MailSame
    <2>9. Turns'
      <3>1. CASE ~Busy(o)
        BY <1>1, <2>3, <3>1 DEF Turns, Busy
      <3>2. CASE Busy(o)
        <4>1. ~up /\ Both
          BY <1>2, <1>5, <3>2, TurnFacts DEF Left, Busy, Gone
        <4>2. Sends(h)
          BY <1>1, <4>1, TurnToSend
        <4>3. /\ p[o].state \in {"getreply", "recvdata"} /\ p[o].file = f /\ inb[h] = <<>>
              /\ q.master # p[o].master
              /\ p[o].state = "getreply" => First(o, {"RY"})
              /\ \A i \in DOMAIN inb[o] : inb[o][i].type # "eof"
          BY <1>1, <4>2 DEF Sends, Same
        <4>4. First(o, {"RY"})' = First(o, {"RY"})
          BY <2>6 DEF First
        <4>5. Sends(h)'
          BY <1>3, <2>3, <2>4, <2>6, <4>1, <4>3, <4>4 DEF Sends, Same
        <4> QED
          BY <4>5 DEF Turns
      <3> QED
        BY <3>1, <3>2
    <2>10. Safe(h)'
      BY <2>3, <2>5, <2>6, <2>7 DEF Safe, Self
    <2>11. become(h, s) /\ up' \in BOOLEAN /\ resend' \in BOOLEAN
      BY <1>1, <1>3, <1>5 DEF TypeOK, s
    <2> QED
      BY <2>2, <2>3, <2>6, <2>8, <2>9, <2>10, <2>11, Moved
  <1>6. CASE HasClosed(h) /\ become(h, Abort(q)) /\ UNCHANGED inb
    <2>1. Fit(h, Abort(q)) /\ Quits(Abort(q))
      BY <1>1, Quitting
    <2>2. Keeps(o) /\ UNCHANGED net
      BY <1>3, <1>6, <2>1, QuietStep DEF net
    <2> QED
      BY <1>2, <1>6, <2>1, <2>2, MovedOut
  <1> QED
    BY <1>4, <1>5, <1>6 DEF SendEof

-----------------------------------------------------------------------------
(***************************************************************************)
(* The end of a file at its receiver.                                      *)
(***************************************************************************)
\* The other host has sent it all and waits, or is not there.
LEMMA SenderWaits ==
  ASSUME XferInv, NEW h \in Hosts, p[h].state = "recveof"
  PROVE  /\ Both => /\ p[Other(h)].state = "eofreply" /\ inb[Other(h)] = <<>>
                    /\ p[Other(h)].file = p[h].file /\ p[h].master # p[Other(h)].master
         /\ Busy(Other(h)) => Both
  <1>1. Turns /\ Other(h) \in Hosts /\ Other(Other(h)) = h
    BY Known, HostFacts
  <1>2. Both => Sends(Other(h))
    BY <1>1, TurnToReceive
  <1>3. Busy(Other(h)) => Both
    BY TurnFacts DEF Busy, Gone
  <1> QED
    BY <1>1, <1>2, <1>3 DEF Sends, Same

\* None of the lines behind the sender is the file's.
LEMMA NotBehind ==
  ASSUME XferInv, NEW h \in Hosts, p[h].state = "recveof", p[Other(h)].job # None,
         NEW n \in DOMAIN Lines[p[Other(h)].job],
         n < p[Other(h)].line \/ (n = p[Other(h)].line /\ p[Other(h)].state = "request")
  PROVE  Lines[p[Other(h)].job][n].file # p[h].file
  <1> DEFINE o == Other(h)
             j == p[o].job
  <1>1. o \in Hosts /\ Roles(o) /\ Work(o) /\ p[o] \in Process
    BY Known, HostFacts
  <1>2. Busy(o) /\ j \in Jobs
    BY <1>1 DEF Roles, Busy, Gone, Chosen, Transfer, Process
  <1>3. p[o].state = "eofreply" /\ p[o].file = p[h].file
    BY <1>2, SenderWaits
  <1>4. /\ p[o].master /\ p[o].line >= 1 /\ p[o].file = Lines[j][p[o].line].file
        /\ p[o].line <= Len(Lines[j]) /\ p[o].line \in Nat
    BY <1>1, <1>3 DEF Roles, Work, Working, Transfer, Chosen, Process
  <1>5. n < p[o].line
    BY <1>3
  <1>6. DOMAIN Lines[j] = 1..Len(Lines[j]) /\ Len(Lines[j]) \in Nat
    BY <1>2, XferAssumption, LenProperties DEF XferConstants, JobsAssumption
  <1>7. p[o].line \in DOMAIN Lines[j]
    BY <1>4, <1>6
  <1>8. Lines[j][n].file = Lines[j][p[o].line].file => n = p[o].line
    BY <1>2, <1>7, LineFacts
  <1> QED
    BY <1>3, <1>4, <1>5, <1>8

\* What the file's name stood for is gone, or is torn by a crash.
LEMMA PlaceLost ==
  ASSUME XferInv, NEW h \in Hosts, p[h].state = "recveof",
         NEW c, place' = [place EXCEPT ![p[h].file] = c],
         \/ c = None
         \/ /\ c \in Prefixes(p[h].file) /\ "crash" \in Faults
            /\ p[h].file \notin Spooled \/ ~SameDrive,
         UNCHANGED <<queue, src, temp, later, delivered, refused>>,
         faults' \in 0..MaxFaults, p'[Other(h)] = p[Other(h)]
  PROVE  Keeps(Other(h))
  <1> DEFINE o == Other(h)
             f == p[h].file
  <1>1. /\ TypeOK /\ FilesOK /\ Self(o) /\ DiskTypes /\ o \in Hosts
        /\ f \in Files /\ Kept(f)
    BY Known, HostFacts, Received
  <1>2. place'[f] = c /\ \A g \in Files : g # f => place'[g] = place[g]
    BY <1>1 DEF DiskTypes
  <1>3. c \in Contents
    BY <1>1, PartFacts DEF Contents
  <1>4. DiskTypes'
    BY <1>1, <1>3 DEF DiskTypes
  <1>5. \A g : g # f /\ g \in Files /\ Arrived(g) => StillArrived(g)
    BY <1>2 DEF Arrived, StillArrived
  <1>6. FilesOK'
    <2>1. Temporary'
      BY <1>1 DEF FilesOK, Temporary
    <2>2. Sources'
      BY <1>1, <1>2 DEF FilesOK, Sources, Arrived, Kept
    <2>3. NothingLost'
      BY <1>1, <1>2 DEF FilesOK, NothingLost, Kept
    <2>4. Intact'
      <3>1. ASSUME NEW g \in Files
            PROVE  \/ place'[g] \in {None, Whole(g)}
                   \/ /\ "crash" \in Faults /\ (g \notin Spooled \/ ~SameDrive)
                      /\ place'[g] \in Prefixes(g)
                      /\ (g \in src /\ JobOf(g) \in queue) \/ g \in refused
        BY <1>1, <1>2, <3>1 DEF FilesOK, Intact, Kept
      <3> QED
        BY <3>1 DEF Intact
    <2> QED
      BY <2>1, <2>2, <2>3, <2>4 DEF FilesOK
  <1>7. Self(o)'
    <2>1. p[o].job # None => p[o].job \in queue' /\ p[o].job \in Jobs
      BY <1>1 DEF Self, Roles, DiskTypes
    <2>2. Kept(p[o].file) => Kept(p[o].file)'
      BY DEF Kept
    <2>3. ASSUME p[o].job # None, NEW n \in DOMAIN Lines[p[o].job],
                 n < p[o].line \/ (n = p[o].line /\ p[o].state = "request"),
                 Done(Lines[p[o].job][n].file)
          PROVE  StillDone(Lines[p[o].job][n].file)
      <3>1. Lines[p[o].job][n].file # f
        BY <2>3, NotBehind
      <3>2. Lines[p[o].job][n].file \in Files
        BY SMTT(40), <2>1, <2>3, LineFacts
      <3> QED
        BY <1>5, <2>3, <3>1, <3>2 DEF Done, StillDone
    <2>4. p[o].job # None /\ ~p[o].errs =>
            \A n \in DOMAIN Lines[p[o].job] :
               (n < p[o].line \/ (n = p[o].line /\ p[o].state = "request"))
               /\ Done(Lines[p[o].job][n].file) => Done(Lines[p[o].job][n].file)'
      BY Zenon, <2>3 DEF StillDone, StillArrived, Done, Arrived
    <2> QED
      BY <1>1, <2>1, <2>2, <2>4, Undisturbed
  <1>8. Busy(o) => MailKept(o)
    <2>1. Busy(o) => p[o].state = "eofreply" /\ Words(inb[o]) = 0
      BY SenderWaits DEF Words
    <2> QED
      BY <1>1, <2>1 DEF MailKept, Kept, StillKept
  <1> QED
    BY <1>4, <1>6, <1>7, <1>8 DEF Keeps

\* The file has its name.
LEMMA PlaceTaken ==
  ASSUME XferInv, OwnTemps, NEW h \in Hosts, p[h].state = "recveof",
         place' = [place EXCEPT ![p[h].file] = temp[p[h].tmp]],
         temp' = [temp EXCEPT ![p[h].tmp] = None],
         delivered' = [delivered EXCEPT ![p[h].file] = @ + 1],
         UNCHANGED <<queue, src, later, faults, refused>>, p'[Other(h)] = p[Other(h)]
  PROVE  /\ Keeps(Other(h)) /\ StillArrived(p[h].file)
         /\ \A g \in Files : Done(g) => StillDone(g)
  <1> DEFINE o == Other(h)
             f == p[h].file
  <1>1. /\ TypeOK /\ FilesOK /\ Self(o) /\ DiskTypes /\ o \in Hosts /\ o # h /\ Other(o) = h
        /\ f \in Files /\ Kept(f) /\ Giver(f) = o /\ p[h].tmp = Tmp[f] /\ Work(h)
    BY Known, HostFacts, Received
  <1>2. temp[p[h].tmp] = Whole(f)
    BY <1>1 DEF Work, Working, Transfer
  <1>3. /\ place'[f] = Whole(f) /\ \A g \in Files : g # f => place'[g] = place[g]
        /\ \A g \in Files : delivered'[g] >= delivered[g] /\ delivered[g] \in Nat
        /\ delivered'[f] > 0 /\ delivered' \in [Files -> Nat]
    BY <1>1, <1>2 DEF DiskTypes
  <1>4. \A g \in Files : Arrived(g) => StillArrived(g)
    BY <1>3 DEF Arrived, StillArrived
  <1>5. \A g \in Files : Done(g) => StillDone(g)
    BY <1>4 DEF Done, StillDone
  <1>6. StillArrived(f)
    BY <1>3 DEF StillArrived
  <1>7. Tmp[f] \in Temps /\ \A g \in Files : g # f => temp'[Tmp[g]] = temp[Tmp[g]]
    BY <1>1, Constants DEF OwnTemps, DiskTypes
  <1>8. temp'[Tmp[f]] = None
    BY <1>1, <1>7 DEF DiskTypes
  <1>9. DiskTypes'
    <2>1. Whole(f) \in Contents /\ None \in Contents
      BY <1>1, PartFacts DEF Contents
    <2> QED
      BY <1>1, <1>2, <1>3, <2>1 DEF DiskTypes
  <1>10. FilesOK'
    <2>1. Temporary'
      BY <1>1, <1>7, <1>8 DEF FilesOK, Temporary
    <2>2. Sources'
      BY <1>1, <1>4 DEF FilesOK, Sources, Arrived, StillArrived
    <2>3. NothingLost'
      BY <1>1, <1>3 DEF FilesOK, NothingLost
    <2>4. Intact'
      BY <1>1, <1>3 DEF FilesOK, Intact
    <2> QED
      BY <2>1, <2>2, <2>3, <2>4 DEF FilesOK
  <1>11. p[o].state \in {"recvdata", "recveof"} => temp'[p[o].tmp] = temp[p[o].tmp]
    <2>1. p[o].state \in {"recvdata", "recveof"} =>
             p[o].file \in Files /\ Giver(p[o].file) = h /\ p[o].tmp = Tmp[p[o].file]
      BY <1>1 DEF Self, Work, Working, Giving, Transfer
    <2> QED
      BY <1>1, <1>7, <2>1
  <1>12. Self(o)'
    <2>1. p[o].job # None => p[o].job \in queue' /\ p[o].job \in Jobs
      BY <1>1 DEF Self, Roles, DiskTypes
    <2>2. Kept(p[o].file) => Kept(p[o].file)'
      BY DEF Kept
    <2>3. ASSUME p[o].job # None, NEW n \in DOMAIN Lines[p[o].job],
                 Done(Lines[p[o].job][n].file)
          PROVE  StillDone(Lines[p[o].job][n].file)
      BY SMTT(40), <1>5, <2>1, <2>3, LineFacts
    <2>4. p[o].job # None /\ ~p[o].errs =>
            \A n \in DOMAIN Lines[p[o].job] :
               (n < p[o].line \/ (n = p[o].line /\ p[o].state = "request"))
               /\ Done(Lines[p[o].job][n].file) => Done(Lines[p[o].job][n].file)'
      BY Zenon, <2>3 DEF StillDone, StillArrived, Done, Arrived
    <2> QED
      BY <1>1, <1>11, <2>1, <2>2, <2>4, Undisturbed
  <1>13. Busy(o) => MailKept(o)
    <2>1. Busy(o) => p[o].state = "eofreply" /\ Words(inb[o]) = 0
      BY SenderWaits DEF Words
    <2> QED
      BY <1>1, <2>1 DEF MailKept, Kept, StillKept
  <1> QED
    BY <1>5, <1>6, <1>9, <1>10, <1>12, <1>13 DEF Keeps

\* The receiver has the file, says so and goes on.
LEMMA RecvEofStep ==
  ASSUME XferInv, OwnTemps, NEW h \in Hosts, RecvEof(h)
  PROVE  XferInv'
  <1> DEFINE q == p[h]
             o == Other(h)
             f == q.file
             r == [q EXCEPT !.stream = FALSE, !.spool = FALSE]
             s == FileDone(r)
             m == Word("CY")
  <1>1. /\ Fit(h, q) /\ q \in Process /\ Roles(h) /\ Work(h) /\ Behind(h) /\ q.state = "recveof"
        /\ o \in Hosts /\ Other(o) = h /\ TypeOK
    BY Known, HostFacts DEF RecvEof
  <1>2. /\ f \in Files /\ q.state \notin Reading \cup Gone /\ Kept(f)
        /\ q.master => /\ q.job \in queue /\ At[q.job] = h /\ q.job # None
                       /\ q.line <= Len(Lines[q.job]) /\ q.line >= 1
                       /\ f = Lines[q.job][q.line].file
        /\ ~q.master => q.job = None
    BY <1>1, Received DEF Reading, Gone
  <1>3. r \in Process
    BY <1>1 DEF Process
  <1>4. /\ r.master = q.master /\ r.job = q.job /\ r.line = q.line /\ ~r.stream
        /\ r.errs = q.errs /\ r.tmp = q.tmp /\ ~r.spool /\ r.todo = q.todo
        /\ r.file = q.file /\ r.pos = q.pos
    BY <1>1 DEF Process
  <1>5. send(h, m, s)
    BY DEF RecvEof
  <1> HIDE DEF r
  <1>6. Fit(h, r)
    BY <1>1, <1>3, <1>4 DEF Fit
  <1>7. Fit(h, s) /\ Finishes(s, r) /\ Fit(h, Lost(s))
    BY <1>6, Finishing, Quitting
  <1>8. m \in Packet /\ m.type = "CY"
    BY Messages DEF Types
  <1> HIDE DEF s, m
  <1>9. p'[o] = p[o]
    BY <1>1, <1>5, <1>7, Becoming DEF send
  <1>10. /\ Keeps(o) /\ StillArrived(f)
         /\ \A g \in Files : Done(g) => StillDone(g)
    BY <1>1, <1>9, PlaceTaken DEF RecvEof
  <1>11. queue' = queue
    BY DEF RecvEof
  <1>12. /\ s.state = (IF q.master THEN "request" ELSE "recvhdr")
         /\ s.master = q.master /\ s.job = q.job /\ s.line = q.line /\ s.errs = q.errs
         /\ s.todo = q.todo /\ ~s.stream
    BY <1>4, <1>7 DEF Finishes
  <1>13. ASSUME p'[h] = s PROVE Roles(h)' /\ Work(h)' /\ Behind(h)'
    <2>1. Roles(h)'
      BY <1>2, <1>7, <1>11, <1>12, <1>13 DEF Roles, Fit, Chosen, Transfer
    <2>2. Work(h)'
      BY <1>12, <1>13 DEF Work, Working, Transfer
    <2>3. ASSUME q.job # None, ~q.errs, NEW n \in DOMAIN Lines[q.job], n <= q.line,
                 q.line \in Nat, n \in Nat
          PROVE  StillDone(Lines[q.job][n].file)
      <3>1. CASE n < q.line
        <4>1. Done(Lines[q.job][n].file)
          BY <1>1, <2>3, <3>1 DEF Behind
        <4>2. Lines[q.job][n].file \in Files
          BY <1>1, <2>3, LineFacts DEF Process
        <4> QED
          BY <1>10, <4>1, <4>2
      <3>2. CASE n = q.line
        BY <1>2, <1>10, <2>3, <3>2 DEF StillDone
      <3> QED
        BY <2>3, <3>1, <3>2
    <2>4. Behind(h)'
      <3>1. q.line \in Nat
        BY <1>1 DEF Process
      <3>2. q.job # None => \A n \in DOMAIN Lines[q.job] : n \in Nat
        BY <1>1, LineFacts DEF Process
      <3>3. ASSUME q.job # None, ~q.errs, NEW n \in DOMAIN Lines[q.job],
                   n < q.line \/ n = q.line
            PROVE  StillDone(Lines[q.job][n].file)
        BY <2>3, <3>1, <3>2, <3>3
      <3> QED
        BY <1>12, <1>13, <3>3 DEF Behind, StillDone, StillArrived, Done, Arrived
    <2> QED
      BY <2>1, <2>2, <2>4
  <1>14. ASSUME Said(h, m, s) PROVE Mail(o)' /\ Turns'
    <2>1. /\ p[o].state = "eofreply" /\ inb[o] = <<>> /\ p'[o] = p[o] /\ p'[h] = s
          /\ inb'[h] = <<>> /\ p[o].file = f /\ q.master # p[o].master
      BY <1>1, <1>14, SenderWaits DEF Said
    <2>2. Len(inb'[o]) = 1 /\ Words(inb'[o]) = 1 /\ inb'[o][1] = m
      BY <1>1, <1>14, <2>1, FirstCame DEF Said
    <2>3. Arrived(p[o].file)'
      BY <1>10, <2>1 DEF StillArrived, Arrived
    <2>4. Mail(o)'
      BY <1>8, <2>1, <2>2, <2>3 DEF Mail, Reading
    <2>5. q.master \in BOOLEAN /\ p[o].master \in BOOLEAN
      BY <1>1 DEF TypeOK, Process
    <2>6. CASE q.master
      <3>1. ~p[o].master
        BY <2>1, <2>5, <2>6
      <3>2. Ready(o, 0)'
        BY <1>8, <2>1, <2>2, <3>1 DEF Ready, Gets, First
      <3>3. Leads(h)'
        BY <1>12, <2>1, <2>6, <3>2 DEF Leads
      <3> QED
        BY <2>4, <3>3 DEF Turns
    <2>7. CASE ~q.master
      <3>1. p[o].master
        BY <2>1, <2>5, <2>7
      <3>2. Answered(h)'
        BY <1>8, <1>12, <2>1, <2>2, <2>7, <3>1 DEF Answered, Gets, First
      <3> QED
        BY <2>4, <3>2 DEF Turns
    <2> QED
      BY <2>6, <2>7
  <1> QED
    BY <1>1, <1>2, <1>5, <1>7, <1>8, <1>10, <1>13, <1>14, Posting

\* The receiver says that it could not keep the file, and gives up.
LEMMA NotKept ==
  ASSUME XferInv, NEW h \in Hosts, p[h].state = "recveof", NEW r, Fit(h, r),
         send(h, Word("CN"), Abort(r)), Keeps(Other(h))
  PROVE  XferInv'
  <1> DEFINE o == Other(h)
             s == Abort(r)
             m == Word("CN")
  <1>1. Fit(h, s) /\ Quits(s) /\ s.state = "endp" /\ TypeOK /\ inb[o] \in Seq(Packet)
        /\ Closed(h) /\ Closed(o) /\ o \in Hosts /\ Other(o) = h
    BY Quitting, Known, HostFacts
  <1>2. m \in Packet /\ m.type = "CN" /\ m.type # "CLOSE"
    BY Messages DEF Types
  <1>3. send(h, m, s) /\ p[h].state \notin {"closing", "over"}
    OBVIOUS
  <1>4. up' = up /\ resend' = resend
    BY DEF send
  <1> HIDE DEF s, m
  <1>5. CASE post(h, m) /\ become(h, s)
    <2>1. p'[h] = s /\ p'[o] = p[o]
      BY <1>1, <1>5, Becoming
    <2>2. ASSUME Busy(o) PROVE Mail(o)'
      <3>1. p[o].state = "eofreply" /\ inb[o] = <<>>
        BY <2>2, SenderWaits
      <3>2. /\ Words(inb'[o]) = Len(inb[o]) + 1
            /\ inb'[o][Len(inb[o]) + 1] = m
        BY <1>1, <1>2, <1>3, <1>5, <2>1, Posted
      <3>3. Len(inb[o]) = 0
        BY <1>1, <3>1, WordsFacts
      <3>4. Words(inb'[o]) = 1 /\ inb'[o][1] = m
        BY <3>2, <3>3
      <3> QED
        BY <1>2, <2>1, <3>1, <3>4 DEF Mail, Reading
    <2> QED
      BY <1>1, <1>2, <1>3, <1>4, <1>5, <2>2, PostedOut
  <1>6. CASE become(h, Lost(s)) /\ UNCHANGED inb
    BY <1>1, <1>3, <1>4, <1>6, SendFails
  <1> QED
    BY <1>3, <1>5, <1>6 DEF send

\* The receiver cannot close the file.
LEMMA CloseFailsStep ==
  ASSUME XferInv, OwnTemps, NEW h \in Hosts, CloseFails(h)
  PROVE  XferInv'
  <1> DEFINE q == p[h]
             o == Other(h)
  <1>1. /\ Fit(h, q) /\ q.state = "recveof" /\ send(h, Word("CN"), Abort(q)) /\ TypeOK /\ DiskTypes
    BY Known DEF CloseFails
  <1>2. q.file \in Files /\ Giver(q.file) = o /\ q.tmp = Tmp[q.file]
    BY <1>1, Received
  <1>3. Fit(h, Abort(q)) /\ Fit(h, Lost(Abort(q)))
    BY <1>1, Quitting
  <1>4. p'[o] = p[o]
    BY <1>1, <1>3, Becoming DEF send
  <1>5. faults' \in 0..MaxFaults
    BY <1>1, Constants DEF CloseFails, DiskFault, DiskTypes
  <1>6. temp' = [temp EXCEPT ![Tmp[q.file]] = None]
    BY <1>2 DEF CloseFails
  <1>7. UNCHANGED <<queue, src, place, later, delivered, refused>>
    BY DEF CloseFails
  <1>8. Keeps(o)
    BY <1>2, <1>4, <1>5, <1>6, <1>7, TempChange
  <1> QED
    BY <1>1, <1>8, NotKept

\* The receiver cannot give the file its name.
LEMMA RenameFailsStep ==
  ASSUME XferInv, NEW h \in Hosts, RenameFails(h)
  PROVE  XferInv'
  <1> DEFINE q == p[h]
             o == Other(h)
             r == [q EXCEPT !.spool = FALSE]
  <1>1. /\ Fit(h, q) /\ q \in Process /\ q.state = "recveof" /\ TypeOK /\ DiskTypes
        /\ send(h, Word("CN"), Abort(r))
    BY Known DEF RenameFails
  <1>2. r \in Process
    BY <1>1 DEF Process
  <1>3. /\ r.tmp = q.tmp /\ ~r.spool /\ r.todo = q.todo /\ r.file = q.file /\ r.pos = q.pos
    BY <1>1 DEF Process
  <1> HIDE DEF r
  <1>4. Fit(h, r)
    BY <1>1, <1>2, <1>3 DEF Fit
  <1>5. Fit(h, Abort(r)) /\ Fit(h, Lost(Abort(r)))
    BY <1>4, Quitting
  <1>6. p'[o] = p[o]
    BY <1>1, <1>5, Becoming DEF send
  <1>7. faults' \in 0..MaxFaults
    BY <1>1, Constants DEF RenameFails, DiskFault, DiskTypes
  <1>8. /\ place' = [place EXCEPT ![q.file] = None]
        /\ UNCHANGED <<queue, src, temp, later, delivered, refused>>
    BY DEF RenameFails
  <1>9. Keeps(o)
    BY <1>1, <1>6, <1>7, <1>8, PlaceLost
  <1> QED
    BY <1>1, <1>4, <1>9, NotKept

-----------------------------------------------------------------------------
(***************************************************************************)
(* The end of a session, and the next.                                     *)
(***************************************************************************)
\* A host closes the protocol.
LEMMA EndPStep ==
  ASSUME XferInv, NEW h \in Hosts, EndP(h)
  PROVE  XferInv'
  <1> DEFINE q == p[h]
             o == Other(h)
             c == IF ~q.aborted /\ q.hstatus = "inprogress" THEN "called" ELSE q.hstatus
             s == [q EXCEPT !.state = "closing", !.hstatus = c]
             m == Word("CLOSE")
  <1>1. /\ Fit(h, q) /\ q \in Process /\ q.state = "endp" /\ DiskTypes /\ Roles(h)
        /\ up' = up /\ resend' = resend
    BY Known DEF EndP
  <1>2. q.job = None /\ ~q.stream
    BY <1>1 DEF Roles, Chosen, Transfer
  <1>3. QuietDisk
    BY <1>1 DEF EndP, QuietDisk, hist, DiskTypes
  <1>4. CASE post(h, m) /\ become(h, s)
    <2>1. c \in Statuses
      BY <1>1 DEF Process, Statuses
    <2>2. s \in Process /\ s.state = "closing"
      <3> HIDE DEF c
      <3> QED
        BY <1>1, <2>1 DEF Process, States
    <2>3. /\ s.job = q.job /\ s.stream = q.stream /\ s.tmp = q.tmp /\ s.spool = q.spool
          /\ s.todo = q.todo /\ s.file = q.file /\ s.pos = q.pos
      <3> HIDE DEF c
      <3> QED
        BY <1>1 DEF Process
    <2>4. m \in Packet /\ m.type = "CLOSE"
      BY Messages DEF Types
    <2> HIDE DEF s, m
    <2>5. Fit(h, s) /\ Quits(s)
      BY <1>1, <1>2, <2>2, <2>3 DEF Fit, Quits, Gone
    <2>6. Keeps(o)
      BY <1>3, <1>4, <2>5, QuietStep
    <2> QED
      BY <1>1, <1>4, <2>2, <2>4, <2>5, <2>6, PostedOut
  <1>5. CASE become(h, Lost(q)) /\ UNCHANGED inb
    <2>1. Keeps(o)
      BY <1>1, <1>3, <1>5, Quitting, QuietStep
    <2> QED
      BY <1>1, <1>5, <2>1, SendFails
  <1> QED
    BY <1>4, <1>5 DEF EndP

\* A host has heard that the protocol is closed, or has waited long enough.
LEMMA ClosingStep ==
  ASSUME XferInv, OwnTemps, NEW h \in Hosts, Closing(h)
  PROVE  XferInv'
  <1> DEFINE q == p[h]
             o == Other(h)
             s == [q EXCEPT !.state = "over", !.spool = FALSE]
  <1>1. /\ Fit(h, q) /\ q \in Process /\ q.state = "closing" /\ TypeOK /\ DiskTypes /\ Roles(h)
        /\ Holds(h)
    BY Known DEF Closing
  <1>2. q.job = None /\ ~q.stream
    BY <1>1 DEF Roles, Chosen, Transfer
  <1>3. /\ UNCHANGED <<queue, src, place, later, delivered, refused>> /\ UNCHANGED net
        /\ faults' = faults
    BY DEF Closing, hist
  <1>4. faults' \in 0..MaxFaults
    BY <1>1, <1>3 DEF DiskTypes
  <1>5. CASE /\ temp' = IF q.spool THEN [temp EXCEPT ![q.tmp] = None] ELSE temp
             /\ become(h, s)
    <2>1. s \in Process /\ s.state = "over"
      BY <1>1 DEF Process, States
    <2>2. /\ s.job = q.job /\ s.stream = q.stream /\ s.tmp = q.tmp /\ ~s.spool
          /\ s.todo = q.todo /\ s.file = q.file /\ s.pos = q.pos
      BY <1>1 DEF Process
    <2> HIDE DEF s
    <2>3. Fit(h, s) /\ Quits(s)
      BY <1>1, <1>2, <2>1, <2>2 DEF Fit, Quits, Gone
    <2>4. p'[o] = p[o]
      BY <1>1, <1>5, <2>3, Becoming
    <2>5. Keeps(o)
      <3>1. CASE q.spool
        <4>1. PICK f \in Files : q.tmp = Tmp[f] /\ Giver(f) = o
          BY <1>1, <3>1 DEF Holds
        <4>2. temp' = [temp EXCEPT ![Tmp[f]] = None]
          BY <1>5, <3>1, <4>1
        <4> QED
          BY <1>3, <1>4, <2>4, <4>1, <4>2, TempChange
      <3>2. CASE ~q.spool
        <4>1. QuietDisk
          BY <1>1, <1>3, <1>4, <1>5, <3>2 DEF QuietDisk, disk, DiskTypes
        <4> QED
          BY <1>5, <2>3, <4>1, QuietStep
      <3> QED
        BY <3>1, <3>2
    <2> QED
      BY <1>3, <1>5, <2>1, <2>3, <2>5, MovedOut
  <1>6. CASE become(h, Lost(q)) /\ UNCHANGED temp
    <2>1. Fit(h, Lost(q)) /\ Quits(Lost(q)) /\ Lost(q).state = "over"
      BY <1>1, Quitting
    <2>2. QuietDisk
      BY <1>1, <1>3, <1>4, <1>6 DEF QuietDisk, disk, DiskTypes
    <2>3. Keeps(o)
      BY <1>6, <2>1, <2>2, QuietStep
    <2> QED
      BY <1>3, <1>6, <2>1, <2>3, MovedOut
  <1> QED
    BY <1>5, <1>6 DEF Closing

\* Both hosts are new to the session.
LEMMA CallStep ==
  ASSUME XferInv, NEW h \in Hosts, Call(h)
  PROVE  XferInv'
  <1> DEFINE o == Other(h)
  <1>1. /\ TypeOK /\ FilesOK /\ o \in Hosts /\ o # h /\ Other(o) = h
        /\ \A x \in Hosts : Fit(x, p[x]) /\ Holds(x)
        /\ \A x \in Hosts : x = h \/ x = o
    BY Known, HostFacts
  <1>2. /\ up' = TRUE /\ inb' = [x \in Hosts |-> <<>>]
        /\ UNCHANGED <<queue, src, temp, place, later, faults, delivered, refused>>
    BY DEF Call, disk, hist
  <1>3. resend' \in BOOLEAN
    BY Constants DEF Call
  <1> DEFINE keeps(x, b) == IF b THEN [Fresh EXCEPT !.spool = p[x].spool, !.tmp = p[x].tmp]
                            ELSE Fresh
             turn(x, q) == IF x = h THEN Master(q, h) ELSE Slave(q)
             begin(x, b) == [keeps(x, b) EXCEPT !.hstatus = "inprogress"]
  <1>4. PICK same \in [Hosts -> BOOLEAN] :
           p' = [x \in Hosts |-> turn(x, begin(x, same[x]))]
    BY DEF Call
  <1>5. ASSUME NEW x \in Hosts, NEW b \in BOOLEAN
        PROVE  /\ Fit(x, begin(x, b)) /\ begin(x, b).job = None /\ ~begin(x, b).stream
    <2>1. Fresh \in Process /\ Fresh.tmp = None /\ ~Fresh.spool
      BY DEF Fresh, Process, States, Statuses
    <2>2. /\ p[x].spool \in BOOLEAN /\ p[x].tmp \in Temps \cup {None}
      BY <1>1 DEF TypeOK, Process
    <2>3. keeps(x, b) \in Process
      BY <2>1, <2>2 DEF Process
    <2>4. /\ keeps(x, b).todo = {} /\ keeps(x, b).file = None /\ keeps(x, b).job = None
          /\ ~keeps(x, b).stream
          /\ keeps(x, b).tmp # None => keeps(x, b).tmp = p[x].tmp
          /\ keeps(x, b).spool => p[x].spool /\ keeps(x, b).tmp = p[x].tmp
      BY <2>1, <2>2 DEF Fresh
    <2> HIDE DEF keeps
    <2>5. begin(x, b) \in Process
      BY <2>3 DEF Process, Statuses
    <2>6. /\ begin(x, b).todo = {} /\ begin(x, b).file = None /\ begin(x, b).job = None
          /\ ~begin(x, b).stream /\ begin(x, b).tmp = keeps(x, b).tmp
          /\ begin(x, b).spool = keeps(x, b).spool
      BY <2>3, <2>4 DEF Process
    <2> HIDE DEF begin
    <2>7. Fit(x, begin(x, b))
      BY <1>1, <2>4, <2>5, <2>6 DEF Fit, Holds
    <2> QED
      BY <2>6, <2>7
  <1> HIDE DEF begin
  <1>6. /\ p'[h] = Master(begin(h, same[h]), h) /\ p'[o] = Slave(begin(o, same[o]))
    BY <1>1, <1>4
  <1>7. /\ Fit(h, p'[h]) /\ p'[h].state = "nextjob" /\ p'[h].master /\ p'[h].job = None
        /\ ~p'[h].stream
    BY <1>1, <1>5, <1>6, Turning
  <1>8. /\ Fit(o, p'[o]) /\ p'[o].state = "recvhdr" /\ ~p'[o].master /\ p'[o].job = None
        /\ ~p'[o].stream
    BY <1>1, <1>5, <1>6, Turning
  <1>9. DOMAIN p' = Hosts /\ p' = [x \in Hosts |-> p'[x]]
    BY <1>4
  <1>10. p' \in [Hosts -> Process]
    <2>1. \A x \in Hosts : p'[x] \in Process
      BY <1>1, <1>7, <1>8 DEF Fit
    <2> QED
      BY <1>9, <2>1
  <1>11. inb'[h] = <<>> /\ inb'[o] = <<>> /\ InboxesOK'
    BY <1>1, <1>2 DEF InboxesOK
  <1>12. TypeOK'
    <2>1. \A x \in Hosts : p'[x].file # None => p'[x].pos <= Size[p'[x].file]
      BY <1>1, <1>7, <1>8 DEF Fit
    <2> QED
      BY <1>1, <1>2, <1>3, <1>10, <1>11, <2>1 DEF TypeOK, InboxesOK, Packet
  <1>13. FilesOK'
    BY <1>1, <1>2 DEF FilesOK, Temporary, Sources, NothingLost, Intact, Arrived
  <1>14. ASSUME NEW x \in Hosts PROVE Safe(x)'
    <2>1. inb'[x] = <<>> /\ Words(inb'[x]) = 0
      BY <1>1, <1>11 DEF Words
    <2>2. Mail(x)'
      BY <2>1, NoMail
    <2>3. Closed(x)'
      BY <2>1 DEF Closed
    <2>4. Roles(x)'
      BY <1>1, <1>7, <1>8 DEF Roles, Fit, Chosen, Transfer
    <2>5. Work(x)' /\ Behind(x)'
      BY <1>1, <1>7, <1>8 DEF Work, Behind, Working, Transfer
    <2>6. Holds(x)'
      BY <1>1, <1>7, <1>8 DEF Holds, Fit
    <2> QED
      BY <2>2, <2>3, <2>4, <2>5, <2>6 DEF Safe, Self
  <1>15. Turns'
    <2>1. Ready(o, 0)'
      <3>1. Len(inb'[o]) = 0
        BY <1>11
      <3> QED
        BY <1>2, <1>8, <3>1 DEF Ready, Gets
    <2>2. Leads(h)'
      BY <1>7, <2>1 DEF Leads
    <2> QED
      BY <2>2 DEF Turns
  <1>16. TypeOK' /\ FilesOK' /\ (\A x \in Hosts : Safe(x))' /\ Turns'
    BY <1>12, <1>13, <1>14, <1>15
  <1> QED
    BY <1>16 DEF XferInv, FilesOK, Safe, Self

-----------------------------------------------------------------------------
(***************************************************************************)
(* The rest of the world.                                                  *)
(***************************************************************************)
\* A job more is queued.
LEMMA SubmitStep ==
  ASSUME XferInv, NEW j \in Jobs, Submit(j)
  PROVE  XferInv'
  <1> DEFINE a == At[j]
  <1>1. /\ TypeOK /\ FilesOK /\ Turns /\ a \in Hosts
        /\ \A x \in Hosts : Other(x) \in Hosts /\ Other(Other(x)) = x
    BY Known, HostFacts, Constants
  <1>2. /\ later' = later \ {j} /\ queue' = queue \cup {j}
        /\ UNCHANGED <<src, temp, place, net, faults, delivered, refused>>
    BY DEF Submit
  <1>3. PICK T : T \subseteq p[a].todo \cup {j} /\ p' = [p EXCEPT ![a].todo = T]
    BY DEF Submit
  <1>4. UNCHANGED inb /\ up' = up /\ resend' = resend
    BY <1>2 DEF net
  <1>5. ASSUME NEW x \in Hosts
        PROVE  /\ p'[x].state = p[x].state /\ p'[x].master = p[x].master /\ p'[x].job = p[x].job
               /\ p'[x].line = p[x].line /\ p'[x].errs = p[x].errs /\ p'[x].file = p[x].file
               /\ p'[x].stream = p[x].stream /\ p'[x].pos = p[x].pos
               /\ p'[x].spool = p[x].spool /\ p'[x].tmp = p[x].tmp
               /\ p'[x] \in Process
               /\ \A k \in p'[x].todo : At[k] = x
    <2>1. p[x] \in Process /\ Roles(x)
      BY <1>1, Known DEF TypeOK
    <2>2. x # a => p'[x] = p[x]
      BY <1>1, <1>3 DEF TypeOK
    <2>3. x = a => p'[x] = [p[x] EXCEPT !.todo = T]
      BY <1>1, <1>3 DEF TypeOK
    <2>4. CASE x # a
      BY <2>1, <2>2, <2>4 DEF Roles
    <2>5. CASE x = a
      <3>1. p[x].todo \subseteq Jobs /\ \A k \in p[x].todo : At[k] = x
        BY <2>1 DEF Process, Roles
      <3>2. T \subseteq Jobs /\ \A k \in T : At[k] = x
        BY <1>3, <2>5, <3>1
      <3> QED
        BY <2>1, <2>3, <2>5, <3>2 DEF Process
    <2> QED
      BY <2>4, <2>5
  <1>6. \A f : (Kept(f) => Kept(f)') /\ (Arrived(f) => Arrived(f)') /\ (Done(f) => Done(f)')
    BY <1>2 DEF Kept, Arrived, Done
  <1>7. ASSUME NEW x \in Hosts PROVE Safe(x)'
    <2>1. /\ Roles(x) /\ Work(x) /\ Holds(x) /\ Behind(x) /\ Closed(x)
          /\ (Busy(x) => Mail(x)) /\ Other(x) \in Hosts
      BY <1>1, Known
    <2>2. Roles(x)'
      BY <1>2, <1>5, <2>1 DEF Roles
    <2>3. Work(x)'
      BY <1>2, <1>5, <1>6, <2>1 DEF Work
    <2>4. Holds(x)'
      BY <1>5, <2>1 DEF Holds
    <2>5. Behind(x)'
      BY <1>2, <1>5, <2>1 DEF Behind, Done, Arrived
    <2>6. Closed(x)'
      BY <1>4, <1>5, <2>1 DEF Closed
    <2>7. \A m : Command(x, m) => Command(x, m)'
      BY <1>6 DEF Command, Kept
    <2>8. Arrived(p[x].file) => Arrived(p[x].file)'
      BY <1>2, <1>5 DEF Arrived
    <2>9. Busy(x)' => Mail(x)'
      BY <1>2, <1>4, <1>5, <2>1, <2>7, <2>8 DEF Mail, Busy
    <2> QED
      BY <2>2, <2>3, <2>4, <2>5, <2>6, <2>9 DEF Safe, Self
  <1>8. TypeOK'
    <2>1. \A x \in Hosts : p'[x].file # None => p'[x].pos <= Size[p'[x].file]
      BY <1>1, <1>5 DEF TypeOK
    <2>2. p' \in [Hosts -> Process]
      BY <1>1, <1>3, <1>5 DEF TypeOK
    <2> QED
      BY <1>1, <1>2, <1>4, <2>1, <2>2 DEF TypeOK
  <1>9. FilesOK'
    <2>1. Temporary' /\ Sources' /\ NothingLost'
      BY <1>1, <1>2 DEF FilesOK, Temporary, Sources, NothingLost, Arrived
    <2>2. Intact'
      BY <1>1, <1>2 DEF FilesOK, Intact
    <2> QED
      BY <2>1, <2>2 DEF FilesOK
  <1>10. Turns'
    <2>1. ASSUME NEW x \in Hosts, Turn(x)
          PROVE  \E y \in Hosts : (Leads(y) \/ Asks(y) \/ Answers(y) \/ Answered(y) \/ Sends(y))'
      <3> DEFINE o == Other(x)
      <3>1. o \in Hosts
        BY <1>1
      <3>2. (Ready(o, 0) => Ready(o, 0)') /\ (Ready(o, 1) => Ready(o, 1)')
        BY <1>4, <1>5, <3>1 DEF Ready, Gets, First
      <3>3. CASE Leads(x)
        <4>1. Leads(x)'
          BY <1>5, <3>2, <3>3 DEF Leads
        <4> QED
          BY <4>1
      <3>4. CASE Asks(x)
        <4>1. Asks(x)'
          BY <1>4, <1>5, <3>2, <3>4 DEF Asks, Asked
        <4> QED
          BY <4>1
      <3>5. CASE Answers(x)
        <4>1. Answers(x)'
          BY <1>4, <1>5, <3>1, <3>5 DEF Answers, Same
        <4> QED
          BY <4>1
      <3>6. CASE Answered(x)
        <4>1. Answered(x)'
          BY <1>2, <1>4, <1>5, <3>1, <3>6 DEF Answered, Same, Gets, First
        <4> QED
          BY <4>1
      <3>7. CASE Sends(x)
        <4>1. Sends(x)'
          BY <1>2, <1>4, <1>5, <3>1, <3>7 DEF Sends, Same, First
        <4> QED
          BY <4>1
      <3> QED
        BY <2>1, <3>3, <3>4, <3>5, <3>6, <3>7 DEF Turn
    <2>2. (\A x \in Hosts : Busy(x))' => Both
      BY <1>5 DEF Both, Busy
    <2> QED
      BY <1>1, <2>1, <2>2 DEF Turns, Turn, Both
  <1>11. (TypeOK /\ FilesOK /\ (\A x \in Hosts : Safe(x)) /\ Turns)'
    BY <1>7, <1>8, <1>9, <1>10
  <1> QED
    BY <1>11 DEF XferInv, FilesOK, Safe, Self

\* Of what was on its way the first packets are left.
LEMMA CutFacts ==
  ASSUME TypeOK, CutLine, NEW h \in Hosts
  PROVE  /\ InboxesOK' /\ up' = FALSE
         /\ Len(inb'[h]) \in Nat /\ Len(inb[h]) \in Nat /\ Len(inb'[h]) <= Len(inb[h])
         /\ \A i \in 1..Len(inb'[h]) : inb'[h][i] = inb[h][i]
         /\ Words(inb'[h]) <= Words(inb[h])
         /\ \A i \in 1..Words(inb'[h]) : inb'[h][i] = inb[h][i]
         /\ inb[h] = <<>> => inb'[h] = <<>>
         /\ inb'[h] # <<>> => inb[h] # <<>> /\ inb'[h][1] = inb[h][1]
         /\ DOMAIN inb'[h] = 1..Len(inb'[h]) /\ DOMAIN inb[h] = 1..Len(inb[h])
         /\ Closed(h) /\ Stays(Other(h)) => Closed(h)'
  <1>1. inb \in [Hosts -> Seq(Packet)]
    BY DEF TypeOK, Packet
  <1>2. PICK n \in [Hosts -> 0..(Len(inb[Caller]) + Len(inb[Answerer]))] :
           /\ \A x \in Hosts : n[x] <= Len(inb[x])
           /\ inb' = [x \in Hosts |-> SubSeq(inb[x], 1, n[x])]
    BY DEF CutLine
  <1>3. ASSUME NEW x \in Hosts
        PROVE  /\ inb'[x] \in Seq(Packet) /\ Len(inb'[x]) \in Nat /\ Len(inb[x]) \in Nat
               /\ Len(inb'[x]) <= Len(inb[x])
               /\ \A i \in 1..Len(inb'[x]) : inb'[x][i] = inb[x][i]
    <2> DEFINE w == inb[x]
               k == n[x]
    <2>1. w \in Seq(Packet) /\ Len(w) \in Nat /\ \A i \in 1..Len(w) : w[i] \in Packet
      BY <1>1, WordsFacts
    <2>2. Len(inb[Caller]) \in Nat /\ Len(inb[Answerer]) \in Nat
      BY <1>1, WordsFacts, HostFacts
    <2>3. k \in 0..(Len(inb[Caller]) + Len(inb[Answerer])) /\ k <= Len(w)
      BY <1>2
    <2>4. k \in Nat
      BY <2>2, <2>3
    <2>5. inb'[x] = SubSeq(w, 1, k)
      BY <1>2
    <2> HIDE DEF w, k
    <2>6. \A i \in 1..k : w[i] \in Packet
      BY <2>1, <2>3, <2>4
    <2>7. /\ SubSeq(w, 1, k) \in Seq(Packet)
          /\ Len(SubSeq(w, 1, k)) = IF 1 <= k THEN k - 1 + 1 ELSE 0
          /\ \A i \in 1..(k - 1 + 1) : SubSeq(w, 1, k)[i] = w[1 + i - 1]
      BY <2>4, <2>6, SubSeqProperties
    <2>8. k - 1 + 1 = k /\ \A i \in 1..k : 1 + i - 1 = i
      BY <2>4
    <2>9. Len(SubSeq(w, 1, k)) = k
      BY <2>4, <2>7
    <2> QED
      BY <2>1, <2>3, <2>4, <2>5, <2>7, <2>8, <2>9 DEF w
  <1>4. InboxesOK' /\ up' = FALSE
    <2>1. DOMAIN inb' = Hosts /\ inb' = [x \in Hosts |-> inb'[x]]
      BY <1>2
    <2> QED
      BY <1>3, <2>1 DEF InboxesOK, CutLine
  <1> DEFINE w == inb[h]
             v == inb'[h]
  <1>5. /\ w \in Seq(Packet) /\ v \in Seq(Packet) /\ Len(v) <= Len(w)
        /\ \A i \in 1..Len(v) : v[i] = w[i]
    BY <1>1, <1>3
  <1> HIDE DEF w, v
  <1>6. /\ Len(w) \in Nat /\ Words(w) \in Nat /\ Words(w) <= Len(w) /\ Len(w) <= Words(w) + 1
        /\ DOMAIN w = 1..Len(w) /\ (w = <<>> <=> Len(w) = 0)
        /\ w # <<>> /\ w[Len(w)].type # "CLOSE" => Words(w) = Len(w)
        /\ w # <<>> /\ w[Len(w)].type = "CLOSE" => Words(w) = Len(w) - 1
    BY <1>5, WordsFacts
  <1>7. /\ Len(v) \in Nat /\ Words(v) \in Nat /\ Words(v) <= Len(v) /\ Len(v) <= Words(v) + 1
        /\ DOMAIN v = 1..Len(v) /\ (v = <<>> <=> Len(v) = 0)
        /\ v # <<>> /\ v[Len(v)].type # "CLOSE" => Words(v) = Len(v)
        /\ v # <<>> /\ v[Len(v)].type = "CLOSE" => Words(v) = Len(v) - 1
    BY <1>5, WordsFacts
  <1>8. Words(v) <= Words(w)
    <2>1. CASE Len(v) < Len(w)
      BY <1>6, <1>7, <2>1
    <2>2. CASE Len(v) = Len(w) /\ Len(v) = 0
      BY <1>6, <1>7, <2>2
    <2>3. CASE Len(v) = Len(w) /\ Len(v) # 0
      <3>1. v[Len(v)] = w[Len(w)]
        BY <1>5, <1>7, <2>3
      <3> QED
        BY <1>6, <1>7, <2>3, <3>1
    <2>4. Len(v) \in Nat /\ Len(w) \in Nat /\ Len(v) <= Len(w)
      BY <1>5, <1>6, <1>7
    <2>5. Len(v) < Len(w) \/ Len(v) = Len(w)
      BY <2>4
    <2> QED
      BY <2>1, <2>2, <2>3, <2>5
  <1>9. \A i \in 1..Words(v) : v[i] = w[i]
    BY <1>5, <1>7
  <1>10. w = <<>> => v = <<>>
    BY <1>5, <1>6, <1>7
  <1>11. v # <<>> => w # <<>> /\ v[1] = w[1]
    BY <1>5, <1>6, <1>7
  <1>12. Closed(h) /\ Stays(Other(h)) => Closed(h)'
    <2> SUFFICES ASSUME Closed(h), Stays(Other(h)), NEW i \in DOMAIN v, v[i].type = "CLOSE"
                 PROVE  i = Len(v) /\ p'[Other(h)].state \in {"closing", "over"}
      BY DEF Closed, v
    <2>1. i \in DOMAIN w /\ v[i] = w[i] /\ i <= Len(v) /\ i \in Nat
      BY <1>5, <1>6, <1>7
    <2>2. i = Len(w) /\ p[Other(h)].state \in {"closing", "over"}
      BY <2>1 DEF Closed, w
    <2>3. Len(v) \in Nat /\ Len(w) \in Nat /\ Len(v) <= Len(w) /\ i \in Nat /\ i <= Len(v) /\ i = Len(w)
      BY <1>5, <1>6, <1>7, <2>1, <2>2
    <2>4. i = Len(v)
      BY <2>3
    <2> QED
      BY <2>2, <2>4 DEF Stays
  <1> QED
    BY <1>4, <1>5, <1>6, <1>7, <1>8, <1>9, <1>10, <1>11, <1>12 DEF w, v

\* The line drops.
LEMMA DropStep ==
  ASSUME XferInv, Drop
  PROVE  XferInv'
  <1>1. /\ TypeOK /\ FilesOK /\ Turns /\ DiskTypes
        /\ \A x \in Hosts : /\ Other(x) \in Hosts /\ Self(x) /\ Closed(x)
                            /\ (Busy(x) => Mail(x))
    BY Known, HostFacts
  <1>2. p' = p /\ CutLine /\ up' = FALSE /\ resend' = resend /\ faults' = faults - 1 /\ faults > 0
    BY DEF Drop, CutLine, Fault
  <1>3. faults' \in 0..MaxFaults
    BY <1>1, <1>2, Constants DEF DiskTypes
  <1>4. QuietDisk
    BY <1>1, <1>3 DEF Drop, QuietDisk, DiskTypes
  <1>5. \A x \in Hosts : Keeps(x)
    BY <1>1, <1>2, <1>4, QuietDiskFacts
  <1>6. ASSUME NEW x \in Hosts PROVE Safe(x)'
    <2>1. Stays(Other(x))
      BY <1>2 DEF Stays
    <2>2. InboxesOK' /\ Closed(x)' /\ Words(inb'[x]) <= Words(inb[x])
          /\ \A i \in 1..Words(inb'[x]) : inb'[x][i] = inb[x][i]
      BY <1>1, <1>2, <2>1, CutFacts
    <2>3. Busy(x) => Mail(x)'
      BY <1>1, <1>2, <1>5, <2>2, MailUntouched
    <2> QED
      BY <1>2, <1>5, <2>2, <2>3 DEF Safe, Keeps, Busy
  <1>7. TypeOK'
    <2>1. InboxesOK'
      BY <1>1, <1>2, CutFacts, HostFacts
    <2>2. DiskTypes'
      BY <1>5, HostFacts DEF Keeps
    <2> QED
      BY <1>1, <1>2, <2>1, <2>2 DEF TypeOK, DiskTypes, InboxesOK, Packet
  <1>8. FilesOK'
    BY <1>5, HostFacts DEF Keeps
  <1>9. Turns'
    <2>1. ASSUME NEW x \in Hosts, Turn(x)
          PROVE  \E y \in Hosts : (Leads(y) \/ Asks(y) \/ Answers(y) \/ Answered(y) \/ Sends(y))'
      <3> DEFINE o == Other(x)
      <3>1. /\ o \in Hosts /\ temp' = temp /\ up \in BOOLEAN
            /\ inb[x] = <<>> => inb'[x] = <<>>
            /\ inb[o] = <<>> => inb'[o] = <<>>
        BY <1>1, <1>2, <1>4, CutFacts DEF QuietDisk, disk, TypeOK
      <3>2. /\ Len(inb'[o]) \in Nat /\ Len(inb[o]) \in Nat /\ Len(inb'[o]) <= Len(inb[o])
            /\ \A i \in 1..Len(inb'[o]) : inb'[o][i] = inb[o][i]
            /\ inb'[o] # <<>> => inb[o] # <<>> /\ inb'[o][1] = inb[o][1]
            /\ DOMAIN inb'[o] = 1..Len(inb'[o]) /\ DOMAIN inb[o] = 1..Len(inb[o])
        BY <1>1, <1>2, <3>1, CutFacts
      <3>3. \A i \in DOMAIN inb'[o] : i \in DOMAIN inb[o] /\ inb'[o][i] = inb[o][i]
        BY <3>2
      <3>4. \A T : First(o, T) => First(o, T)'
        BY <3>2 DEF First
      <3>5. \A k \in Nat : Gets(o, k) => Gets(o, k)'
        BY <1>2, <3>2 DEF Gets
      <3>6. (Ready(o, 0) => Ready(o, 0)') /\ (Ready(o, 1) => Ready(o, 1)')
        <4>1. First(o, {"CY"}) => First(o, {"CY"})'
          BY <3>2 DEF First
        <4>2. First(o, {"HN"}) => First(o, {"HN"})'
          BY <3>2 DEF First
        <4>3. /\ Gets(o, 0) => Gets(o, 0)'
              /\ Gets(o, 0 + 1) => Gets(o, 0 + 1)'
              /\ Gets(o, 1) => Gets(o, 1)'
              /\ Gets(o, 1 + 1) => Gets(o, 1 + 1)'
          BY <1>2, <3>2 DEF Gets
        <4> QED
          BY <1>2, <4>1, <4>2, <4>3 DEF Ready
      <3>7. CASE Leads(x)
        <4>1. Leads(x)'
          BY <1>2, <3>6, <3>7 DEF Leads
        <4> QED
          BY <4>1
      <3>8. CASE Asks(x)
        <4>1. Asks(x)'
          BY <1>2, <3>1, <3>3, <3>6, <3>8 DEF Asks, Asked
        <4> QED
          BY <4>1
      <3>9. CASE Answers(x)
        <4>1. Answers(x)'
          BY <1>2, <3>1, <3>9 DEF Answers, Same
        <4> QED
          BY <4>1
      <3>10. CASE Answered(x)
        <4>1. inb'[x] = <<>> /\ Gets(o, 1)'
          <5>1. inb[x] = <<>> /\ Gets(o, 1)
            BY <3>10 DEF Answered
          <5>2. inb'[x] = <<>>
            BY <3>1, <5>1
          <5>3. Gets(o, 1)'
            BY <3>5, <5>1
          <5> QED
            BY <5>2, <5>3
        <4>2. /\ First(o, {"SN"}) => First(o, {"SN"})'
              /\ First(o, {"RN"}) => First(o, {"RN"})'
              /\ First(o, {"CY"}) => First(o, {"CY"})'
              /\ First(o, {"SY"}) => First(o, {"SY"})'
              /\ First(o, {"HY"}) => First(o, {"HY"})'
          BY <3>2 DEF First
        <4>3. Same(x)' = Same(x)
          BY <1>2 DEF Same
        <4>4. Answered(x)'
          BY <1>2, <3>1, <3>2, <3>10, <4>1, <4>2, <4>3 DEF Answered
        <4> QED
          BY <4>4
      <3>11. CASE Sends(x)
        <4>1. Sends(x)'
          BY <1>2, <3>1, <3>2, <3>3, <3>11 DEF Sends, Same, First
        <4> QED
          BY <4>1
      <3> QED
        BY <2>1, <3>7, <3>8, <3>9, <3>10, <3>11 DEF Turn
    <2>2. (\A x \in Hosts : Busy(x))' => Both
      BY <1>2 DEF Both, Busy
    <2> QED
      BY <1>1, <2>1, <2>2 DEF Turns, Turn, Both
  <1>10. (TypeOK /\ FilesOK /\ (\A x \in Hosts : Safe(x)) /\ Turns)'
    BY <1>6, <1>7, <1>8, <1>9
  <1> QED
    BY <1>10 DEF XferInv, FilesOK, Safe, Self

\* A host is gone, and the line with it.
LEMMA MovedCut ==
  ASSUME XferInv, NEW h \in Hosts, become(h, Fresh), CutLine, resend' = resend, Keeps(Other(h))
  PROVE  XferInv'
  <1> DEFINE o == Other(h)
  <1>1. /\ TypeOK /\ o \in Hosts /\ Other(o) = h /\ Closed(h) /\ Closed(o)
        /\ (Busy(o) => Mail(o))
    BY Known, HostFacts
  <1>2. Fit(h, Fresh) /\ Quits(Fresh) /\ Fresh.state = "over"
    BY DEF Fresh, Fit, Quits, Gone, Process, States, Statuses
  <1>3. Self(h)' /\ ~Busy(h)' /\ Turns' /\ p'[h] = Fresh /\ p'[o] = p[o]
    BY <1>1, <1>2, Leaves, Becoming
  <1>4. Stays(h) /\ Stays(o)
    BY <1>2, <1>3 DEF Stays
  <1>5. InboxesOK' /\ up' = FALSE /\ Closed(h)' /\ Closed(o)'
    BY <1>1, <1>4, CutFacts
  <1>6. /\ Words(inb'[o]) <= Words(inb[o])
        /\ \A i \in 1..Words(inb'[o]) : inb'[o][i] = inb[o][i]
    BY <1>1, CutFacts
  <1>7. Busy(o) => Mail(o)'
    BY <1>1, <1>3, <1>5, <1>6, MailUntouched
  <1>8. Safe(h)'
    BY <1>3, <1>5 DEF Safe
  <1>9. up' \in BOOLEAN /\ resend' \in BOOLEAN
    BY <1>1, <1>5 DEF TypeOK
  <1> QED
    BY <1>2, <1>3, <1>5, <1>7, <1>8, <1>9, Moved

\* A host's machine stops.
LEMMA CrashStep ==
  ASSUME XferInv, OwnTemps, NEW h \in Hosts, Crash(h)
  PROVE  XferInv'
  <1> DEFINE q == p[h]
             o == Other(h)
             writing == q.stream /\ q.state \in {"recvdata", "recveof"}
  <1>1. TypeOK /\ DiskTypes
    BY Known
  <1>2. /\ become(h, Fresh) /\ CutLine /\ resend' = resend
        /\ UNCHANGED <<queue, src, place, later, delivered, refused>>
        /\ faults' = faults - 1 /\ faults > 0
    BY DEF Crash, Fault
  <1>3. Fit(h, Fresh)
    BY DEF Fresh, Fit, Process, States, Statuses
  <1>4. p'[o] = p[o] /\ faults' \in 0..MaxFaults
    BY <1>1, <1>2, <1>3, Becoming, Constants DEF DiskTypes
  <1>5. CASE writing
    <2>1. /\ q.file \in Files /\ Giver(q.file) = o /\ q.tmp = Tmp[q.file]
          /\ temp[q.tmp] \in Prefixes(q.file)
      BY <1>5, Received
    <2>2. PICK n \in 0..Len(temp[q.tmp]) : temp' = [temp EXCEPT ![q.tmp] = SubSeq(@, 1, n)]
      BY <1>5 DEF Crash
    <2> DEFINE c == SubSeq(temp[q.tmp], 1, n)
    <2>3. c \in Prefixes(q.file)
      BY <2>1, PrefixFacts
    <2>4. temp' = [temp EXCEPT ![Tmp[q.file]] = c]
      BY <2>1, <2>2
    <2> HIDE DEF c
    <2>5. Keeps(o)
      BY <1>2, <1>4, <2>1, <2>3, <2>4, TempChange
    <2> QED
      BY <1>2, <2>5, MovedCut
  <1>6. CASE ~writing
    <2>1. temp' = temp
      BY <1>6 DEF Crash
    <2>2. QuietDisk
      BY <1>1, <1>2, <1>4, <2>1 DEF QuietDisk, disk, DiskTypes
    <2>3. Keeps(o)
      BY <1>2, <1>3, <2>2, QuietStep
    <2> QED
      BY <1>2, <2>3, MovedCut
  <1> QED
    BY <1>5, <1>6

\* A host's machine stops while a file takes the place of another.
LEMMA CrashCopyingStep ==
  ASSUME XferInv, NEW h \in Hosts, CrashCopying(h)
  PROVE  XferInv'
  <1> DEFINE q == p[h]
             o == Other(h)
             f == q.file
  <1>1. TypeOK /\ DiskTypes /\ q.state = "recveof"
    BY Known DEF CrashCopying
  <1>2. /\ become(h, Fresh) /\ CutLine /\ resend' = resend
        /\ UNCHANGED <<queue, src, temp, later, delivered, refused>>
        /\ faults' = faults - 1 /\ faults > 0 /\ "crash" \in Faults
    BY DEF CrashCopying, Fault
  <1>3. Fit(h, Fresh)
    BY DEF Fresh, Fit, Process, States, Statuses
  <1>4. p'[o] = p[o] /\ faults' \in 0..MaxFaults
    BY <1>1, <1>2, <1>3, Becoming, Constants DEF DiskTypes
  <1>5. f \in Files /\ temp[q.tmp] \in Prefixes(f)
    BY <1>1, Received
  <1>6. PICK c : /\ place' = [place EXCEPT ![f] = c]
                 /\ c = None \/ (c \in Prefixes(f) /\ (f \notin Spooled \/ ~SameDrive))
    <2>1. CASE place' = [place EXCEPT ![f] = None]
      BY <2>1
    <2>2. CASE /\ ~SameDrive \/ f \notin Spooled
               /\ \E n \in 0..Len(temp[q.tmp]) :
                     place' = [place EXCEPT ![f] = SubSeq(temp[q.tmp], 1, n)]
      BY <1>5, <2>2, PrefixFacts
    <2> QED
      BY <2>1, <2>2 DEF CrashCopying
  <1>9. Keeps(o)
    BY <1>1, <1>2, <1>4, <1>6, PlaceLost
  <1> QED
    BY <1>2, <1>9, MovedCut

-----------------------------------------------------------------------------
(***************************************************************************)
(* The invariant, and what follows from it.                                *)
(***************************************************************************)
LEMMA InitXferInv == Init => XferInv
  <1> SUFFICES ASSUME Init PROVE XferInv
    OBVIOUS
  <1>1. /\ Fresh \in Process /\ Fresh.state = "over" /\ Fresh.job = None /\ ~Fresh.stream
        /\ Fresh.todo = {} /\ Fresh.file = None /\ Fresh.tmp = None /\ ~Fresh.spool
    BY DEF Fresh, Process, States, Statuses
  <1>2. \A h \in Hosts : p[h] = Fresh /\ inb[h] = <<>>
    BY DEF Init
  <1>3. TypeOK
    <2>1. p \in [Hosts -> Process] /\ \A h \in Hosts : p[h].file # None => p[h].pos <= Size[p[h].file]
      BY <1>1 DEF Init
    <2>2. /\ queue \subseteq Jobs /\ src \subseteq Files
          /\ temp \in [Temps -> Contents] /\ place \in [Files -> Contents]
      BY DEF Init, Contents
    <2>3. inb \in [Hosts -> Seq([type : Types, file : Files \cup {None}, off : Nat])]
      BY DEF Init
    <2>4. up \in BOOLEAN /\ resend \in BOOLEAN /\ later \subseteq Later /\ refused \subseteq Files
      BY Constants DEF Init
    <2>5. faults \in 0..MaxFaults /\ delivered \in [Files -> Nat]
      <3>1. MaxFaults \in 0..MaxFaults
        BY Constants
      <3>2. [f \in Files |-> 0] \in [Files -> Nat]
        OBVIOUS
      <3> QED
        BY <3>1, <3>2 DEF Init
    <2> QED
      BY <2>1, <2>2, <2>3, <2>4, <2>5 DEF TypeOK
  <1>4. FilesOK
    <2>1. Temporary
      BY Constants DEF Init, Temporary
    <2>2. Sources
      BY DEF Init, Sources
    <2>3. NothingLost
      BY FileFacts DEF Init, NothingLost
    <2>4. Intact
      BY DEF Init, Intact
    <2> QED
      BY <2>1, <2>2, <2>3, <2>4 DEF FilesOK
  <1>5. ASSUME NEW h \in Hosts PROVE Safe(h)
    <2>1. Roles(h) /\ Work(h) /\ Holds(h) /\ Behind(h)
      BY <1>1, <1>2, Constants DEF Roles, Work, Holds, Behind, Chosen, Transfer, Working
    <2>2. Closed(h) /\ ~Busy(h)
      BY <1>1, <1>2 DEF Closed, Busy, Gone
    <2> QED
      BY <2>1, <2>2 DEF Safe, Self
  <1>6. Turns
    <2>1. ~Busy(Caller)
      BY <1>1, <1>2, HostFacts DEF Busy, Gone
    <2> QED
      BY <2>1, HostFacts DEF Turns
  <1> QED
    BY <1>3, <1>4, <1>5, <1>6, XferInvParts

\* Every step of Xfer keeps the invariant.
LEMMA XferInvKept ==
  ASSUME OwnTemps, XferInv, [Next]_vars
  PROVE  XferInv'
  <1>1. ASSUME NEW h \in Hosts, Step(h)
        PROVE  XferInv'
    <2>1. CASE ReadFails(h) \/ NextJob(h) \/ JobDone(h) \/ NewRequest(h) \/ PutFile(h)
      BY <2>1, ReadFailsStep, NextJobStep, JobDoneStep, NewRequestStep, PutFileStep
    <2>2. CASE PutReply(h) \/ GetFile(h) \/ GetReply(h) \/ NoLocal(h) \/ BreakHN(h)
      BY <2>2, PutReplyStep, GetFileStep, GetReplyStep, NoLocalStep, BreakHNStep
    <2>3. CASE BreakHY(h) \/ RecvHdr(h) \/ TakeFile(h) \/ GiveFile(h) \/ NoRemote(h)
      BY <2>3, BreakHYStep, RecvHdrStep, TakeFileStep, GiveFileStep, NoRemoteStep
    <2>4. CASE ChkReply(h) \/ SendData(h) \/ ReadError(h) \/ SendEof(h) \/ EofReply(h)
      BY <2>4, ChkReplyStep, SendDataStep, ReadErrorStep, SendEofStep, EofReplyStep
    <2>5. CASE RecvData(h) \/ RecvEof(h) \/ CloseFails(h) \/ RenameFails(h)
      BY <2>5, RecvDataStep, RecvEofStep, CloseFailsStep, RenameFailsStep
    <2>6. CASE EndP(h) \/ Closing(h)
      BY <2>6, EndPStep, ClosingStep
    <2> QED
      BY <1>1, <2>1, <2>2, <2>3, <2>4, <2>5, <2>6 DEF Step
  <1>2. ASSUME NEW h \in Hosts, Call(h) \/ Crash(h) \/ CrashCopying(h)
        PROVE  XferInv'
    BY <1>2, CallStep, CrashStep, CrashCopyingStep
  <1>3. CASE vars' = vars
    <2>1. /\ p' = p /\ queue' = queue /\ src' = src /\ temp' = temp /\ place' = place
          /\ inb' = inb /\ up' = up /\ resend' = resend /\ later' = later /\ faults' = faults
          /\ delivered' = delivered /\ refused' = refused
      BY <1>3 DEF vars, disk, net, hist
    <2>2. TypeOK' = TypeOK /\ FilesOK' = FilesOK /\ Turns' = Turns
      <3>1. TypeOK' = TypeOK
        BY <2>1 DEF TypeOK
      <3>2. FilesOK' = FilesOK
        BY <2>1 DEF FilesOK, Temporary, Sources, NothingLost, Intact, Arrived
      <3>3. Turns' = Turns
        BY <2>1 DEF Turns, Busy, Leads, Asks, Answers, Answered, Sends, Ready, Asked, Same, Gets, First
      <3> QED
        BY <3>1, <3>2, <3>3
    <2>3. \A h \in Hosts : Safe(h)' = Safe(h)
      <3> SUFFICES ASSUME NEW h \in Hosts PROVE Safe(h)' = Safe(h)
        OBVIOUS
      <3>1. Self(h)' = Self(h)
        BY <2>1 DEF Self, Roles, Work, Holds, Behind, Kept, Done, Arrived
      <3>2. Closed(h)' = Closed(h) /\ Busy(h)' = Busy(h)
        BY <2>1 DEF Closed, Busy
      <3>3. Mail(h)' = Mail(h)
        BY <2>1 DEF Mail, Command, Kept, Arrived
      <3> QED
        BY <3>1, <3>2, <3>3 DEF Safe
    <2>4. (TypeOK /\ FilesOK /\ (\A h \in Hosts : Safe(h)) /\ Turns)'
      BY <2>2, <2>3, XferInvParts
    <2> QED
      BY <2>4 DEF XferInv, FilesOK, Safe, Self
  <1> QED
    BY <1>1, <1>2, <1>3, SubmitStep, DropStep DEF Next

\* A host that waits for a packet finds one it knows what to do with.
LEMMA WhatIsRead ==
  ASSUME XferInv, NEW h \in Hosts, p[h].state \in Reading, inb[h] # <<>>
  PROVE  Head(inb[h]).type \in Expects[p[h].state] \cup {"CLOSE"}
  <1> DEFINE w == inb[h]
  <1>1. Mail(h) /\ w \in Seq(Packet)
    BY Known DEF Busy, Gone, Reading
  <1>2. /\ Len(w) \in Nat /\ Len(w) >= 1 /\ Head(w) = w[1] /\ Words(w) \in Nat
        /\ w[Len(w)].type # "CLOSE" => Words(w) = Len(w)
        /\ w[Len(w)].type = "CLOSE" => Words(w) = Len(w) - 1
    BY <1>1, WordsFacts
  <1>3. CASE Words(w) = 0
    <2>1. Len(w) = 1 /\ w[Len(w)].type = "CLOSE"
      BY <1>2, <1>3
    <2> QED
      BY <1>2, <2>1
  <1>4. CASE Words(w) >= 1
    <2>1. p[h].state \in {"putreply", "getreply", "eofreply"} =>
             w[1].type \in Expects[p[h].state]
      BY <1>1, <1>2, <1>4 DEF Mail, Expects
    <2>2. p[h].state \in {"breakreply", "chkreply"} => w[1].type \in Expects[p[h].state]
      BY <1>1, <1>2, <1>4 DEF Mail, Expects
    <2>3. p[h].state = "recvhdr" => w[1].type \in Expects[p[h].state]
      BY <1>1, <1>2, <1>4 DEF Mail, Expects, Command
    <2>4. p[h].state = "recvdata" => w[1].type \in Expects[p[h].state]
      <3>1. 1 \in 1..Words(w)
        BY <1>2, <1>4
      <3>2. p[h].state = "recvdata" => w[1].type \in {"data", "eof"}
        BY <1>1, <3>1 DEF Mail, Stream
      <3> QED
        BY <3>2 DEF Expects
    <2> QED
      BY <1>2, <2>1, <2>2, <2>3, <2>4 DEF Reading
  <1> QED
    BY <1>2, <1>3, <1>4

\* The hosts do not wait for each other.
LEMMA NoneWaits ==
  ASSUME XferInv
  PROVE  ~ /\ \A h \in Hosts : p[h].state \in Reading /\ inb[h] = <<>>
           /\ up
  <1> SUFFICES ASSUME \A h \in Hosts : p[h].state \in Reading /\ inb[h] = <<>>, up
               PROVE  FALSE
    OBVIOUS
  <1>1. Turns /\ \A h \in Hosts : Other(h) \in Hosts
    BY Known, HostFacts
  <1>2. \A h \in Hosts : Busy(h)
    BY DEF Busy, Gone, Reading
  <1>3. PICK h \in Hosts : Leads(h) \/ Asks(h) \/ Answers(h) \/ Answered(h) \/ Sends(h)
    BY <1>1, <1>2 DEF Turns
  <1>4. inb[Other(h)] = <<>> /\ Len(inb[Other(h)]) = 0 /\ p[Other(h)].state \in Reading
    BY <1>1
  <1>5. ~Leads(h) /\ ~Answers(h)
    BY DEF Leads, Answers, Reading
  <1>6. ~Asks(h)
    BY <1>4 DEF Asks, Ready, Gets
  <1>7. ~Answered(h)
    BY <1>4 DEF Answered, Gets
  <1>8. ~Sends(h)
    BY <1>4 DEF Sends, Reading
  <1> QED
    BY <1>3, <1>5, <1>6, <1>7, <1>8

LEMMA XferInvSafe == XferInv => FilesSafe
  <1> SUFFICES ASSUME XferInv PROVE FilesSafe
    OBVIOUS
  <1>1. \A h \in Hosts : p[h].state = "request" => ~p[h].stream
    BY Known DEF Roles
  <1>2. InTurn
    BY <1>1, WhatIsRead, NoneWaits DEF InTurn
  <1> QED
    BY <1>2 DEF XferInv, FilesSafe

\* Whatever drops, crashes or fails: of every file a whole copy is somewhere, at
\* its sender with the work file that names it or in its place (or the sender was
\* told it is refused); what has a file's name is the whole file, or a part that a
\* crash left of a copy and that will be sent again; and each host is sent
\* what it waits for.  Two files may not share a temporary file.
THEOREM NothingIsLost ==
  ASSUME OwnTemps
  PROVE  Spec => []FilesSafe
  <1>1. Init => XferInv
    BY InitXferInv
  <1>2. XferInv /\ [Next]_vars => XferInv'
    BY XferInvKept
  <1>3. XferInv => FilesSafe
    BY XferInvSafe
  <1> QED
    BY <1>1, <1>2, <1>3, PTL DEF Spec

-----------------------------------------------------------------------------
(***************************************************************************)
(* Xfer implements Delivery: each step is one of its steps, or none.       *)
(***************************************************************************)
Pending == {f \in Files : JobOf(f) \in queue \cup later}
Unseen  == UNCHANGED <<queue, later, src, delivered, refused>>

\* A request of a master is in its queue.
LEMMA Requested ==
  ASSUME XferInv, NEW h \in Hosts, p[h].job # None, p[h].state \in Working
  PROVE  p[h].file \in Files /\ p[h].file \in Pending
  <1>1. Roles(h) /\ Work(h) /\ p[h] \in Process
    BY Known
  <1>2. p[h].master /\ p[h].job \in queue /\ p[h].line <= Len(Lines[p[h].job])
    BY <1>1 DEF Roles, Chosen
  <1>3. p[h].file \in Files /\ p[h].line >= 1 /\ p[h].file = Lines[p[h].job][p[h].line].file
    BY <1>1, <1>2 DEF Work
  <1>4. p[h].job \in Jobs /\ p[h].line \in Nat
    BY <1>1 DEF Process
  <1>5. DOMAIN Lines[p[h].job] = 1..Len(Lines[p[h].job]) /\ Len(Lines[p[h].job]) \in Nat
    BY <1>4, XferAssumption, LenProperties DEF XferConstants, JobsAssumption
  <1>6. p[h].line \in DOMAIN Lines[p[h].job]
    BY <1>2, <1>3, <1>4, <1>5
  <1>7. JobOf(p[h].file) = p[h].job
    BY <1>3, <1>4, <1>6, LineFacts
  <1> QED
    BY <1>2, <1>3, <1>7 DEF Pending

\* A work file goes when all its files have arrived or are refused.
LEMMA JobDoneForgets ==
  ASSUME XferInv, NEW h \in Hosts, JobDone(h)
  PROVE  Unseen \/ Promise!Next
  <1> DEFINE q == p[h]
             F == {f \in Pending : JobOf(f) \notin (queue' \cup later)}
  <1>1. /\ q.state = "request" /\ q.line = Len(Lines[q.job]) /\ Roles(h) /\ Behind(h)
        /\ q \in Process /\ UNCHANGED <<src, later, delivered, refused>>
        /\ queue' = IF q.errs THEN queue ELSE queue \ {q.job}
    BY Known DEF JobDone, hist
  <1>2. CASE q.errs
    BY <1>1, <1>2 DEF Unseen
  <1>3. CASE ~q.errs
    <2>1. q.job # None /\ q.job \in Jobs
      BY <1>1 DEF Roles, Chosen, Process
    <2>2. ASSUME NEW f \in F PROVE Done(f)
      <3>1. f \in Files /\ JobOf(f) = q.job
        BY <1>1, <1>3 DEF Pending
      <3>2. PICK n \in DOMAIN Lines[q.job] : Lines[q.job][n].file = f
        BY <3>1, FileFacts
      <3>3. n \in 1..Len(Lines[q.job]) /\ Len(Lines[q.job]) \in Nat
        BY <2>1, LineFacts
      <3>4. n < q.line \/ n = q.line
        BY <1>1, <3>3
      <3> QED
        BY <1>1, <1>3, <2>1, <3>2, <3>4 DEF Behind
    <2>3. \A f \in F : delivered[f] > 0 \/ f \in refused
      BY <2>2 DEF Done, Arrived
    <2>4. F \in SUBSET Pending /\ Pending' = Pending \ F
      BY <1>1, <1>3 DEF Pending
    <2>5. Promise!Forget(F)
      BY <1>1, <2>3, <2>4 DEF Promise!Forget, Pending
    <2> QED
      BY <2>4, <2>5 DEF Promise!Next, Pending
  <1> QED
    BY <1>2, <1>3

\* The sender is told that the file is refused.
LEMMA RefusalIsTold ==
  ASSUME XferInv, NEW h \in Hosts, PutReply(h) \/ GetReply(h)
  PROVE  Unseen \/ Promise!Next
  <1> DEFINE f == p[h].file
  <1>1. /\ UNCHANGED <<queue, later, src, delivered>>
        /\ refused' = refused \/ refused' = refused \cup {f}
        /\ p[h].state \in {"putreply", "getreply"}
    BY DEF PutReply, GetReply, disk, awaits
  <1>2. CASE refused' = refused
    BY <1>1, <1>2 DEF Unseen
  <1>3. CASE refused' = refused \cup {f}
    <2>1. Roles(h)
      BY Known
    <2>2. p[h].job # None
      BY <1>1, <2>1 DEF Roles, Chosen
    <2>3. f \in Files /\ f \in Pending
      BY <1>1, <2>2, Requested DEF Working
    <2>4. Promise!Refuse(f)
      BY <1>1, <1>3, <2>3 DEF Promise!Refuse, Pending
    <2> QED
      BY <2>3, <2>4 DEF Promise!Next
  <1> QED
    BY <1>1, <1>2, <1>3

\* A spool copy is deleted when its file has arrived.
LEMMA PurgeIsSafe ==
  ASSUME XferInv, NEW h \in Hosts, EofReply(h)
  PROVE  Unseen \/ Promise!Next
  <1> DEFINE q == p[h]
             f == q.file
             cy == Head(inb[h]).type = "CY"
  <1>1. /\ q.state = "eofreply" /\ inb[h] # <<>> /\ Head(inb[h]).type \in {"CY", "CN"} /\ pop(h)
        /\ src' = IF cy /\ q.master THEN src \ ({f} \cap Copied) ELSE src
        /\ UNCHANGED <<queue, later, delivered, refused>>
    BY DEF EofReply, awaits, hist
  <1>2. CASE src' = src
    BY <1>1, <1>2 DEF Unseen
  <1>3. CASE cy /\ f \in Copied /\ src' = src \ {f}
    <2>1. /\ Mail(h) /\ Work(h) /\ inb[h] \in Seq(Packet) /\ Closed(h)
      BY <1>1, Known DEF Busy, Gone
    <2>2. f \in Files /\ f \in src
      BY <1>1, <2>1 DEF Work, Working, Transfer
    <2>3. /\ Len(inb[h]) \in Nat /\ Len(inb[h]) >= 1 /\ Head(inb[h]) = inb[h][1]
          /\ Words(inb[h]) \in Nat /\ Len(inb[h]) <= Words(inb[h]) + 1
          /\ inb[h][Len(inb[h])].type # "CLOSE" => Words(inb[h]) = Len(inb[h])
      BY <1>1, <2>1, WordsFacts
    <2>4. Words(inb[h]) >= 1
      <3>1. CASE Len(inb[h]) = 1
        BY <1>1, <2>3, <3>1
      <3>2. CASE Len(inb[h]) > 1
        BY <2>3, <3>2
      <3> DEFINE k == Len(inb[h])
      <3>3. k \in Nat /\ k >= 1
        BY <2>3
      <3> HIDE DEF k
      <3>4. k = 1 \/ k > 1
        BY <3>3
      <3> QED
        BY <3>1, <3>2, <3>4 DEF k
    <2>5. Arrived(f)
      BY <1>1, <1>3, <2>1, <2>3, <2>4 DEF Mail
    <2>6. Promise!Purge(f)
      BY <1>1, <1>3, <2>2, <2>5 DEF Promise!Purge, Arrived
    <2> QED
      BY <2>2, <2>6 DEF Promise!Next
  <1> QED
    BY <1>1, <1>2, <1>3

\* A file arrives that its sender has and whose work file is there.
LEMMA ArrivalIsAsked ==
  ASSUME XferInv, NEW h \in Hosts, RecvEof(h)
  PROVE  Promise!Next
  <1> DEFINE f == p[h].file
  <1>1. /\ p[h].state = "recveof" /\ UNCHANGED <<queue, src, later, refused>>
        /\ delivered' = [delivered EXCEPT ![f] = @ + 1]
    BY DEF RecvEof
  <1>2. f \in Files /\ f \in src /\ f \in Pending
    BY <1>1, Received DEF Kept, Pending
  <1>3. Promise!Arrive(f)
    BY <1>1, <1>2 DEF Promise!Arrive, Pending
  <1> QED
    BY <1>2, <1>3 DEF Promise!Next

LEMMA PromiseKept ==
  ASSUME XferInv, [Next]_vars
  PROVE  [Promise!Next]_(Promise!vars)
  <1>1. Unseen => UNCHANGED Promise!vars
    BY DEF Unseen, Promise!vars, Pending
  <1>2. ASSUME NEW h \in Hosts, Step(h)
        PROVE  Unseen \/ Promise!Next
    <2>1. CASE ReadFails(h) \/ NextJob(h) \/ NewRequest(h) \/ PutFile(h)
      BY <2>1 DEF ReadFails, NextJob, NewRequest, PutFile, Unseen, disk, hist
    <2>2. CASE GetFile(h) \/ NoLocal(h) \/ BreakHN(h) \/ BreakHY(h) \/ RecvHdr(h)
      BY <2>2 DEF GetFile, NoLocal, BreakHN, BreakHY, RecvHdr, Unseen, disk, hist
    <2>3. CASE TakeFile(h) \/ GiveFile(h) \/ NoRemote(h) \/ ChkReply(h)
      BY <2>3 DEF TakeFile, GiveFile, NoRemote, ChkReply, Unseen, disk, hist
    <2>4. CASE SendData(h) \/ ReadError(h) \/ SendEof(h) \/ RecvData(h)
      BY <2>4 DEF SendData, ReadError, SendEof, RecvData, Unseen, disk, hist
    <2>5. CASE CloseFails(h) \/ RenameFails(h) \/ EndP(h) \/ Closing(h)
      BY <2>5 DEF CloseFails, RenameFails, EndP, Closing, Unseen, disk, hist
    <2>6. CASE JobDone(h) \/ PutReply(h) \/ GetReply(h) \/ EofReply(h) \/ RecvEof(h)
      BY SMTT(40), <2>6, JobDoneForgets, RefusalIsTold, PurgeIsSafe, ArrivalIsAsked
    <2> QED
      BY <1>2, <2>1, <2>2, <2>3, <2>4, <2>5, <2>6 DEF Step
  <1>3. ASSUME NEW h \in Hosts, Call(h) \/ Crash(h) \/ CrashCopying(h)
        PROVE  Unseen
    BY <1>3 DEF Call, Crash, CrashCopying, Unseen, disk, hist
  <1>4. Drop => Unseen
    BY DEF Drop, Unseen, disk
  <1>5. ASSUME NEW j \in Jobs, Submit(j)
        PROVE  UNCHANGED Promise!vars
    BY <1>5 DEF Submit, Promise!vars
  <1>6. vars' = vars => Unseen
    BY DEF vars, disk, hist, Unseen
  <1> QED
    BY <1>1, <1>2, <1>3, <1>4, <1>5, <1>6 DEF Next

\* Xfer keeps Delivery's promise: a file leaves the hands of its sender only when
\* it has arrived, and a work file is deleted only when each of its files has
\* arrived or its sender was told that it is refused.
THEOREM PromiseIsKept ==
  ASSUME OwnTemps
  PROVE  Spec => Delivers
  <1>1. Init => XferInv
    BY InitXferInv
  <1>2. XferInv /\ [Next]_vars => XferInv'
    BY XferInvKept
  <1>3. Init => Promise!Init
    BY FileFacts, Constants DEF Init, Promise!Init
  <1>4. XferInv /\ [Next]_vars => [Promise!Next]_(Promise!vars)
    BY PromiseKept
  <1> QED
    BY <1>1, <1>2, <1>3, <1>4, PTL DEF Spec, Delivers, Promise!Spec

-----------------------------------------------------------------------------
(***************************************************************************)
(* No idle turns.                                                          *)
(***************************************************************************)
On == Chosen \cup Transfer \cup {"nextjob"}

\* A scan deletes the jobs it comes to but those that have a file that cannot be
\* read.  So what is left of the jobs a scan began with is still to be run by it,
\* or stays however often it is tried.
HasLine(q) == q.master /\ q.state \in On
OfStuck(q) == q.errs => q.job = None \/ Stuck(q.job)
Runs(q, j) == HasLine(q) /\ (~q.scan_not_needed \/ j \in q.todo \/ j = q.job)
Scanned(q, j) == j \in q.tried => Stuck(j) \/ Runs(q, j)
Idle(h) ==
    /\ p[h].tried \cap later = {}
    /\ Busy(h) => OfStuck(p[h]) /\ \A j \in Mine(h) : Scanned(p[h], j)
IdleInv == queue \cap later = {} /\ \A h \in Hosts : Idle(h)

\* A step of h, the memory of which is s then.
LEMMA IdleStays ==
  ASSUME TypeOK, IdleInv, NEW h \in Hosts, NEW s, become(h, s),
         queue' \subseteq queue, later' = later, s.tried \cap later = {},
         s.state \notin Gone => OfStuck(s) /\ \A j \in Mine(h)' : Scanned(s, j)
  PROVE  IdleInv'
  <1>1. p'[h] = s /\ p'[Other(h)] = p[Other(h)]
    BY HostFacts DEF TypeOK, become
  <1>2. \A x \in Hosts : Mine(x)' \subseteq Mine(x)
    BY DEF Mine
  <1>3. Idle(Other(h))'
    <2>1. Idle(Other(h)) /\ Mine(Other(h))' \subseteq Mine(Other(h))
      BY <1>2, HostFacts DEF IdleInv
    <2> QED
      BY <1>1, <2>1 DEF Idle, Busy, OfStuck, Scanned, Runs, HasLine
  <1>4. Idle(h)'
    BY <1>1 DEF Idle, Busy, OfStuck, Scanned, Runs, HasLine
  <1>5. queue' \cap later' = {}
    BY DEF IdleInv
  <1> QED
    BY <1>3, <1>4, <1>5, HostFacts DEF IdleInv

\* s is q, in a session, but for what is not read here: Mild.  Or it has left the
\* session, or gone to another state without giving the line away: Calm.
Parts == {"state", "master", "job", "errs", "todo", "scan_not_needed", "tried"}
Like(s, q) == /\ Parts \subseteq DOMAIN s
              /\ s.job = q.job /\ s.errs = q.errs /\ s.todo = q.todo
              /\ s.scan_not_needed = q.scan_not_needed
              /\ s.tried \in {q.tried, {}}
Mild(s, q) == /\ Like(s, q) /\ s.state = q.state /\ s.master = q.master
              /\ q.state \notin Gone
Calm(s, q) == /\ Parts \subseteq DOMAIN s /\ s.tried \in {q.tried, {}}
              /\ \/ s.state \in Gone
                 \/ Like(s, q) /\ (HasLine(q) => HasLine(s)) /\ q.state \notin Gone

\* The operators that end a handler leave it calm.
LEMMA CalmEnds ==
  ASSUME NEW s, NEW q, Mild(s, q)
  PROVE  /\ Calm(s, q) /\ Calm(Lost(s), q) /\ Calm(Abort(s), q) /\ Calm(FileDone(s), q)
         /\ q.state \notin On => Calm(Slave(s), q)
         /\ \A f, n : Calm(StartSending(s, f, n), q)
  <1>1. Calm(Lost(s), q)
    BY DEF Mild, Like, Calm, Lost, Parts, Gone
  <1>2. Calm(Abort(s), q)
    BY DEF Mild, Like, Calm, Abort, Parts, Gone
  <1>3. Calm(FileDone(s), q)
    BY DEF Mild, Like, Calm, FileDone, Parts, HasLine, On, Chosen
  <1>4. q.state \notin On => Calm(Slave(s), q)
    BY DEF Mild, Like, Calm, Slave, Parts, HasLine
  <1>5. ASSUME NEW f, NEW n PROVE Calm(StartSending(s, f, n), q)
    BY DEF Mild, Like, Calm, StartSending, Parts, HasLine, On, Transfer
  <1>6. Calm(s, q)
    BY DEF Mild, Like, Calm, HasLine
  <1> QED
    BY <1>1, <1>2, <1>3, <1>4, <1>5, <1>6

\* So does a change of what is not read here.
LEMMA CalmMoves ==
  ASSUME NEW s, NEW q, Mild(s, q), NEW new, new \in On \cup Gone \/ q.state \notin On
  PROVE  /\ Calm([s EXCEPT !.state = new], q)
         /\ \A b : Calm([s EXCEPT !.state = new, !.stream = b], q)
         /\ \A b : Calm([s EXCEPT !.state = new, !.spool = b], q)
         /\ \A b : Calm([s EXCEPT !.state = new, !.hstatus = b], q)
         /\ \A b, c : Calm([s EXCEPT !.state = new, !.tmp = b, !.spool = c], q)
         /\ \A b, c, d : Calm([s EXCEPT !.state = new, !.line = b, !.file = c, !.pos = d], q)
         /\ \A b, c : Calm([s EXCEPT !.state = new, !.file = b, !.pos = c, !.tried = {}], q)
  BY DEF Mild, Like, Calm, Parts, HasLine

\* A step of h that leaves it calm.
LEMMA IdleGoesOn ==
  ASSUME TypeOK, IdleInv, NEW h \in Hosts, NEW s, become(h, s), Calm(s, p[h]),
         queue' = queue, later' = later
  PROVE  IdleInv'
  <1> DEFINE q == p[h]
  <1>1. Idle(h) /\ Mine(h)' = Mine(h)
    BY DEF IdleInv, Mine
  <1>2. s.tried \cap later = {}
    BY <1>1 DEF Idle, Calm
  <1>3. CASE s.state \in Gone
    BY <1>2, <1>3, IdleStays
  <1>4. CASE s.state \notin Gone
    <2>1. /\ Like(s, q) /\ (HasLine(q) => HasLine(s))
          /\ OfStuck(q) /\ \A j \in Mine(h) : Scanned(q, j)
      BY <1>1, <1>4 DEF Calm, Idle, Busy
    <2>2. OfStuck(s)
      BY <2>1 DEF Like, OfStuck
    <2>3. ASSUME NEW j \in Mine(h) PROVE Scanned(s, j)
      BY <2>1, <2>3 DEF Like, Scanned, Runs
    <2> QED
      BY <1>1, <1>2, <2>2, <2>3, IdleStays
  <1> QED
    BY <1>3, <1>4

\* What a step does to the queues.
LEMMA QueueFrame ==
  ASSUME NEW h \in Hosts, Step(h)
  PROVE  later' = later /\ (JobDone(h) \/ queue' = queue)
  <1> DEFINE Goal == later' = later /\ (JobDone(h) \/ queue' = queue)
  <1>1. CASE ReadFails(h) \/ NextJob(h) \/ NewRequest(h) \/ PutFile(h) \/ GetFile(h) \/ NoLocal(h)
    BY <1>1 DEF ReadFails, NextJob, NewRequest, PutFile, GetFile, NoLocal, disk, hist
  <1>2. CASE JobDone(h) \/ PutReply(h) \/ BreakHN(h) \/ BreakHY(h) \/ RecvHdr(h) \/ ChkReply(h)
    BY <1>2 DEF JobDone, PutReply, BreakHN, BreakHY, RecvHdr, ChkReply, disk, hist
  <1>3. CASE GetReply(h) \/ TakeFile(h) \/ RecvData(h) \/ EofReply(h)
    BY <1>3 DEF GetReply, TakeFile, RecvData, EofReply, hist
  <1>4. CASE GiveFile(h) \/ NoRemote(h) \/ SendData(h) \/ SendEof(h) \/ RecvEof(h)
    BY <1>4 DEF GiveFile, NoRemote, SendData, SendEof, RecvEof, disk, hist
  <1>5. CASE ReadError(h) \/ CloseFails(h) \/ RenameFails(h)
    BY <1>5 DEF ReadError, CloseFails, RenameFails, disk
  <1>6. CASE EndP(h) \/ Closing(h)
    BY <1>6 DEF EndP, Closing, disk, hist
  <1> QED
    BY <1>1, <1>2, <1>3, <1>4, <1>5, <1>6 DEF Step

\* A host that has left its session goes on only to say so and to end it.
LEMMA GoneSteps ==
  ASSUME NEW h \in Hosts, Step(h), ~EndP(h), ~Closing(h)
  PROVE  p[h].state \notin Gone
  <1>1. ASSUME \/ ReadFails(h) \/ NextJob(h) \/ JobDone(h) \/ NewRequest(h) \/ PutFile(h)
               \/ PutReply(h) \/ GetFile(h) \/ GetReply(h) \/ NoLocal(h) \/ BreakHN(h)
               \/ BreakHY(h)
        PROVE  p[h].state \notin Gone
    BY <1>1 DEF ReadFails, NextJob, JobDone, NewRequest, PutFile, PutReply, GetFile, GetReply,
       NoLocal, BreakHN, BreakHY, awaits, Reading, Gone
  <1>2. ASSUME \/ RecvHdr(h) \/ TakeFile(h) \/ GiveFile(h) \/ NoRemote(h) \/ ChkReply(h)
               \/ SendData(h) \/ ReadError(h) \/ SendEof(h) \/ EofReply(h) \/ RecvData(h)
               \/ RecvEof(h) \/ CloseFails(h) \/ RenameFails(h)
        PROVE  p[h].state \notin Gone
    BY <1>2 DEF RecvHdr, TakeFile, GiveFile, NoRemote, ChkReply, SendData, ReadError, CannotOpen,
       SendEof, EofReply, RecvData, RecvEof, CloseFails, RenameFails, awaits, Gone
  <1> QED
    BY <1>1, <1>2 DEF Step

\* Most steps do: all but those of the scans, and ssfile when it finds that a file
\* cannot be read.
LEMMA CalmStep ==
  ASSUME TypeOK, NEW h \in Hosts, Step(h), ~NextJob(h), ~JobDone(h), ~NoRemote(h),
         ~PutFile(h)
  PROVE  p' = p \/ \E s : Calm(s, p[h]) /\ become(h, s)
  <1> DEFINE q == p[h]
             Goal == p' = p \/ \E s : Calm(s, q) /\ become(h, s)
  <1>a. q \in Process
    BY DEF TypeOK
  <1>b. Parts \subseteq DOMAIN q
    BY <1>a DEF Process, Parts
  <1>c. CASE EndP(h)
    <2> DEFINE s(c) == [q EXCEPT !.state = "closing", !.hstatus = c]
    <2>1. \A c : Calm(s(c), q)
      BY <1>b DEF Calm, Parts, Gone
    <2>2. Calm(Lost(q), q)
      BY <1>b DEF Calm, Parts, Gone, Lost
    <2>3. become(h, Lost(q)) \/ \E c : become(h, s(c))
      BY <1>c DEF EndP
    <2> QED
      BY <2>1, <2>2, <2>3
  <1>d. CASE Closing(h)
    <2> DEFINE s == [q EXCEPT !.state = "over", !.spool = FALSE]
    <2>1. Calm(s, q) /\ Calm(Lost(q), q)
      BY <1>b DEF Calm, Parts, Gone, Lost
    <2>2. become(h, Lost(q)) \/ become(h, s)
      BY <1>d DEF Closing
    <2> QED
      BY <2>1, <2>2
  <1> SUFFICES ASSUME ~EndP(h), ~Closing(h)
               PROVE  Goal
    BY <1>c, <1>d
  <1>1. Mild(q, q)
    BY <1>b, GoneSteps DEF Mild, Like
  <1>t. /\ {"getreply", "recvdata", "putfile", "getfile", "eofreply", "recveof"} \subseteq On
        /\ "endp" \in Gone
        /\ \A st \in {"nolocal", "breakreply", "recvhdr", "takefile", "givefile", "chkreply"} :
              st \notin On
    BY DEF On, Chosen, Transfer, Gone
  <1> HIDE DEF q
  <1>2. ASSUME NEW s, Mild(s, q)
        PROVE  /\ become(h, Lost(s)) => Goal
               /\ become(h, Abort(s)) => Goal
               /\ become(h, FileDone(s)) => Goal
               /\ q.state \notin On /\ become(h, Slave(s)) => Goal
               /\ \A f, n : become(h, StartSending(s, f, n)) => Goal
    BY <1>2, CalmEnds
  <1>3. ASSUME NEW s, Calm(s, q), NEW m, send(h, m, s) PROVE Goal
    <2>1. Calm(Lost(s), q)
      BY <1>3 DEF Calm, Lost, Parts, Gone
    <2>2. become(h, s) \/ become(h, Lost(s))
      BY SMTT(40), <1>3 DEF send
    <2> QED
      BY <1>3, <2>1, <2>2
  <1>5. CASE ReadFails(h) \/ ReadError(h)
    BY <1>1, <1>2, <1>5 DEF ReadFails, ReadError, q
  <1>7. CASE PutReply(h)
    <2>1. Mild([q EXCEPT !.stream = FALSE], q)
      BY <1>1 DEF Mild, Like, Parts
    <2> QED
      BY <1>1, <1>2, <1>7, <2>1 DEF PutReply, q
  <1>8. CASE GetFile(h)
    <2> DEFINE s(b) == [q EXCEPT !.state = "getreply", !.tmp = Tmp[q.file], !.spool = b]
    <2>1. \A b : Calm(s(b), q)
      BY <1>1, <1>t, CalmMoves
    <2>2. \E m, b : send(h, m, s(b))
      BY <1>8 DEF GetFile, q
    <2> QED
      BY <1>3, <2>1, <2>2
  <1>9. CASE GetReply(h)
    <2>1. Calm([q EXCEPT !.state = "recvdata", !.stream = TRUE], q)
      BY <1>1, <1>t, CalmMoves
    <2> QED
      BY <1>1, <1>2, <1>9, <2>1 DEF GetReply, q
  <1>10. CASE BreakHN(h)
    <2>1. Calm([q EXCEPT !.state = "endp"], q) /\ q.state \notin On
      BY <1>1, <1>t, <1>10, CalmMoves DEF BreakHN, awaits, q
    <2> QED
      BY <1>1, <1>2, <1>10, <2>1 DEF BreakHN, q
  <1>11. CASE BreakHY(h)
    <2> DEFINE s == [q EXCEPT !.state = "endp", !.hstatus = "called"]
    <2>1. Calm(s, q)
      BY <1>1, <1>t, CalmMoves
    <2>2. become(h, s) \/ become(h, Lost(s))
      BY <1>11 DEF BreakHY, q
    <2>3. Calm(Lost(s), q)
      BY <2>1 DEF Calm, Lost, Parts, Gone
    <2> QED
      BY <2>1, <2>2, <2>3
  <1>12. CASE RecvHdr(h)
    <2> DEFINE s(a, b) == [q EXCEPT !.state = a, !.file = b, !.pos = 0, !.tried = {}]
    <2>3. q.state \notin On
      BY <1>t, <1>12 DEF RecvHdr, awaits, q
    <2>1. /\ Calm([q EXCEPT !.state = "noremote"], q)
          /\ \A b : Calm(s("takefile", b), q) /\ Calm(s("givefile", b), q)
      BY Zenon, <1>1, <2>3, CalmMoves
    <2>2. \/ become(h, [q EXCEPT !.state = "noremote"])
          \/ \E b : become(h, s("takefile", b)) \/ become(h, s("givefile", b))
      BY <1>12 DEF RecvHdr, q
    <2> QED
      BY <2>1, <2>2
  <1>13. CASE NewRequest(h)
    <2> DEFINE s(a, b, c) == [q EXCEPT !.state = a, !.line = b, !.file = c, !.pos = 0]
    <2>1. \A b, c : Calm(s("putfile", b, c), q) /\ Calm(s("getfile", b, c), q)
      BY <1>1, <1>t, CalmMoves
    <2>2. \E b, c : become(h, s("putfile", b, c)) \/ become(h, s("getfile", b, c))
      BY <1>13 DEF NewRequest, q
    <2> QED
      BY <2>1, <2>2
  <1>14. CASE TakeFile(h)
    <2> DEFINE there(b) == [q EXCEPT !.spool = b, !.tmp = Tmp[q.file]]
               s(b) == [there(b) EXCEPT !.state = "recvdata", !.stream = TRUE]
    <2>1. Mild([q EXCEPT !.spool = FALSE], q) /\ \A b : Mild(there(b), q)
      BY <1>1 DEF Mild, Like, Parts
    <2>2. Calm(FileDone([q EXCEPT !.spool = FALSE]), q) /\ \A b : Calm(FileDone(there(b)), q)
      BY <2>1, CalmEnds
    <2>3. \A b : Calm(s(b), q)
      BY <1>1, <1>t DEF Mild, Like, Calm, Parts, HasLine
    <2>4. \E m, b : \/ send(h, m, FileDone([q EXCEPT !.spool = FALSE]))
                    \/ send(h, m, FileDone(there(b))) \/ send(h, m, s(b))
      BY <1>14 DEF TakeFile, q
    <2> QED
      BY <1>3, <2>2, <2>3, <2>4
  <1>15. CASE GiveFile(h) \/ SendData(h)
    <2>1. Calm(FileDone(q), q) /\ \A f, n : Calm(StartSending(q, f, n), q)
      BY <1>1, CalmEnds
    <2>2. \E m, n : send(h, m, FileDone(q)) \/ send(h, m, StartSending(q, q.file, n))
      BY <1>15 DEF GiveFile, SendData, q
    <2> QED
      BY <1>3, <2>1, <2>2
  <1>16. CASE ChkReply(h)
    <2>1. Calm([q EXCEPT !.state = "endp"], q)
      BY <1>1, <1>t, CalmMoves
    <2> QED
      BY <1>16, <2>1 DEF ChkReply, q
  <1>17. CASE SendEof(h)
    <2>1. Calm([q EXCEPT !.state = "eofreply", !.stream = FALSE], q)
      BY <1>1, <1>t, CalmMoves
    <2> QED
      BY <1>1, <1>2, <1>17, <2>1 DEF SendEof, q
  <1>18. CASE EofReply(h)
    BY <1>1, <1>2, <1>18 DEF EofReply, q
  <1>19. CASE RecvData(h)
    <2>1. Calm([q EXCEPT !.state = "recveof"], q)
      BY <1>1, <1>t, CalmMoves
    <2> QED
      BY <1>1, <1>2, <1>19, <2>1 DEF RecvData, q
  <1>20. CASE RecvEof(h)
    <2>1. Mild([q EXCEPT !.stream = FALSE, !.spool = FALSE], q)
      BY <1>1 DEF Mild, Like, Parts
    <2>2. Calm(FileDone([q EXCEPT !.stream = FALSE, !.spool = FALSE]), q)
      BY <2>1, CalmEnds
    <2> QED
      BY <1>3, <1>20, <2>2 DEF RecvEof, q
  <1>21. CASE CloseFails(h) \/ RenameFails(h)
    <2>1. Mild([q EXCEPT !.spool = FALSE], q)
      BY <1>1 DEF Mild, Like, Parts
    <2>2. Calm(Abort(q), q) /\ Calm(Abort([q EXCEPT !.spool = FALSE]), q)
      BY <1>1, <2>1, CalmEnds
    <2> QED
      BY <1>3, <1>21, <2>2 DEF CloseFails, RenameFails, q
  <1>24. CASE NoLocal(h)
    <2>1. Calm([q EXCEPT !.state = "breakreply"], q)
      BY <1>1, <1>t, <1>24, CalmMoves DEF NoLocal, q
    <2> QED
      BY <1>3, <1>24, <2>1 DEF NoLocal, q
  <1> QED
    BY <1>5, <1>7, <1>8, <1>9, <1>10, <1>11, <1>12, <1>13, <1>14, <1>15, <1>16, <1>17,
       <1>18, <1>19, <1>20, <1>21, <1>24 DEF Step

\* A step that leaves the queues and the machines alone.
LEMMA IdleSame ==
  ASSUME IdleInv, p' = p, queue' = queue, later' = later
  PROVE  IdleInv'
  BY DEF IdleInv, Idle, Mine, Busy, OfStuck, Scanned, Runs, HasLine

\* A scan that begins.
LEMMA ScanBegins ==
  ASSUME TypeOK, IdleInv, NEW h \in Hosts, NEW q, {"errs", "job"} \cup Parts \subseteq DOMAIN q,
         OfStuck(q), queue' = queue
  PROVE  LET s == Master(q, h) IN
         /\ s.state = "nextjob" /\ s.tried = Mine(h) /\ s.tried \cap later = {}
         /\ OfStuck(s) /\ \A j \in Mine(h)' : Scanned(s, j)
  <1> DEFINE s == Master(q, h)
  <1>1. /\ s.state = "nextjob" /\ s.tried = Mine(h) /\ s.todo = Mine(h) /\ s.master
        /\ s.errs = q.errs /\ s.job = q.job
    BY DEF Master, Parts
  <1>2. Mine(h)' = Mine(h) /\ Mine(h) \cap later = {}
    BY DEF Mine, IdleInv
  <1> HIDE DEF s
  <1>3. OfStuck(s)
    BY <1>1 DEF OfStuck
  <1>4. HasLine(s)
    BY <1>1 DEF HasLine, On
  <1>5. ASSUME NEW j \in Mine(h)' PROVE Scanned(s, j)
    BY <1>1, <1>2, <1>4, <1>5 DEF Scanned, Runs
  <1> QED
    BY <1>1, <1>2, <1>3, <1>5 DEF s

LEMMA NextJobIdle ==
  ASSUME XferInv, IdleInv, NEW h \in Hosts, NextJob(h)
  PROVE  IdleInv'
  <1> DEFINE q == p[h]
             found == q.todo \cap queue
             Goes(s) == /\ s.tried \cap later = {}
                        /\ OfStuck(s) /\ \A j \in Mine(h)' : Scanned(s, j)
  <1>1. /\ TypeOK /\ q \in Process /\ q.state = "nextjob" /\ q.job = None /\ q.master
        /\ queue' = queue /\ later' = later /\ Mine(h)' = Mine(h) /\ Mine(h) \subseteq queue
    BY Known DEF NextJob, disk, hist, Mine, Roles, Chosen, Transfer
  <1>2. /\ q.tried \cap later = {} /\ OfStuck(q)
        /\ \A j \in Mine(h) : Scanned(q, j)
    BY <1>1 DEF IdleInv, Idle, Busy, Gone
  <1>3. \A j \in Mine(h) : j # None
    BY <1>1, Constants DEF TypeOK
  <1>4. ASSUME NEW s, become(h, s), Goes(s)
        PROVE  IdleInv'
    BY <1>1, <1>4, IdleStays
  <1>5. ASSUME NEW j, become(h, [q EXCEPT !.state = "request", !.job = j, !.line = 0,
                                          !.errs = FALSE, !.todo = found \ {j}])
        PROVE  IdleInv'
    <2> DEFINE s == [q EXCEPT !.state = "request", !.job = j, !.line = 0,
                              !.errs = FALSE, !.todo = found \ {j}]
    <2>1. /\ ~s.errs /\ s.job = j /\ s.todo = found \ {j} /\ s.tried = q.tried /\ s.master
          /\ s.state = "request" /\ s.scan_not_needed = q.scan_not_needed
      BY <1>1 DEF Process
    <2> HIDE DEF s
    <2>2. OfStuck(s) /\ HasLine(s)
      BY <2>1 DEF OfStuck, HasLine, On, Chosen
    <2>3. ASSUME NEW k \in Mine(h) PROVE Scanned(s, k)
      BY <1>1, <1>2, <1>3, <2>1, <2>2 DEF Scanned, Runs
    <2> QED
      BY <1>1, <1>2, <1>4, <1>5, <2>1, <2>2, <2>3 DEF s
  <1>6. CASE become(h, Master(q, h))
    <2>1. {"errs", "job"} \cup Parts \subseteq DOMAIN q
      BY <1>1 DEF Process, Parts
    <2> QED
      BY <1>1, <1>2, <1>4, <1>6, <2>1, ScanBegins
  <1>7. CASE found = {} /\ q.scan_not_needed /\ become(h, [q EXCEPT !.state = "nolocal"])
    <2> DEFINE s == [q EXCEPT !.state = "nolocal"]
    <2>1. s.errs = q.errs /\ s.job = q.job /\ s.tried = q.tried
      BY <1>1 DEF Process
    <2> HIDE DEF s
    <2>2. OfStuck(s)
      BY <1>2, <2>1 DEF OfStuck
    <2>3. ASSUME NEW k \in Mine(h) PROVE Scanned(s, k)
      BY <1>1, <1>2, <1>3, <1>7, <2>1 DEF Scanned, Runs
    <2> QED
      BY <1>1, <1>2, <1>4, <1>7, <2>1, <2>2, <2>3 DEF s
  <1> QED
    BY <1>5, <1>6, <1>7 DEF NextJob

LEMMA JobDoneIdle ==
  ASSUME XferInv, IdleInv, NEW h \in Hosts, JobDone(h)
  PROVE  IdleInv'
  <1> DEFINE q == p[h]
             s(b) == [q EXCEPT !.state = "nextjob", !.job = None, !.file = None,
                               !.scan_not_needed = b]
  <1>1. /\ TypeOK /\ q \in Process /\ q.state = "request" /\ q.master
        /\ queue' = (IF q.errs THEN queue ELSE queue \ {q.job}) /\ later' = later
    BY Known DEF JobDone, hist, Roles, Chosen
  <1>2. /\ q.tried \cap later = {} /\ OfStuck(q)
        /\ \A j \in Mine(h) : Scanned(q, j)
    BY <1>1 DEF IdleInv, Idle, Busy, Gone
  <1>3. /\ Mine(h)' \subseteq Mine(h) /\ queue' \subseteq queue
        /\ q.errs \/ q.job \notin Mine(h)'
    BY <1>1 DEF Mine
  <1>4. PICK b : b = (q.scan_not_needed /\ q.errs) /\ become(h, s(b))
    BY DEF JobDone
  <1>5. /\ s(b).errs = q.errs /\ s(b).job = None /\ s(b).tried = q.tried /\ s(b).master
        /\ s(b).todo = q.todo /\ s(b).state = "nextjob" /\ s(b).scan_not_needed = b
    BY <1>1 DEF Process
  <1> HIDE DEF s
  <1>6. OfStuck(s(b)) /\ HasLine(s(b))
    BY <1>5 DEF OfStuck, HasLine, On
  <1>7. ASSUME NEW j \in Mine(h)' PROVE Scanned(s(b), j)
    <2>1. CASE q.errs
      <3>1. q.job # None => Stuck(q.job)
        BY <1>2, <2>1 DEF OfStuck
      <3>2. q.job \in Jobs
        BY <1>1, Known DEF Roles, Chosen, TypeOK
      <3>3. Scanned(q, j) /\ (q.scan_not_needed <=> b)
        BY <1>2, <1>3, <1>4, <2>1
      <3> QED
        BY <1>5, <1>6, <3>1, <3>2, <3>3, Constants DEF Scanned, Runs
    <2>2. CASE ~q.errs
      BY <1>4, <1>5, <1>6, <2>2 DEF Scanned, Runs
    <2> QED
      BY <2>1, <2>2
  <1> QED
    BY <1>1, <1>2, <1>3, <1>4, <1>5, <1>6, <1>7, IdleStays

LEMMA NoRemoteIdle ==
  ASSUME XferInv, IdleInv, NEW h \in Hosts, NoRemote(h)
  PROVE  IdleInv'
  <1> DEFINE q == p[h]
             r == [q EXCEPT !.state = "chkreply", !.hstatus = "called"]
             s == Master(q, h)
  <1>1. /\ TypeOK /\ q \in Process /\ q.state = "noremote"
        /\ queue' = queue /\ later' = later
    BY Known DEF NoRemote, disk, hist
  <1>2. OfStuck(q) /\ {"errs", "job"} \cup Parts \subseteq DOMAIN q
    BY <1>1 DEF IdleInv, Idle, Busy, Gone, Process, Parts
  <1>3. Mild(q, q) /\ q.state \notin On
    BY <1>1, <1>2 DEF Mild, Like, Gone, On, Chosen, Transfer
  <1>4. Calm(r, q) /\ Calm(Lost(r), q)
    <2>1. Calm(r, q)
      BY Zenon, <1>3, CalmMoves
    <2> QED
      BY <2>1 DEF Calm, Lost, Parts, Gone
  <1>5. become(h, r) \/ become(h, Lost(r)) \/ become(h, s) \/ become(h, Lost(s))
    BY DEF NoRemote, send
  <1>6. /\ s.state = "nextjob" /\ s.tried = Mine(h) /\ s.tried \cap later = {}
        /\ OfStuck(s) /\ \A j \in Mine(h)' : Scanned(s, j)
    BY <1>1, <1>2, ScanBegins
  <1>7. Lost(s).state = "over" /\ Lost(s).tried = s.tried
    BY <1>2 DEF Lost, Master, Parts
  <1> HIDE DEF r, s
  <1>8. CASE become(h, r) \/ become(h, Lost(r))
    BY <1>1, <1>4, <1>8, IdleGoesOn
  <1>9. CASE become(h, s)
    BY <1>1, <1>6, <1>9, IdleStays
  <1>10. CASE become(h, Lost(s))
    BY <1>1, <1>6, <1>7, <1>10, IdleStays DEF Gone
  <1> QED
    BY <1>5, <1>8, <1>9, <1>10

\* ssfile: only a job with a file that cannot be read gets errors.
LEMMA PutFileIdle ==
  ASSUME XferInv, IdleInv, NEW h \in Hosts, PutFile(h)
  PROVE  IdleInv'
  <1> DEFINE q == p[h]
             r == [q EXCEPT !.state = "putreply", !.stream = TRUE]
             e == [q EXCEPT !.errs = TRUE]
             s == FileDone(e)
  <1>1. /\ TypeOK /\ q \in Process /\ Roles(h) /\ Work(h) /\ q.state = "putfile"
        /\ queue' = queue /\ later' = later /\ Mine(h)' = Mine(h)
    BY Known DEF PutFile, disk, hist, Mine
  <1>2. /\ q.tried \cap later = {} /\ \A j \in Mine(h) : Scanned(q, j)
        /\ Parts \subseteq DOMAIN q
    BY <1>1 DEF IdleInv, Idle, Busy, Gone, Process, Parts
  <1>3. Mild(q, q) /\ "putreply" \in On
    BY <1>1, <1>2 DEF Mild, Like, Gone, On, Chosen
  <1>4. Calm(r, q) /\ Calm(Lost(r), q) /\ Calm(FileDone(q), q)
    <2>1. Calm(r, q) /\ Calm(FileDone(q), q)
      BY Zenon, <1>3, CalmMoves, CalmEnds
    <2> QED
      BY <2>1 DEF Calm, Lost, Parts, Gone
  <1>5. \/ become(h, r) \/ become(h, Lost(r)) \/ become(h, FileDone(q))
        \/ q.file \in Unreadable /\ become(h, s)
    BY DEF PutFile, send
  <1>6. CASE become(h, r) \/ become(h, Lost(r)) \/ become(h, FileDone(q))
    BY <1>1, <1>4, <1>6, IdleGoesOn
  <1>7. CASE q.file \in Unreadable /\ become(h, s)
    <2>1. /\ q.master /\ q.job \in queue /\ q.job \in Jobs /\ At[q.job] = h
          /\ q.line >= 1 /\ q.line <= Len(Lines[q.job]) /\ q.line \in Nat
          /\ q.file = Lines[q.job][q.line].file /\ Giver(q.file) = h
      BY <1>1 DEF Roles, Work, Chosen, Working, Giving, TypeOK, Process
    <2>2. q.line \in DOMAIN Lines[q.job]
      <3>1. DOMAIN Lines[q.job] = 1..Len(Lines[q.job]) /\ Len(Lines[q.job]) \in Nat
        BY <2>1, XferAssumption, LenProperties DEF XferConstants, JobsAssumption
      <3> QED
        BY <2>1, <3>1
    <2>3. Lines[q.job][q.line].type = "S"
      BY <2>1, <2>2, LineFacts, HostFacts
    <2>4. Lines[q.job][q.line] \in Requests(q.job)
      BY <2>2 DEF Requests, Range
    <2>5. Stuck(q.job)
      BY <1>7, <2>1, <2>3, <2>4 DEF Stuck
    <2>6. /\ s.job = q.job /\ s.todo = q.todo /\ s.tried = q.tried /\ s.master = q.master
          /\ s.scan_not_needed = q.scan_not_needed /\ s.state = "request"
      BY <1>2, <2>1 DEF FileDone, Parts
    <2> HIDE DEF s
    <2>7. OfStuck(s) /\ HasLine(s)
      BY <2>1, <2>5, <2>6 DEF OfStuck, HasLine, On, Chosen
    <2>8. ASSUME NEW j \in Mine(h) PROVE Scanned(s, j)
      BY <1>2, <2>6, <2>7 DEF Scanned, Runs
    <2> QED
      BY <1>1, <1>2, <1>7, <2>6, <2>7, <2>8, IdleStays
  <1> QED
    BY <1>5, <1>6, <1>7

LEMMA CallIdle ==
  ASSUME TypeOK, IdleInv, NEW h \in Hosts, Call(h)
  PROVE  IdleInv'
  <1> DEFINE begin(x, b) ==
               [(IF b THEN [Fresh EXCEPT !.spool = p[x].spool, !.tmp = p[x].tmp] ELSE Fresh)
                  EXCEPT !.hstatus = "inprogress"]
  <1>1. PICK same \in [Hosts -> BOOLEAN] :
           p' = [x \in Hosts |-> IF x = h THEN Master(begin(x, same[x]), h)
                                          ELSE Slave(begin(x, same[x]))]
    BY DEF Call
  <1>2. queue' = queue /\ later' = later
    BY DEF Call, disk, hist
  <1>3. \A x, b : /\ ~begin(x, b).errs /\ begin(x, b).tried = {}
                  /\ {"errs", "job"} \cup Parts \subseteq DOMAIN begin(x, b)
    BY DEF Fresh, Parts
  <1> HIDE DEF begin
  <1>4. ASSUME NEW x \in Hosts PROVE Idle(x)'
    <2> DEFINE s == begin(x, same[x])
    <2>1. /\ ~s.errs /\ s.tried = {} /\ {"errs", "job"} \cup Parts \subseteq DOMAIN s
      BY <1>3
    <2>2. p'[x] = IF x = h THEN Master(s, h) ELSE Slave(s)
      BY <1>1
    <2> HIDE DEF s
    <2>3. CASE x = h
      <3>1. OfStuck(s)
        BY <2>1 DEF OfStuck
      <3>2. LET m == Master(s, h) IN
            m.tried \cap later = {} /\ OfStuck(m) /\ \A j \in Mine(h)' : Scanned(m, j)
        BY <1>2, <2>1, <3>1, ScanBegins
      <3> QED
        BY <1>2, <2>2, <2>3, <3>2 DEF Idle, OfStuck, Scanned, Runs, HasLine
    <2>4. CASE x # h
      <3>1. ~Slave(s).errs /\ Slave(s).tried = {}
        BY <2>1 DEF Slave, Parts
      <3> QED
        BY <2>2, <2>4, <3>1 DEF Idle, OfStuck, Scanned
    <2> QED
      BY <2>3, <2>4
  <1> QED
    BY <1>2, <1>4 DEF IdleInv

LEMMA CrashIdle ==
  ASSUME TypeOK, IdleInv, NEW h \in Hosts, Crash(h) \/ CrashCopying(h)
  PROVE  IdleInv'
  <1>1. queue' = queue /\ later' = later /\ become(h, Fresh)
    BY DEF Crash, CrashCopying
  <1>2. Calm(Fresh, p[h])
    BY DEF Fresh, Calm, Parts, Gone
  <1> QED
    BY <1>1, <1>2, IdleGoesOn

\* A job that comes now is not one a scan began with.
LEMMA SubmitIdle ==
  ASSUME TypeOK, IdleInv, NEW j \in Jobs, Submit(j)
  PROVE  IdleInv'
  <1>1. At[j] \in Hosts
    BY Constants
  <1>2. PICK t : p' = [p EXCEPT ![At[j]].todo = t] /\ p[At[j]].todo \subseteq t
    <2> DEFINE q == p[At[j]]
               todo(b) == IF b /\ q.state # "over" THEN q.todo \cup {j} ELSE q.todo
    <2>1. PICK seen \in BOOLEAN :
             p' = [p EXCEPT ![At[j]].todo = IF seen /\ p[At[j]].state # "over"
                                            THEN @ \cup {j} ELSE @]
      BY DEF Submit
    <2>2. p' = [p EXCEPT ![At[j]].todo = todo(seen)]
      BY <1>1, <2>1 DEF TypeOK, Process
    <2>3. q.todo \subseteq todo(seen)
      OBVIOUS
    <2> QED
      BY <2>2, <2>3
  <1>3. j \in later /\ later' = later \ {j} /\ queue' = queue \cup {j}
    BY DEF Submit
  <1>4. ASSUME NEW h \in Hosts PROVE Idle(h)'
    <2>1. p[h] \in Process /\ Idle(h)
      BY DEF TypeOK, IdleInv
    <2>2. /\ p'[h].state = p[h].state /\ p'[h].master = p[h].master
          /\ p'[h].job = p[h].job /\ p'[h].errs = p[h].errs /\ p'[h].tried = p[h].tried
          /\ p'[h].scan_not_needed = p[h].scan_not_needed /\ p[h].todo \subseteq p'[h].todo
      BY <1>1, <1>2, <2>1 DEF TypeOK, Process
    <2>3. j \notin p[h].tried
      BY <1>3, <2>1 DEF Idle
    <2>4. Mine(h)' \subseteq Mine(h) \cup {j}
      BY <1>3 DEF Mine
    <2>5. OfStuck(p[h]) => OfStuck(p'[h])
      BY <2>2 DEF OfStuck
    <2>6. ASSUME NEW k \in Mine(h)', \A i \in Mine(h) : Scanned(p[h], i)
          PROVE  Scanned(p'[h], k)
      BY <2>2, <2>3, <2>4, <2>6 DEF Scanned, Runs, HasLine
    <2>7. p'[h].tried \cap later' = {}
      BY <1>3, <2>1, <2>2 DEF Idle
    <2>8. p'[h].state \notin Gone => OfStuck(p'[h]) /\ \A k \in Mine(h)' : Scanned(p'[h], k)
      BY <2>1, <2>2, <2>5, <2>6 DEF Idle, Busy
    <2> QED
      BY <2>7, <2>8 DEF Idle, Busy, OfStuck, Scanned, Runs, HasLine
  <1> QED
    BY <1>3, <1>4 DEF IdleInv

LEMMA IdleKept ==
  ASSUME XferInv, IdleInv, [Next]_vars
  PROVE  IdleInv'
  <1>1. ASSUME NEW h \in Hosts, Step(h)
        PROVE  IdleInv'
    <2>1. CASE NextJob(h) \/ JobDone(h) \/ NoRemote(h) \/ PutFile(h)
      BY <2>1, NextJobIdle, JobDoneIdle, NoRemoteIdle, PutFileIdle
    <2>2. CASE ~NextJob(h) /\ ~JobDone(h) /\ ~NoRemote(h) /\ ~PutFile(h)
      <3>1. p' = p \/ \E s : Calm(s, p[h]) /\ become(h, s)
        BY <1>1, <2>2, CalmStep, Known
      <3>2. queue' = queue /\ later' = later /\ TypeOK
        BY <1>1, <2>2, QueueFrame, Known
      <3> QED
        BY <3>1, <3>2, IdleSame, IdleGoesOn
    <2> QED
      BY <2>1, <2>2
  <1>2. ASSUME NEW h \in Hosts, Call(h) \/ Crash(h) \/ CrashCopying(h)
        PROVE  IdleInv'
    BY <1>2, CallIdle, CrashIdle, Known
  <1>3. ASSUME NEW j \in Jobs, Submit(j)
        PROVE  IdleInv'
    BY <1>3, SubmitIdle, Known, HostFacts
  <1>4. CASE Drop
    BY <1>4, IdleSame DEF Drop, disk
  <1>5. CASE vars' = vars
    BY <1>5, IdleSame DEF vars, disk, hist
  <1> QED
    BY <1>1, <1>2, <1>3, <1>4, <1>5 DEF Next

\* A host asked for work takes the line over only with a job in its queue, and
\* only with one it has not run since the last request, or that cannot be run.
LEMMA TakesOver ==
  ASSUME XferInv, IdleInv, [Next]_vars
  PROVE  NotIdle
  <1> SUFFICES ASSUME NEW h \in Hosts, p[h].state = "noremote", p'[h].state = "nextjob"
               PROVE  Mine(h) # {} /\ \A j \in Mine(h) : j \in p[h].tried => Stuck(j)
    BY DEF NotIdle
  <1>1. p \in [Hosts -> Process] /\ p[h] \in Process
    BY Known DEF TypeOK
  <1>2. p'[h] # p[h]
    OBVIOUS
  <1>3. ASSUME NEW x \in Hosts, NEW q, become(x, q)
        PROVE  x = h /\ q.state = "nextjob"
    BY <1>1, <1>2, <1>3 DEF become
  <1>4. ASSUME NEW j \in Mine(h), j \in p[h].tried
        PROVE  Stuck(j)
    <2>1. Scanned(p[h], j)
      BY DEF IdleInv, Idle, Busy, Gone
    <2>2. ~HasLine(p[h])
      BY DEF HasLine, On, Chosen, Transfer
    <2> QED
      BY <1>4, <2>1, <2>2 DEF Scanned, Runs
  <1>5. CASE NoRemote(h)
    <2>1. CASE Mine(h) = {}
      <3> DEFINE r == [p[h] EXCEPT !.state = "chkreply", !.hstatus = "called"]
      <3>1. become(h, r) \/ become(h, Lost(r))
        BY <1>5, <2>1 DEF NoRemote, send
      <3>2. r.state = "chkreply" /\ Lost(r).state = "over"
        BY <1>1 DEF Process, Lost
      <3> QED
        BY <1>3, <3>1, <3>2
    <2> QED
      BY <1>4, <2>1
  <1>6. ASSUME NEW x \in Hosts, Step(x), ~NoRemote(h)
        PROVE  FALSE
    <2>1. CASE x = h
      <3>1. ReadError(h) \/ RecvHdr(h) \/ ReadFails(h)
        <4>1. ASSUME \/ NextJob(h) \/ JobDone(h) \/ NewRequest(h) \/ PutFile(h)
                     \/ PutReply(h) \/ GetFile(h) \/ GetReply(h) \/ NoLocal(h) \/ BreakHN(h)
                     \/ BreakHY(h)
              PROVE  FALSE
          BY <4>1 DEF NextJob, JobDone, NewRequest, PutFile, PutReply, GetFile, GetReply,
             NoLocal, BreakHN, BreakHY, awaits
        <4>2. ASSUME \/ TakeFile(h) \/ GiveFile(h) \/ ChkReply(h) \/ SendData(h)
                     \/ SendEof(h) \/ EofReply(h) \/ RecvData(h) \/ RecvEof(h)
                     \/ CloseFails(h) \/ RenameFails(h) \/ EndP(h) \/ Closing(h)
              PROVE  FALSE
          BY <4>2 DEF TakeFile, GiveFile, ChkReply, SendData, SendEof, EofReply, RecvData,
             RecvEof, CloseFails, RenameFails, EndP, Closing, awaits
        <4> QED
          BY <1>6, <2>1, <4>1, <4>2 DEF Step
      <3>2. ~RecvHdr(h) /\ ~ReadFails(h)
        BY DEF RecvHdr, ReadFails, awaits, Reading
      <3>3. become(h, Abort(p[h])) /\ Abort(p[h]).state = "endp"
        BY <1>1, <3>1, <3>2 DEF ReadError, Abort, Process
      <3> QED
        BY <1>3, <3>3
    <2>2. CASE x # h
      <3>1. p' = p \/ \E q : become(x, q)
        BY Zenon, <1>6 DEF Step, ReadFails, NextJob, JobDone, NewRequest, PutFile, PutReply, GetFile,
           GetReply, NoLocal, BreakHN, BreakHY, RecvHdr, TakeFile, GiveFile, NoRemote, ChkReply,
           SendData, ReadError, SendEof, EofReply, RecvData, RecvEof, CloseFails, RenameFails,
           EndP, Closing, send
      <3> QED
        BY SMTT(40), <1>2, <1>3, <2>2, <3>1
    <2> QED
      BY <2>1, <2>2
  <1>7. ASSUME NEW x \in Hosts, Call(x)
        PROVE  FALSE
    BY <1>7 DEF Call
  <1>8. ASSUME NEW x \in Hosts, Crash(x) \/ CrashCopying(x)
        PROVE  FALSE
    <2>1. become(x, Fresh)
      BY <1>8 DEF Crash, CrashCopying
    <2> QED
      BY <1>3, <2>1 DEF Fresh
  <1>9. ASSUME NEW j \in Jobs, Submit(j)
        PROVE  FALSE
    <2>1. PICK t : p' = [p EXCEPT ![At[j]].todo = t]
      BY <1>9 DEF Submit
    <2>2. At[j] \in Hosts
      BY Constants
    <2>3. p'[h].state = p[h].state
      BY <1>1, <2>1, <2>2 DEF Process
    <2> QED
      BY <2>3
  <1>10. CASE Drop \/ vars' = vars
    BY <1>2, <1>10 DEF Drop, vars
  <1> QED
    BY <1>5, <1>6, <1>7, <1>8, <1>9, <1>10 DEF Next

\* schkdir does not send the hosts round in circles: a host asked for work that
\* was given nothing to do since its last scan began becomes the master again only
\* with work in its queue, and all of that has come since or has a file that cannot
\* be read.  (The comment of sbreak claims it of the first kind alone.)
THEOREM NoIdleTurns ==
  ASSUME OwnTemps
  PROVE  Spec => NoIdleRetry
  <1>1. Init => XferInv /\ IdleInv
    <2>1. Init => IdleInv
      BY DEF Init, IdleInv, Idle, Busy, Gone, Fresh
    <2> QED
      BY <2>1, InitXferInv
  <1>2. XferInv /\ IdleInv /\ [Next]_vars => (XferInv /\ IdleInv)'
    BY XferInvKept, IdleKept
  <1>3. XferInv /\ IdleInv /\ [Next]_vars => [NotIdle]_vars
    BY TakesOver
  <1> QED
    BY <1>1, <1>2, <1>3, PTL DEF Spec, NoIdleRetry

-----------------------------------------------------------------------------
(***************************************************************************)
(* Files come in the order of their work file.                             *)
(***************************************************************************)

\* Every file can be read and no disk fails; and if a host may crash, files that
\* another file follows in a work file are spooled, on the drive they came on,
\* so that RENAME does not copy them, and no crash comes between reof's unlink of
\* an earlier copy and RENAME.
Steady  == Unreadable = {} /\ "disk" \notin Faults
Orderly == /\ Steady /\ "unlink" \notin Faults
           /\ "crash" \in Faults =>
                SameDrive /\ \A j \in Jobs : \A m, n \in DOMAIN Lines[j] :
                                m < n => Lines[j][m].file \in Spooled

\* The files before f in its work file have arrived or are refused.
Ordered(f) ==
    /\ f \in Files
    /\ \A m, n \in DOMAIN Lines[JobOf(f)] :
          m < n /\ Lines[JobOf(f)][n].file = f => Done(Lines[JobOf(f)][m].file)
StillOrdered(f) ==
    /\ f \in Files
    /\ \A m, n \in DOMAIN Lines[JobOf(f)] :
          m < n /\ Lines[JobOf(f)][n].file = f => StillDone(Lines[JobOf(f)][m].file)

\* So it is with every file on its way from the command on.
Taking == {"takefile", "recvdata", "recveof"}
OrderInv ==
    /\ \A h \in Hosts : /\ ~p[h].errs
                        /\ p[h].state \in Taking => Ordered(p[h].file)
                        /\ \A i \in DOMAIN inb[h] :
                              inb[h][i].type = "S" => Ordered(inb[h][i].file)
    /\ \A x \in Files : place[x] # None => Ordered(x)

LEMMA OrderSafe == OrderInv => DataBeforeExec
  <1> SUFFICES ASSUME OrderInv, NEW j \in Jobs, NEW m \in DOMAIN Lines[j], NEW n \in DOMAIN Lines[j],
                      m < n, place[Lines[j][n].file] # None
               PROVE  Done(Lines[j][m].file)
    BY DEF DataBeforeExec, Done, Arrived
  <1>1. Lines[j][n].file \in Files /\ JobOf(Lines[j][n].file) = j
    BY LineFacts
  <1>2. Ordered(Lines[j][n].file)
    BY <1>1 DEF OrderInv
  <1> QED
    BY <1>1, <1>2 DEF Ordered

\* The master's own request.
LEMMA AskedInOrder ==
  ASSUME XferInv, OrderInv, NEW h \in Hosts,
         p[h].state \in {"putfile", "getfile", "getreply"}
  PROVE  Ordered(p[h].file)
  <1> DEFINE q == p[h]
  <1>1. /\ q.job # None /\ q.job \in Jobs /\ q.line \in Nat /\ q.line >= 1
        /\ q.line <= Len(Lines[q.job]) /\ q.file = Lines[q.job][q.line].file /\ ~q.errs
        /\ Behind(h)
    BY Known DEF Roles, Chosen, Work, Working, Fit, Process, OrderInv
  <1>2. Lines[q.job] \in Seq([type : {"S", "R"}, file : Files])
    BY <1>1, XferAssumption DEF XferConstants, JobsAssumption
  <1>3. q.line \in DOMAIN Lines[q.job] /\ DOMAIN Lines[q.job] = 1..Len(Lines[q.job])
    BY <1>1, <1>2, LenProperties
  <1>4. /\ JobOf(q.file) = q.job
        /\ \A n \in DOMAIN Lines[q.job] : Lines[q.job][n].file = q.file => n = q.line
        /\ q.file \in Files
    BY <1>1, <1>3, LineFacts
  <1> QED
    BY <1>1, <1>3, <1>4 DEF Ordered, Behind

\* A file that others follow and has arrived or is refused stays so.
LEMMA DoneStays ==
  ASSUME Orderly, OwnTemps, XferInv, [Next]_vars,
         NEW f \in Files, f \in Spooled \/ "crash" \notin Faults, Done(f)
  PROVE  StillDone(f)
  <1>1. ASSUME NEW h \in Hosts, RecvEof(h)
        PROVE  StillDone(f)
    <2>1. p'[Other(h)] = p[Other(h)]
      BY <1>1, Known, HostFacts DEF RecvEof, send, become, TypeOK
    <2> QED
      BY <1>1, <2>1, PlaceTaken DEF RecvEof
  <1>2. ASSUME NEW h \in Hosts, PutReply(h) \/ GetReply(h)
        PROVE  StillDone(f)
    BY <1>2 DEF PutReply, GetReply, disk, StillDone, StillArrived, Done, Arrived
  <1>3. ASSUME NEW h \in Hosts, CloseFails(h) \/ RenameFails(h) \/ CrashCopying(h)
        PROVE  StillDone(f)
    <2>1. CrashCopying(h)
      BY <1>3 DEF CloseFails, RenameFails, DiskFault, Orderly, Steady
    <2>2. p[h].file \in Files /\ TypeOK
      BY <2>1, Known DEF CrashCopying, Work, Working, Transfer
    <2>3. "crash" \in Faults /\ p[h].file \notin Spooled
      BY <2>1 DEF CrashCopying, Fault, Orderly
    <2>4. place'[f] = place[f]
      <3>1. f # p[h].file
        BY <2>3
      <3> QED
        BY <2>1, <2>2, <3>1 DEF CrashCopying, TypeOK
    <2>5. delivered' = delivered /\ refused' = refused
      BY <2>1 DEF CrashCopying
    <2> QED
      BY <2>4, <2>5 DEF StillDone, StillArrived, Done, Arrived
  <1>4. ASSUME place' = place /\ delivered' = delivered /\ refused' = refused
        PROVE  StillDone(f)
    BY <1>4 DEF StillDone, StillArrived, Done, Arrived
  <1>5. ASSUME NEW h \in Hosts, Step(h)
        PROVE  StillDone(f)
    <2>1. CASE ReadFails(h) \/ NextJob(h) \/ JobDone(h) \/ NewRequest(h) \/ PutFile(h) \/ GetFile(h)
      BY <1>4, <2>1 DEF ReadFails, NextJob, JobDone, NewRequest, PutFile, GetFile, disk, hist
    <2>2. CASE NoLocal(h) \/ BreakHN(h) \/ BreakHY(h) \/ RecvHdr(h) \/ TakeFile(h) \/ GiveFile(h)
      BY <1>4, <2>2 DEF NoLocal, BreakHN, BreakHY, RecvHdr, TakeFile, GiveFile, disk, hist
    <2>3. CASE NoRemote(h) \/ ChkReply(h) \/ SendData(h) \/ ReadError(h) \/ SendEof(h) \/ EofReply(h)
      BY <1>4, <2>3 DEF NoRemote, ChkReply, SendData, ReadError, SendEof, EofReply, disk, hist
    <2>4. CASE RecvData(h) \/ EndP(h) \/ Closing(h)
      BY <1>4, <2>4 DEF RecvData, EndP, Closing, disk, hist
    <2> QED
      BY <1>1, <1>2, <1>3, <1>5, <2>1, <2>2, <2>3, <2>4 DEF Step
  <1>6. ASSUME NEW h \in Hosts, Call(h) \/ Crash(h)
        PROVE  StillDone(f)
    BY <1>4, <1>6 DEF Call, Crash, disk, hist
  <1>7. ASSUME NEW j \in Jobs, Submit(j)
        PROVE  StillDone(f)
    BY <1>4, <1>7 DEF Submit
  <1>8. CASE Drop \/ vars' = vars
    BY <1>4, <1>8 DEF Drop, vars, disk, hist
  <1> QED
    BY <1>3, <1>5, <1>6, <1>7, <1>8 DEF Next

\* What a step has to do for OrderInv.
LEMMA OrderStays ==
  ASSUME Orderly, OwnTemps, XferInv, OrderInv, [Next]_vars,
         \A h \in Hosts : /\ ~p'[h].errs
                          /\ p'[h].state \in Taking => Ordered(p'[h].file)
                          /\ \A i \in DOMAIN inb'[h] :
                                inb'[h][i].type = "S" => Ordered(inb'[h][i].file),
         \A x \in Files : place'[x] # None => Ordered(x)
  PROVE  OrderInv'
  <1>1. ASSUME NEW f, Ordered(f)
        PROVE  StillOrdered(f)
    <2>1. f \in Files /\ JobOf(f) \in Jobs
      BY <1>1, FileFacts DEF Ordered
    <2>2. ASSUME NEW m \in DOMAIN Lines[JobOf(f)], NEW n \in DOMAIN Lines[JobOf(f)], m < n,
                 Done(Lines[JobOf(f)][m].file)
          PROVE  StillDone(Lines[JobOf(f)][m].file)
      <3> DEFINE g == Lines[JobOf(f)][m].file
      <3>1. g \in Files
        BY <2>1, LineFacts
      <3>2. g \in Spooled \/ "crash" \notin Faults
        BY <2>1, <2>2 DEF Orderly
      <3> QED
        BY <2>2, <3>1, <3>2, DoneStays
    <2> QED
      BY <1>1, <2>2 DEF Ordered, StillOrdered
  <1>2. ASSUME NEW h \in Hosts
        PROVE  /\ p'[h].state \in Taking => Ordered(p[h].file)'
               /\ \A i \in DOMAIN inb'[h] : inb'[h][i].type = "S" => Ordered(inb[h][i].file)'
    <2>1. p'[h].state \in Taking => StillOrdered(p'[h].file)
      BY <1>1
    <2>2. \A i \in DOMAIN inb'[h] : inb'[h][i].type = "S" => StillOrdered(inb'[h][i].file)
      BY <1>1
    <2> QED
      BY <2>1, <2>2 DEF Ordered, StillOrdered, Done, StillDone, Arrived, StillArrived
  <1>3. \A x \in Files : place'[x] # None => Ordered(x)'
    <2>1. \A x \in Files : place'[x] # None => StillOrdered(x)
      BY <1>1
    <2> QED
      BY <2>1 DEF Ordered, StillOrdered, Done, StillDone, Arrived, StillArrived
  <1> QED
    BY <1>2, <1>3 DEF OrderInv

\* Memory of a process without errors, and one that takes no file out of order.
Sane(s) == {"state", "errs", "file"} \subseteq DOMAIN s /\ ~s.errs
Tame(s) == Sane(s) /\ (s.state \in Taking => Ordered(s.file))

\* The operators that end a handler take no file.
LEMMA TameEnds ==
  ASSUME NEW s, Sane(s)
  PROVE  /\ Tame(Lost(s)) /\ Tame(Abort(s)) /\ Tame(FileDone(s)) /\ Tame(Slave(s))
         /\ \A h : Tame(Master(s, h))
         /\ \A f, n : Tame(StartSending(s, f, n))
  <1>1. Tame(Lost(s))
    BY DEF Sane, Tame, Lost, Taking
  <1>2. Tame(Abort(s))
    BY DEF Sane, Tame, Abort, Taking
  <1>3. Tame(FileDone(s))
    BY DEF Sane, Tame, FileDone, Taking
  <1>4. Tame(Slave(s))
    BY DEF Sane, Tame, Slave, Taking
  <1>5. ASSUME NEW h PROVE Tame(Master(s, h))
    BY DEF Sane, Tame, Master, Taking
  <1>6. ASSUME NEW f, NEW n PROVE Tame(StartSending(s, f, n))
    BY DEF Sane, Tame, StartSending, Taking
  <1> QED
    BY <1>1, <1>2, <1>3, <1>4, <1>5, <1>6

\* The commands on their way.
OrderedMail ==
    \A x \in Hosts : \A i \in DOMAIN inb'[x] :
       inb'[x][i].type = "S" => Ordered(inb'[x][i].file)

LEMMA MailPosted ==
  ASSUME TypeOK, OrderInv, NEW h \in Hosts, NEW m, post(h, m),
         m.type = "S" => Ordered(m.file)
  PROVE  OrderedMail
  <1>1. /\ inb \in [Hosts -> Seq(Packet)]
        /\ inb' = [inb EXCEPT ![Other(h)] = Append(@, m)] /\ Other(h) \in Hosts
    BY HostFacts DEF TypeOK, Packet, post
  <1> SUFFICES ASSUME NEW x \in Hosts, NEW i \in DOMAIN inb'[x], inb'[x][i].type = "S"
               PROVE  Ordered(inb'[x][i].file)
    BY DEF OrderedMail
  <1>2. CASE x # Other(h)
    <2>1. inb'[x] = inb[x]
      BY <1>1, <1>2
    <2> QED
      BY <2>1 DEF OrderInv
  <1>3. CASE x = Other(h)
    <2> DEFINE w == inb[x]
    <2>1. w \in Seq(Packet) /\ inb'[x] = Append(w, m)
      BY <1>1, <1>3
    <2>2. \A k \in DOMAIN w : w[k].type = "S" => Ordered(w[k].file)
      BY DEF OrderInv
    <2> HIDE DEF w
    <2>3. CASE i \in DOMAIN w
      <3>1. inb'[x][i] = w[i]
        BY <2>1, <2>3
      <3> QED
        BY <2>2, <2>3, <3>1
    <2>4. CASE i \notin DOMAIN w
      <3>1. inb'[x][i] = m
        BY <2>1, <2>4
      <3> QED
        BY <3>1
    <2> QED
      BY <2>3, <2>4
  <1> QED
    BY <1>2, <1>3

LEMMA MailSent ==
  ASSUME TypeOK, OrderInv, NEW h \in Hosts, NEW m, NEW s, send(h, m, s),
         m.type = "S" => Ordered(m.file)
  PROVE  OrderedMail
  <1>1. CASE post(h, m)
    BY <1>1, MailPosted
  <1>2. CASE inb' = inb
    BY <1>2 DEF OrderedMail, OrderInv
  <1> QED
    BY <1>1, <1>2 DEF send

LEMMA MailPopped ==
  ASSUME TypeOK, OrderInv, NEW h \in Hosts, inb[h] # <<>>,
         inb' = [inb EXCEPT ![h] = Tail(@)]
  PROVE  OrderedMail
  <1>1. inb \in [Hosts -> Seq(Packet)]
    BY DEF TypeOK, Packet
  <1> SUFFICES ASSUME NEW x \in Hosts, NEW i \in DOMAIN inb'[x], inb'[x][i].type = "S"
               PROVE  Ordered(inb'[x][i].file)
    BY DEF OrderedMail
  <1>2. CASE x # h
    <2>1. inb'[x] = inb[x]
      BY <1>1, <1>2
    <2> QED
      BY <2>1 DEF OrderInv
  <1>3. CASE x = h
    <2> DEFINE w == inb[x]
    <2>1. w \in Seq(Packet) /\ inb'[x] = Tail(w) /\ w # <<>>
      BY <1>1, <1>3
    <2>2. \A k \in DOMAIN w : w[k].type = "S" => Ordered(w[k].file)
      BY DEF OrderInv
    <2> HIDE DEF w
    <2>3. i + 1 \in DOMAIN w /\ inb'[x][i] = w[i + 1]
      BY <2>1
    <2> QED
      BY <2>2, <2>3
  <1> QED
    BY <1>2, <1>3

LEMMA MailCut ==
  ASSUME TypeOK, OrderInv, CutLine
  PROVE  OrderedMail
  <1> SUFFICES ASSUME NEW x \in Hosts, NEW i \in DOMAIN inb'[x], inb'[x][i].type = "S"
               PROVE  Ordered(inb'[x][i].file)
    BY DEF OrderedMail
  <1> DEFINE k == Len(inb'[x])
             n == Len(inb[x])
  <1>1. /\ DOMAIN inb'[x] = 1..k /\ DOMAIN inb[x] = 1..n /\ k \in Nat /\ n \in Nat /\ k <= n
        /\ \A e \in 1..k : inb'[x][e] = inb[x][e]
    BY CutFacts
  <1> HIDE DEF k, n
  <1>2. i \in DOMAIN inb[x] /\ inb'[x][i] = inb[x][i]
    BY <1>1
  <1> QED
    BY <1>2 DEF OrderInv

\* A process that makes a step stays tame.
LEMMA TameStep ==
  ASSUME Steady, XferInv, OrderInv, NEW h \in Hosts, Step(h)
  PROVE  p' = p \/ \E s : Tame(s) /\ become(h, s)
  <1> DEFINE q == p[h]
             Goal == p' = p \/ \E s : Tame(s) /\ become(h, s)
  <1>1. Sane(q) /\ (q.state \in Taking => Ordered(q.file))
    BY Known DEF OrderInv, Process, Sane
  <1> HIDE DEF q
  <1>2. ASSUME NEW s, Sane(s)
        PROVE  /\ become(h, Lost(s)) => Goal
               /\ become(h, Abort(s)) => Goal
               /\ become(h, FileDone(s)) => Goal
               /\ become(h, Slave(s)) => Goal
               /\ become(h, Master(s, h)) => Goal
               /\ \A f, n : become(h, StartSending(s, f, n)) => Goal
    BY <1>2, TameEnds
  <1>3. ASSUME NEW s, Tame(s), NEW m, send(h, m, s) PROVE Goal
    <2>1. Sane(s)
      BY <1>3 DEF Tame
    <2>2. become(h, s) \/ become(h, Lost(s))
      BY <1>3 DEF send
    <2> QED
      BY <1>2, <1>3, <2>1, <2>2
  <1>5. CASE ReadFails(h) \/ ReadError(h) \/ EofReply(h)
    BY <1>1, <1>2, <1>5 DEF ReadFails, ReadError, EofReply, q
  <1>6. CASE NextJob(h)
    <2> DEFINE s(j, t) == [q EXCEPT !.state = "request", !.job = j, !.line = 0,
                                    !.errs = FALSE, !.todo = t]
    <2>1. Tame([q EXCEPT !.state = "nolocal"]) /\ \A j, t : Tame(s(j, t))
      BY <1>1 DEF Sane, Tame, Taking
    <2>2. \/ \E j, t : become(h, s(j, t))
          \/ become(h, Master(q, h)) \/ become(h, [q EXCEPT !.state = "nolocal"])
      BY <1>6 DEF NextJob, q
    <2> QED
      BY <1>1, <1>2, <2>1, <2>2
  <1>7. CASE JobDone(h)
    <2> DEFINE s(b) == [q EXCEPT !.state = "nextjob", !.job = None, !.file = None,
                                 !.scan_not_needed = b]
    <2>1. \A b : Tame(s(b))
      BY <1>1 DEF Sane, Tame, Taking
    <2>2. \E b : become(h, s(b))
      BY <1>7 DEF JobDone, q
    <2> QED
      BY <2>1, <2>2
  <1>8. CASE NewRequest(h)
    <2> DEFINE s(a, b, c) == [q EXCEPT !.state = a, !.line = b, !.file = c, !.pos = 0]
    <2>1. \A b, c : Tame(s("putfile", b, c)) /\ Tame(s("getfile", b, c))
      BY <1>1 DEF Sane, Tame, Taking
    <2>2. \E b, c : become(h, s("putfile", b, c)) \/ become(h, s("getfile", b, c))
      BY <1>8 DEF NewRequest, q
    <2> QED
      BY <2>1, <2>2
  <1>9. CASE PutFile(h)
    <2>1. Tame([q EXCEPT !.state = "putreply", !.stream = TRUE])
      BY <1>1 DEF Sane, Tame, Taking
    <2> QED
      BY <1>1, <1>2, <1>3, <1>9, <2>1 DEF PutFile, Steady, q
  <1>10. CASE PutReply(h)
    <2>1. Sane([q EXCEPT !.stream = FALSE])
      BY <1>1 DEF Sane
    <2> QED
      BY <1>1, <1>2, <1>10, <2>1 DEF PutReply, q
  <1>11. CASE GetFile(h)
    <2> DEFINE s(b) == [q EXCEPT !.state = "getreply", !.tmp = Tmp[q.file], !.spool = b]
    <2>1. \A b : Tame(s(b))
      BY <1>1 DEF Sane, Tame, Taking
    <2>2. \E m, b : send(h, m, s(b))
      BY <1>11 DEF GetFile, q
    <2> QED
      BY <1>3, <2>1, <2>2
  <1>12. CASE GetReply(h)
    <2> DEFINE s == [q EXCEPT !.state = "recvdata", !.stream = TRUE]
    <2>1. Ordered(q.file)
      BY <1>12, AskedInOrder DEF GetReply, awaits, q
    <2>2. Tame(s)
      BY <1>1, <2>1 DEF Sane, Tame
    <2>3. become(h, FileDone(q)) \/ become(h, s)
      BY <1>12 DEF GetReply, DiskFault, Steady, q
    <2> QED
      BY <1>1, <1>2, <2>2, <2>3
  <1>13. CASE NoLocal(h)
    <2> DEFINE s == [q EXCEPT !.state = "breakreply"]
    <2>1. Tame(s)
      BY <1>1 DEF Sane, Tame, Taking
    <2>2. \E m : send(h, m, s)
      BY <1>13 DEF NoLocal, q
    <2> QED
      BY <1>3, <2>1, <2>2
  <1>14. CASE BreakHN(h)
    <2>1. Tame([q EXCEPT !.state = "endp"])
      BY <1>1 DEF Sane, Tame, Taking
    <2> QED
      BY <1>1, <1>2, <1>14, <2>1 DEF BreakHN, q
  <1>15. CASE BreakHY(h)
    <2> DEFINE s == [q EXCEPT !.state = "endp", !.hstatus = "called"]
    <2>1. Tame(s) /\ Sane(s)
      BY <1>1 DEF Sane, Tame, Taking
    <2>2. become(h, s) \/ become(h, Lost(s))
      BY <1>15 DEF BreakHY, q
    <2> QED
      BY <1>2, <2>1, <2>2
  <1>16. CASE RecvHdr(h)
    <2> DEFINE m == Head(inb[h])
               s(a) == [q EXCEPT !.state = a, !.file = m.file, !.pos = 0, !.tried = {}]
    <2>1. m.type = "S" => Ordered(m.file)
      <3>1. inb[h] # <<>> /\ inb[h] \in Seq(Packet)
        BY <1>16, Known DEF RecvHdr, awaits
      <3>2. 1 \in DOMAIN inb[h] /\ m = inb[h][1]
        BY <3>1
      <3> QED
        BY <3>2 DEF OrderInv
    <2> HIDE DEF m
    <2>2. /\ Tame([q EXCEPT !.state = "noremote"])
          /\ Tame(s("givefile"))
          /\ m.type = "S" => Tame(s("takefile"))
      BY <1>1, <2>1 DEF Sane, Tame, Taking
    <2>3. \/ become(h, [q EXCEPT !.state = "noremote"]) \/ become(h, s("givefile"))
          \/ m.type = "S" /\ become(h, s("takefile"))
      BY <1>16 DEF RecvHdr, q, m
    <2> QED
      BY <2>2, <2>3
  <1>17. CASE TakeFile(h)
    <2> DEFINE there(b) == [q EXCEPT !.spool = b, !.tmp = Tmp[q.file]]
               s(b) == [there(b) EXCEPT !.state = "recvdata", !.stream = TRUE]
    <2>1. Sane([q EXCEPT !.spool = FALSE])
      BY <1>1 DEF Sane
    <2>2. Tame(FileDone([q EXCEPT !.spool = FALSE]))
      BY <2>1, TameEnds
    <2>3. Ordered(q.file)
      BY <1>1, <1>17 DEF TakeFile, Taking, q
    <2>4. \A b : Tame(s(b))
      BY <1>1, <2>3 DEF Sane, Tame
    <2>5. \E m, b : send(h, m, FileDone([q EXCEPT !.spool = FALSE])) \/ send(h, m, s(b))
      BY <1>17 DEF TakeFile, DiskFault, Steady, q
    <2> QED
      BY <1>3, <2>2, <2>4, <2>5
  <1>18. CASE GiveFile(h) \/ SendData(h)
    <2>1. Tame(FileDone(q)) /\ \A f, n : Tame(StartSending(q, f, n))
      BY <1>1, TameEnds
    <2>2. \E m, n : send(h, m, FileDone(q)) \/ send(h, m, StartSending(q, q.file, n))
      BY <1>18 DEF GiveFile, SendData, q
    <2> QED
      BY <1>3, <2>1, <2>2
  <1>19. CASE NoRemote(h)
    <2> DEFINE s == [q EXCEPT !.state = "chkreply", !.hstatus = "called"]
    <2>1. Tame(s) /\ Tame(Master(q, h))
      BY <1>1, TameEnds DEF Sane, Tame, Taking
    <2>2. \E m : send(h, m, s) \/ send(h, m, Master(q, h))
      BY <1>19 DEF NoRemote, q
    <2> QED
      BY <1>3, <2>1, <2>2
  <1>20. CASE ChkReply(h)
    <2>1. Tame([q EXCEPT !.state = "endp"])
      BY <1>1 DEF Sane, Tame, Taking
    <2> QED
      BY <1>20, <2>1 DEF ChkReply, q
  <1>21. CASE SendEof(h)
    <2>1. Tame([q EXCEPT !.state = "eofreply", !.stream = FALSE])
      BY <1>1 DEF Sane, Tame, Taking
    <2> QED
      BY <1>1, <1>2, <1>21, <2>1 DEF SendEof, q
  <1>22. CASE RecvData(h)
    <2>1. Ordered(q.file)
      BY <1>1, <1>22 DEF RecvData, awaits, Taking, q
    <2>2. Tame([q EXCEPT !.state = "recveof"])
      BY <1>1, <2>1 DEF Sane, Tame
    <2> QED
      BY <1>22, <2>2 DEF RecvData, DiskFault, Steady, q
  <1>23. CASE RecvEof(h)
    <2>1. Sane([q EXCEPT !.stream = FALSE, !.spool = FALSE])
      BY <1>1 DEF Sane
    <2>2. Tame(FileDone([q EXCEPT !.stream = FALSE, !.spool = FALSE]))
      BY <2>1, TameEnds
    <2> QED
      BY <1>3, <1>23, <2>2 DEF RecvEof, q
  <1>24. CASE CloseFails(h) \/ RenameFails(h)
    BY <1>24 DEF CloseFails, RenameFails, DiskFault, Steady
  <1>25. CASE EndP(h)
    <2>1. \A c : Tame([q EXCEPT !.state = "closing", !.hstatus = c])
      BY <1>1 DEF Sane, Tame, Taking
    <2> QED
      BY <1>1, <1>2, <1>25, <2>1 DEF EndP, q
  <1>26. CASE Closing(h)
    <2>1. Tame([q EXCEPT !.state = "over", !.spool = FALSE])
      BY <1>1 DEF Sane, Tame, Taking
    <2> QED
      BY <1>1, <1>2, <1>26, <2>1 DEF Closing, q
  <1> QED
    BY <1>5, <1>6, <1>7, <1>8, <1>9, <1>10, <1>11, <1>12, <1>13, <1>14, <1>15, <1>16, <1>17,
       <1>18, <1>19, <1>20, <1>21, <1>22, <1>23, <1>24, <1>25, <1>26 DEF Step

\* Its commands are in order too.
LEMMA MailStep ==
  ASSUME Steady, XferInv, OrderInv, NEW h \in Hosts, Step(h)
  PROVE  OrderedMail
  <1>1. TypeOK
    BY Known
  <1>2. ASSUME inb' = inb PROVE OrderedMail
    BY <1>2 DEF OrderedMail, OrderInv
  <1>3. ASSUME NEW type, type # "S", NEW f, NEW n, NEW s, send(h, Msg(type, f, n), s)
        PROVE  OrderedMail
    BY <1>1, <1>3, MailSent DEF Msg
  <1>4. ASSUME NEW type, type # "S", NEW s, send(h, Word(type), s)
        PROVE  OrderedMail
    BY <1>3, <1>4 DEF Word
  <1>5. ASSUME NEW type, type # "S", post(h, Word(type))
        PROVE  OrderedMail
    BY <1>1, <1>5, MailPosted DEF Word, Msg
  <1>6. CASE ReadFails(h) \/ NextJob(h) \/ JobDone(h) \/ NewRequest(h) \/ ReadError(h) \/ Closing(h)
    BY <1>2, <1>6 DEF ReadFails, NextJob, JobDone, NewRequest, ReadError, Closing, net
  <1>7. CASE PutFile(h)
    <2>1. CASE inb' = inb
      BY <1>2, <2>1
    <2>2. ASSUME NEW s, send(h, Msg("S", p[h].file, 0), s)
          PROVE  OrderedMail
      <3>1. Ordered(p[h].file)
        BY <1>7, AskedInOrder DEF PutFile
      <3> QED
        BY <1>1, <2>2, <3>1, MailSent DEF Msg
    <2> QED
      BY <1>7, <2>1, <2>2 DEF PutFile, net
  <1>8. CASE PutReply(h) \/ GetReply(h) \/ BreakHN(h) \/ RecvHdr(h) \/ ChkReply(h)
             \/ EofReply(h) \/ RecvData(h)
    <2>1. inb[h] # <<>> /\ pop(h)
      BY <1>8 DEF PutReply, GetReply, BreakHN, RecvHdr, ChkReply, EofReply, RecvData, awaits
    <2> QED
      BY <1>1, <2>1, MailPopped DEF pop
  <1>9. CASE BreakHY(h)
    <2>1. inb[h] # <<>> /\ inb \in [Hosts -> Seq(Packet)] /\ Other(h) \in Hosts /\ Other(h) # h
      BY <1>1, <1>9, HostFacts DEF BreakHY, awaits, TypeOK, Packet
    <2>2. CASE inb' = [inb EXCEPT ![h] = Tail(inb[h])]
      BY <1>1, <2>1, <2>2, MailPopped
    <2>3. CASE inb' = [inb EXCEPT ![h] = Tail(inb[h]), ![Other(h)] = Append(@, Word("HY"))]
      <3> SUFFICES ASSUME NEW x \in Hosts, NEW i \in DOMAIN inb'[x], inb'[x][i].type = "S"
                   PROVE  Ordered(inb'[x][i].file)
        BY DEF OrderedMail
      <3> DEFINE w == inb[x]
      <3>1. w \in Seq(Packet) /\ \A k \in DOMAIN w : w[k].type = "S" => Ordered(w[k].file)
        BY <2>1 DEF OrderInv
      <3>2. CASE x = h
        <4>1. inb'[x] = Tail(w) /\ w # <<>>
          BY <2>1, <2>3, <3>2
        <4> HIDE DEF w
        <4>2. i + 1 \in DOMAIN w /\ inb'[x][i] = w[i + 1]
          BY <3>1, <4>1
        <4> QED
          BY <3>1, <4>2
      <3>3. CASE x = Other(h)
        <4>1. inb'[x] = Append(w, Word("HY"))
          BY <2>1, <2>3, <3>3
        <4> HIDE DEF w
        <4>2. CASE i \in DOMAIN w
          <5>1. inb'[x][i] = w[i]
            BY <3>1, <4>1, <4>2
          <5> QED
            BY <3>1, <4>2, <5>1
        <4>3. CASE i \notin DOMAIN w
          <5>1. inb'[x][i] = Word("HY")
            BY <3>1, <4>1, <4>3
          <5> QED
            BY <5>1 DEF Word, Msg
        <4> QED
          BY <4>2, <4>3
      <3> QED
        BY <3>2, <3>3, HostFacts
    <2> QED
      BY <1>9, <2>2, <2>3 DEF BreakHY
  <1>10. CASE GetFile(h) \/ SendData(h) \/ TakeFile(h)
    <2>1. PICK type \in {"R", "data", "SN", "SY"} :
             \E s, f, n : send(h, Msg(type, f, n), s) \/ send(h, Word(type), s)
      BY <1>10 DEF GetFile, SendData, TakeFile
    <2> QED
      BY <1>3, <1>4, <2>1
  <1>11. CASE NoLocal(h) \/ GiveFile(h) \/ NoRemote(h) \/ RecvEof(h) \/ CloseFails(h)
              \/ RenameFails(h)
    <2>1. PICK type \in {"H", "RN", "RY", "HY", "HN", "CY", "CN"} : \E s : send(h, Word(type), s)
      BY <1>11 DEF NoLocal, GiveFile, NoRemote, RecvEof, CloseFails, RenameFails
    <2> QED
      BY <1>4, <2>1
  <1>12. CASE SendEof(h) \/ EndP(h)
    <2>1. inb' = inb \/ post(h, Word("eof")) \/ post(h, Word("CLOSE"))
      BY <1>12 DEF SendEof, EndP
    <2> QED
      BY <1>2, <1>5, <2>1
  <1> QED
    BY <1>6, <1>7, <1>8, <1>9, <1>10, <1>11, <1>12 DEF Step

LEMMA OrderKept ==
  ASSUME Orderly, OwnTemps, XferInv, OrderInv, [Next]_vars
  PROVE  OrderInv'
  <1>1. p \in [Hosts -> Process] /\ TypeOK
    BY Known, HostFacts DEF TypeOK
  <1>2. ASSUME p' = p, inb' = inb, place' = place
        PROVE  OrderInv'
    BY <1>2, OrderStays DEF OrderInv
  <1>3. ASSUME NEW h \in Hosts, p' = p \/ \E s : Tame(s) /\ become(h, s)
        PROVE  \A x \in Hosts : ~p'[x].errs /\ (p'[x].state \in Taking => Ordered(p'[x].file))
    <2>1. ASSUME NEW s, Tame(s), become(h, s), NEW x \in Hosts
          PROVE  ~p'[x].errs /\ (p'[x].state \in Taking => Ordered(p'[x].file))
      <3>1. p'[x] = IF x = h THEN s ELSE p[x]
        BY <1>1, <2>1 DEF become
      <3> QED
        BY <2>1, <3>1 DEF Tame, Sane, OrderInv
    <2>2. CASE p' = p
      BY <2>2 DEF OrderInv
    <2> QED
      BY <1>3, <2>1, <2>2
  <1>4. ASSUME NEW h \in Hosts, Step(h)
        PROVE  OrderInv'
    <2>1. OrderedMail
      BY <1>4, MailStep DEF Orderly
    <2>2. \A x \in Hosts : ~p'[x].errs /\ (p'[x].state \in Taking => Ordered(p'[x].file))
      BY <1>3, <1>4, TameStep DEF Orderly
    <2>3. \A x \in Files : place'[x] # None => Ordered(x)
      <3>1. CASE RecvEof(h)
        <4>1. p[h].file \in Files /\ Ordered(p[h].file)
          BY <3>1, Known DEF RecvEof, OrderInv, Taking, Ordered
        <4>2. \A x \in Files : x # p[h].file => place'[x] = place[x]
          BY <1>1, <3>1 DEF RecvEof, TypeOK
        <4> QED
          BY <4>1, <4>2 DEF OrderInv
      <3>2. CASE RenameFails(h)
        BY <3>2 DEF RenameFails, DiskFault, Orderly, Steady
      <3>3. CASE ~RecvEof(h) /\ ~RenameFails(h)
        <4>1. place' = place
          BY <1>4, <3>3 DEF Step, ReadFails, NextJob, JobDone, NewRequest, PutFile, PutReply,
             GetFile, GetReply, NoLocal, BreakHN, BreakHY, RecvHdr, TakeFile, GiveFile, NoRemote,
             ChkReply, SendData, ReadError, SendEof, EofReply, RecvData, CloseFails, EndP, Closing,
             disk
        <4> QED
          BY <4>1 DEF OrderInv
      <3> QED
        BY <3>1, <3>2, <3>3
    <2> QED
      BY <2>1, <2>2, <2>3, OrderStays DEF OrderedMail
  <1>5. ASSUME NEW h \in Hosts, Call(h)
        PROVE  OrderInv'
    <2> DEFINE begin(x, b) ==
                 [(IF b THEN [Fresh EXCEPT !.spool = p[x].spool, !.tmp = p[x].tmp] ELSE Fresh)
                    EXCEPT !.hstatus = "inprogress"]
    <2>1. PICK same \in [Hosts -> BOOLEAN] :
             p' = [x \in Hosts |-> IF x = h THEN Master(begin(x, same[x]), h)
                                            ELSE Slave(begin(x, same[x]))]
      BY <1>5 DEF Call
    <2>2. place' = place /\ \A x \in Hosts : inb'[x] = <<>>
      BY <1>5 DEF Call, disk
    <2>3. \A x, b : Sane(begin(x, b))
      BY DEF Fresh, Sane
    <2> HIDE DEF begin
    <2>4. ASSUME NEW x \in Hosts
          PROVE  ~p'[x].errs /\ (p'[x].state \in Taking => Ordered(p'[x].file))
      <3>1. p'[x] = Master(begin(x, same[x]), h) \/ p'[x] = Slave(begin(x, same[x]))
        BY <2>1
      <3>2. Tame(Master(begin(x, same[x]), h)) /\ Tame(Slave(begin(x, same[x])))
        BY <2>3, TameEnds
      <3> QED
        BY <3>1, <3>2 DEF Tame, Sane
    <2> QED
      BY <2>2, <2>4, OrderStays DEF OrderInv
  <1>6. ASSUME NEW h \in Hosts, Crash(h) \/ CrashCopying(h)
        PROVE  OrderInv'
    <2>1. CASE CrashCopying(h)
      <3>1. p[h].file \in Files /\ Ordered(p[h].file) /\ become(h, Fresh) /\ CutLine
        BY <2>1 DEF CrashCopying, OrderInv, Taking, Ordered
      <3>2. \A x \in Files : x # p[h].file => place'[x] = place[x]
        BY <1>1, <2>1 DEF CrashCopying, TypeOK
      <3>3. \A x \in Files : place'[x] # None => Ordered(x)
        BY <3>1, <3>2 DEF OrderInv
      <3>4. OrderedMail /\ Tame(Fresh)
        BY <1>1, <3>1, MailCut DEF Fresh, Tame, Sane, Taking
      <3>5. \A x \in Hosts : ~p'[x].errs /\ (p'[x].state \in Taking => Ordered(p'[x].file))
        BY <1>3, <3>1, <3>4
      <3> QED
        BY <3>3, <3>4, <3>5, OrderStays DEF OrderedMail
    <2>2. CASE Crash(h)
      <3>1. Tame(Fresh) /\ become(h, Fresh) /\ place' = place /\ CutLine
        BY <2>2 DEF Fresh, Tame, Sane, Taking, Crash
      <3>2. OrderedMail
        BY <1>1, <3>1, MailCut
      <3>3. \A x \in Hosts : ~p'[x].errs /\ (p'[x].state \in Taking => Ordered(p'[x].file))
        BY <1>3, <3>1
      <3> QED
        BY <3>1, <3>2, <3>3, OrderStays DEF OrderedMail, OrderInv
    <2> QED
      BY <1>6, <2>1, <2>2
  <1>7. ASSUME NEW j \in Jobs, Submit(j)
        PROVE  OrderInv'
    <2>1. PICK t : p' = [p EXCEPT ![At[j]].todo = t]
      BY <1>7 DEF Submit
    <2>2. At[j] \in Hosts
      BY Constants
    <2>3. \A x \in Hosts : /\ p'[x].errs = p[x].errs /\ p'[x].state = p[x].state
                           /\ p'[x].file = p[x].file
      BY <1>1, <2>1, <2>2 DEF Process
    <2>4. inb' = inb /\ place' = place
      BY <1>7 DEF Submit, net
    <2> QED
      BY <2>3, <2>4, OrderStays DEF OrderInv
  <1>8. CASE Drop
    <2>1. p' = p /\ place' = place /\ CutLine
      BY <1>8 DEF Drop, disk
    <2>2. OrderedMail
      BY <1>1, <2>1, MailCut
    <2> QED
      BY <2>1, <2>2, OrderStays DEF OrderedMail, OrderInv
  <1>9. CASE vars' = vars
    BY <1>2, <1>9 DEF vars, disk, net
  <1> QED
    BY <1>4, <1>5, <1>6, <1>7, <1>8, <1>9 DEF Next

-----------------------------------------------------------------------------
(***************************************************************************)
(* Nothing twice without cause.                                            *)
(***************************************************************************)
Getting == {"getreply", "recvdata", "recveof"}

\* h is the slave, and has work to do or to hear of.
Served == {"recvhdr", "takefile", "givefile", "senddata", "sendeof", "eofreply",
           "recvdata", "recveof"}
Serving(h) == ~p[h].master /\ p[h].state \in Served

\* h has done f's line, or hears only that it is done.
Past(h, f) ==
    /\ p[h].job = JobOf(f)
    /\ \E n \in DOMAIN Lines[JobOf(f)] :
          /\ Lines[JobOf(f)][n].file = f
          /\ n < p[h].line \/ (n = p[h].line /\ p[h].state \in {"request", "eofreply"})
Passed(f) == up /\ \E h \in Hosts : Past(h, f) /\ Serving(Other(h))

\* h is alone in a session that nothing has cut: it was, or is, the master, and
\* nothing comes that it could act on.
Stranded == {"chkreply", "nextjob", "request", "putfile", "getfile", "nolocal", "putreply",
             "getreply", "breakreply"}
Alone(h) == p[h].state \in Stranded /\ (Words(inb[h]) = 0 \/ p[h].state = "chkreply")

\* A file may arrive once and once more for every fault.  One that has arrived so
\* often is out of its queue, or its line is done in this session, which nothing
\* has cut; one that is being received has an arrival left, whatever drops now.
Twice(f) == delivered[f] > MaxFaults - faults
TwiceInv ==
    /\ \A f \in Files : delivered[f] <= 1 + (MaxFaults - faults)
    /\ \A f \in Files : JobOf(f) \in queue \cup later /\ Twice(f) => Passed(f)
    /\ \A h \in Hosts : p[h].state \in Getting =>
          delivered[p[h].file] + (IF up THEN 0 ELSE 1) <= MaxFaults - faults
    /\ queue \cap later = {}
    /\ \A h \in Hosts : up /\ Busy(h) /\ ~Busy(Other(h)) => Alone(h)

\* The counters.
LEMMA Counters ==
  ASSUME TypeOK
  PROVE  /\ MaxFaults \in Nat /\ faults \in Nat /\ faults <= MaxFaults
         /\ MaxFaults - faults \in Nat
         /\ \A f \in Files : delivered[f] \in Nat
  BY Constants DEF TypeOK

\* While the line is up and the other host is in the session, h reads and sends
\* without fail.
LEMMA Connected ==
  ASSUME XferInv, NEW h \in Hosts, up, Busy(Other(h))
  PROVE  ~Left(h) /\ ~HasClosed(h)
  BY OpenLine DEF Left, Busy, Gone

\* A host that is not alone has the other one with it.
LEMMA NotAlone ==
  ASSUME XferInv, TwiceInv, NEW h \in Hosts, up, Busy(h), p[h].state \notin Stranded
  PROVE  Both /\ Busy(Other(h))
  BY TurnFacts DEF TwiceInv, Alone

\* The master's own request is not for a file that has arrived too often.
LEMMA AskedOnce ==
  ASSUME XferInv, TwiceInv, NEW h \in Hosts,
         p[h].state \in {"putfile", "getfile", "putreply", "getreply"}, p[h].job # None
  PROVE  delivered[p[h].file] <= MaxFaults - faults
  <1> DEFINE q == p[h]
             f == p[h].file
  <1>1. /\ q.job \in Jobs /\ q.job \in queue /\ At[q.job] = h /\ q.line \in Nat /\ q.line >= 1
        /\ q.line <= Len(Lines[q.job]) /\ q.file = Lines[q.job][q.line].file
    BY Known DEF Roles, Chosen, Work, Working, Fit, Process
  <1>2. Lines[q.job] \in Seq([type : {"S", "R"}, file : Files])
    BY <1>1, XferAssumption DEF XferConstants, JobsAssumption
  <1>3. q.line \in DOMAIN Lines[q.job]
    BY <1>1, <1>2, LenProperties
  <1>4. /\ JobOf(f) = q.job /\ f \in Files
        /\ \A n \in DOMAIN Lines[q.job] : Lines[q.job][n].file = f => n = q.line
    BY <1>1, <1>3, LineFacts
  <1>5. ASSUME NEW x \in Hosts, Past(x, f)
        PROVE  FALSE
    <2>1. p[x].job = q.job /\ p[x].job # None
      BY <1>4, <1>5 DEF Past
    <2>2. At[p[x].job] = x
      BY <2>1, Known DEF Roles
    <2>3. x = h
      BY <1>1, <2>1, <2>2
    <2> QED
      BY <1>1, <1>4, <1>5, <2>3 DEF Past
  <1>6. ~Twice(f)
    BY <1>1, <1>4, <1>5 DEF TwiceInv, Passed
  <1> QED
    BY <1>4, <1>6, Counters, Known DEF Twice

-----------------------------------------------------------------------------
\* What no step of a host changes when no disk fails.
LEMMA StepFrame ==
  ASSUME Steady, XferInv, OrderInv, NEW h \in Hosts, Step(h)
  PROVE  /\ up' = up /\ faults' = faults /\ later' = later /\ queue' \subseteq queue
         /\ p'[Other(h)] = p[Other(h)]
         /\ ~RecvEof(h) => delivered' = delivered
  <1> DEFINE Frame == /\ up' = up /\ faults' = faults /\ later' = later /\ queue' \subseteq queue
                      /\ ~RecvEof(h) => delivered' = delivered
  <1>8. p'[Other(h)] = p[Other(h)]
    <2>1. p' = p \/ \E s : become(h, s)
      BY TameStep
    <2> QED
      BY <2>1, HostFacts, Known DEF become, TypeOK
  <1> SUFFICES Frame
    BY <1>8
  <1>1. CASE ReadFails(h) \/ NextJob(h) \/ NewRequest(h) \/ PutFile(h) \/ GetFile(h) \/ NoLocal(h)
    BY <1>1 DEF ReadFails, NextJob, NewRequest, PutFile, GetFile, NoLocal, send, disk, net, hist
  <1>2. CASE JobDone(h) \/ PutReply(h) \/ BreakHN(h) \/ BreakHY(h) \/ RecvHdr(h) \/ ChkReply(h)
    BY <1>2 DEF JobDone, PutReply, BreakHN, BreakHY, RecvHdr, ChkReply, pop, disk, net, hist
  <1>3. CASE GetReply(h) \/ TakeFile(h) \/ RecvData(h) \/ EofReply(h)
    BY <1>3 DEF GetReply, TakeFile, RecvData, EofReply, pop, send, disk, net, hist, DiskFault, Steady
  <1>4. CASE GiveFile(h) \/ NoRemote(h) \/ SendData(h) \/ SendEof(h) \/ RecvEof(h)
    BY <1>4 DEF GiveFile, NoRemote, SendData, SendEof, RecvEof, send, disk, net, hist
  <1>5. CASE ReadError(h) \/ CloseFails(h) \/ RenameFails(h)
    BY <1>5 DEF ReadError, CloseFails, RenameFails, DiskFault, Steady
  <1>6. CASE EndP(h) \/ Closing(h)
    BY <1>6 DEF EndP, Closing, disk, net, hist
  <1> QED
    BY <1>1, <1>2, <1>3, <1>4, <1>5, <1>6 DEF Step

\* s goes on with the line of q.
OnWith(s, q) == /\ {"state", "master", "job", "line"} \subseteq DOMAIN s
                /\ s.job = q.job /\ s.line = q.line /\ s.master = q.master
KeepsOn(s, q) ==
    /\ OnWith(s, q) /\ s.state \notin Gone
    /\ q.state = "eofreply" /\ q.master => s.state = "request"
    /\ q.state \in Served /\ ~q.master => s.state \in Served

\* So do the operators that end a part of a handler.
LEMMA KeepsOnWith ==
  ASSUME NEW s, NEW q, OnWith(s, q)
  PROVE  /\ KeepsOn(FileDone(s), q)
         /\ q.state # "eofreply" => \A f, n : KeepsOn(StartSending(s, f, n), q)
         /\ \A b : OnWith([s EXCEPT !.stream = b], q) /\ OnWith([s EXCEPT !.spool = b], q)
         /\ \A b, c : OnWith([s EXCEPT !.stream = b, !.spool = c], q)
  <1>1. KeepsOn(FileDone(s), q)
    BY DEF OnWith, KeepsOn, FileDone, Gone, Served
  <1>2. ASSUME q.state # "eofreply", NEW f, NEW n
        PROVE  KeepsOn(StartSending(s, f, n), q)
    BY <1>2 DEF OnWith, KeepsOn, StartSending, Gone, Served
  <1>3. /\ \A b : OnWith([s EXCEPT !.stream = b], q) /\ OnWith([s EXCEPT !.spool = b], q)
        /\ \A b, c : OnWith([s EXCEPT !.stream = b, !.spool = c], q)
    BY DEF OnWith
  <1> QED
    BY <1>1, <1>2, <1>3

\* What is read in a session that nothing has cut: the answer to an end of file
\* is good, and the block to start with is one of the file's.
LEMMA GoodAnswer ==
  ASSUME XferInv, Both, NEW h \in Hosts, inb[h] # <<>>
  PROVE  /\ p[h].state = "eofreply" => Head(inb[h]).type = "CY"
         /\ p[h].state = "putreply" /\ Head(inb[h]).type = "SY"
               => Head(inb[h]).off <= Size[p[h].file] /\ Head(inb[h]).off \in Nat
         /\ p[h].state = "recvhdr" /\ Head(inb[h]).type = "H" => p[Other(h)].state = "breakreply"
  <1> DEFINE o == Other(h)
  <1>1. /\ TypeOK /\ Turns /\ o \in Hosts /\ Other(o) = h /\ inb[h] \in Seq(Packet)
        /\ Head(inb[h]) = inb[h][1] /\ 1 \in DOMAIN inb[h]
    BY Known, HostFacts
  <1>2. ASSUME p[h].state = "eofreply"
        PROVE  Head(inb[h]).type = "CY"
    <2>1. CASE p[h].master
      <3>1. Answered(o)
        BY <1>1, <1>2, <2>1, TurnToRead
      <3> QED
        BY <1>1, <1>2, <3>1 DEF Answered, First
    <2>2. CASE ~p[h].master
      <3>1. Leads(o) \/ Asks(o)
        BY <1>1, <1>2, <2>2, TurnToRead
      <3> QED
        BY <1>1, <1>2, <3>1 DEF Leads, Asks, Ready, First
    <2> QED
      BY <2>1, <2>2
  <1>3. ASSUME p[h].state = "putreply", Head(inb[h]).type = "SY"
        PROVE  Head(inb[h]).off <= Size[p[h].file] /\ Head(inb[h]).off \in Nat
    <2>1. Answered(o)
      BY <1>1, <1>3, TurnToRead
    <2>2. /\ p[o].state = "recvdata" /\ p[o].file = p[h].file
          /\ Head(inb[h]).off = Len(temp[p[o].tmp])
      BY <1>1, <1>3, <2>1 DEF Answered, First, Same
    <2>3. /\ p[o].file \in Files /\ temp[p[o].tmp] \in Prefixes(p[o].file)
          /\ Len(temp[p[o].tmp]) \in Nat
      BY <1>1, <2>2, Received
    <2>4. Len(temp[p[o].tmp]) \in 0..Size[p[o].file] /\ Size[p[o].file] \in Nat
      BY <2>3, PartFacts
    <2> QED
      BY <2>2, <2>4
  <1>4. ASSUME p[h].state = "recvhdr", Head(inb[h]).type = "H"
        PROVE  p[o].state = "breakreply"
    <2>1. Asks(o)
      BY <1>1, <1>4, TurnToRead
    <2>2. Asked(o, inb[h][1])
      BY <1>1, <1>4, <2>1 DEF Asks
    <2> QED
      BY <1>1, <1>4, <2>2 DEF Asked
  <1> QED
    BY <1>2, <1>3, <1>4

\* In a session that nothing has cut a host goes on, or ends by sbreak.
LEMMA GoesOn ==
  ASSUME Steady, XferInv, OrderInv, Both, up, NEW h \in Hosts, Step(h),
         ~BreakHN(h), ~BreakHY(h)
  PROVE  /\ p'[h].state \notin Gone
         /\ \/ NextJob(h) \/ JobDone(h) \/ NewRequest(h) \/ NoLocal(h) \/ NoRemote(h)
            \/ RecvHdr(h) /\ Head(inb[h]).type = "H"
            \/ KeepsOn(p'[h], p[h])
  <1> DEFINE q == p[h]
             Goes == \E s : "state" \in DOMAIN s /\ s.state \notin Gone /\ become(h, s)
             OnIt == (p' = p /\ KeepsOn(q, q)) \/ (\E s : KeepsOn(s, q) /\ become(h, s))
  <1>1. q \in Process /\ ~Left(h) /\ ~HasClosed(h) /\ Busy(h) /\ Busy(Other(h)) /\ TypeOK
    BY Known, Connected, HostFacts DEF Both
  <1>2. OnWith(q, q)
    BY <1>1 DEF OnWith, Process
  <1>3. ASSUME NEW s, become(h, s) PROVE p'[h] = s
    BY <1>1, <1>3 DEF become, TypeOK
  <1> HIDE DEF q
  <1>4. ASSUME NEW s, NEW m, send(h, m, s) PROVE become(h, s)
    BY <1>1, <1>4 DEF send
  <1>5. ASSUME NEW s, OnWith(s, q)
        PROVE  /\ become(h, FileDone(s)) => OnIt
               /\ q.state # "eofreply" => \A f, n : become(h, StartSending(s, f, n)) => OnIt
    BY <1>5, KeepsOnWith
  <1>6. OnIt => p'[h].state \notin Gone /\ KeepsOn(p'[h], q)
    BY <1>3 DEF KeepsOn, q
  <1>7. Goes => p'[h].state \notin Gone
    BY <1>3
  <1>8. CASE NextJob(h)
    <2> DEFINE s(j, t) == [q EXCEPT !.state = "request", !.job = j, !.line = 0,
                                    !.errs = FALSE, !.todo = t]
    <2>1. /\ \A j, t : "state" \in DOMAIN s(j, t) /\ s(j, t).state \notin Gone
          /\ "state" \in DOMAIN Master(q, h) /\ Master(q, h).state \notin Gone
          /\ LET r == [q EXCEPT !.state = "nolocal"]
             IN  "state" \in DOMAIN r /\ r.state \notin Gone
      BY <1>2 DEF OnWith, Gone, Master
    <2>2. \/ \E j, t : become(h, s(j, t))
          \/ become(h, Master(q, h)) \/ become(h, [q EXCEPT !.state = "nolocal"])
      BY <1>8 DEF NextJob, q
    <2>3. Goes
      BY <2>1, <2>2
    <2> QED
      BY <1>7, <1>8, <2>3
  <1>9. CASE JobDone(h)
    <2> DEFINE s(b) == [q EXCEPT !.state = "nextjob", !.job = None, !.file = None,
                                 !.scan_not_needed = b]
    <2>1. \A b : "state" \in DOMAIN s(b) /\ s(b).state \notin Gone
      BY <1>2 DEF OnWith, Gone
    <2>2. \E b : become(h, s(b))
      BY <1>9 DEF JobDone, q
    <2>3. Goes
      BY <2>1, <2>2
    <2> QED
      BY <1>7, <1>9, <2>3
  <1>10. CASE NewRequest(h)
    <2> DEFINE s(a, b, c) == [q EXCEPT !.state = a, !.line = b, !.file = c, !.pos = 0]
    <2>1. \A a, b, c : a \in {"putfile", "getfile"} =>
             "state" \in DOMAIN s(a, b, c) /\ s(a, b, c).state \notin Gone
      BY <1>2 DEF OnWith, Gone
    <2>2. \E b, c : become(h, s("putfile", b, c)) \/ become(h, s("getfile", b, c))
      BY <1>10 DEF NewRequest, q
    <2>3. Goes
      BY <2>1, <2>2
    <2> QED
      BY <1>7, <1>10, <2>3
  <1>11. CASE NoLocal(h)
    <2> DEFINE s == [q EXCEPT !.state = "breakreply"]
    <2>1. "state" \in DOMAIN s /\ s.state \notin Gone
      BY <1>2 DEF OnWith, Gone
    <2>2. become(h, s)
      BY <1>4, <1>11 DEF NoLocal, q
    <2>3. Goes
      BY <2>1, <2>2
    <2> QED
      BY <1>7, <1>11, <2>3
  <1>12. CASE NoRemote(h)
    <2> DEFINE s == [q EXCEPT !.state = "chkreply", !.hstatus = "called"]
    <2>1. /\ "state" \in DOMAIN s /\ s.state \notin Gone
          /\ "state" \in DOMAIN Master(q, h) /\ Master(q, h).state \notin Gone
      BY <1>2 DEF OnWith, Gone, Master
    <2>2. become(h, s) \/ become(h, Master(q, h))
      BY <1>4, <1>12 DEF NoRemote, q
    <2>3. Goes
      BY <2>1, <2>2
    <2> QED
      BY <1>7, <1>12, <2>3
  <1>13. CASE RecvHdr(h)
    <2> DEFINE m == Head(inb[h])
               s(a, f) == [q EXCEPT !.state = a, !.file = f, !.pos = 0, !.tried = {}]
               r == [q EXCEPT !.state = "noremote"]
    <2>1. \A a, f : a \in {"takefile", "givefile"} => KeepsOn(s(a, f), q)
      <3>1. q.state = "recvhdr"
        BY <1>13 DEF RecvHdr, awaits, q
      <3> QED
        BY <1>2, <3>1 DEF OnWith, KeepsOn, Gone, Served
    <2>2. "state" \in DOMAIN r /\ r.state \notin Gone
      BY <1>2 DEF OnWith, Gone
    <2>3. \/ m.type = "H" /\ become(h, r)
          \/ \E f : become(h, s("takefile", f)) \/ become(h, s("givefile", f))
      BY <1>13 DEF RecvHdr, q
    <2> HIDE DEF s, r, m
    <2>4. (m.type = "H" /\ Goes) \/ OnIt
      BY <2>1, <2>2, <2>3
    <2> USE DEF m
    <2> QED
      BY <1>6, <1>7, <1>13, <2>4 DEF q
  <1> SUFFICES ASSUME ~RecvHdr(h), ~NextJob(h), ~JobDone(h), ~NewRequest(h), ~NoLocal(h),
                      ~NoRemote(h)
               PROVE  OnIt
    BY <1>6, <1>8, <1>9, <1>10, <1>11, <1>12, <1>13 DEF q
  <1>14. CASE ReadFails(h)
    BY <1>1, <1>14, OpenLine DEF ReadFails
  <1>15. CASE PutFile(h)
    <2> DEFINE s == [q EXCEPT !.state = "putreply", !.stream = TRUE]
    <2>1. q.state = "putfile"
      BY <1>15 DEF PutFile, q
    <2>2. KeepsOn(s, q)
      BY <1>2, <2>1 DEF OnWith, KeepsOn, Gone, Served
    <2>3. become(h, FileDone(q)) \/ become(h, s)
      BY <1>4, <1>15 DEF PutFile, Steady, q
    <2> QED
      BY <1>2, <1>5, <2>2, <2>3
  <1>16. CASE PutReply(h)
    <2> DEFINE m == Head(inb[h])
               s == [q EXCEPT !.stream = FALSE]
    <2>1. q.state = "putreply" /\ inb[h] # <<>> /\ m.type \in {"SY", "SN"}
      BY <1>16 DEF PutReply, awaits, q
    <2>2. m.type = "SY" => m.off <= Size[q.file] /\ m.off \in Nat
      BY <2>1, GoodAnswer DEF q
    <2>3. q.file \in Files
      BY <2>1, Known DEF Work, Working, q
    <2>4. ~(m.type = "SY" /\ m.off > Size[q.file])
      BY <2>2, <2>3, Constants
    <2>5. become(h, FileDone(s)) \/ \E f, n : become(h, StartSending(q, f, n))
      BY <1>16, <2>1, <2>4 DEF PutReply, q
    <2>6. OnWith(s, q)
      BY <1>2, KeepsOnWith
    <2> QED
      BY <1>2, <1>5, <2>1, <2>5, <2>6
  <1>17. CASE GetFile(h)
    <2> DEFINE s(b) == [q EXCEPT !.state = "getreply", !.tmp = Tmp[q.file], !.spool = b]
    <2>1. q.state = "getfile"
      BY <1>17 DEF GetFile, q
    <2>2. \A b : KeepsOn(s(b), q)
      BY <1>2, <2>1 DEF OnWith, KeepsOn, Gone, Served
    <2>3. \E b, m : send(h, m, s(b))
      BY <1>17 DEF GetFile, q
    <2> QED
      BY <1>4, <2>2, <2>3
  <1>18. CASE GetReply(h)
    <2> DEFINE s == [q EXCEPT !.state = "recvdata", !.stream = TRUE]
    <2>1. q.state = "getreply"
      BY <1>18 DEF GetReply, awaits, q
    <2>2. KeepsOn(s, q)
      BY <1>2, <2>1 DEF OnWith, KeepsOn, Gone, Served
    <2>3. become(h, FileDone(q)) \/ become(h, s)
      BY <1>18 DEF GetReply, DiskFault, Steady, q
    <2> QED
      BY <1>2, <1>5, <2>2, <2>3
  <1>19. CASE TakeFile(h)
    <2> DEFINE there(b) == [q EXCEPT !.spool = b, !.tmp = Tmp[q.file]]
               s(b) == [there(b) EXCEPT !.state = "recvdata", !.stream = TRUE]
    <2>1. q.state = "takefile"
      BY <1>19 DEF TakeFile, q
    <2>2. \A b : KeepsOn(s(b), q)
      BY <1>2, <2>1 DEF OnWith, KeepsOn, Gone, Served
    <2>3. OnWith([q EXCEPT !.spool = FALSE], q)
      BY <1>2, KeepsOnWith
    <2>4. \E m, b : send(h, m, FileDone([q EXCEPT !.spool = FALSE])) \/ send(h, m, s(b))
      BY <1>19 DEF TakeFile, DiskFault, Steady, q
    <2>5. become(h, FileDone([q EXCEPT !.spool = FALSE])) \/ \E b : become(h, s(b))
      BY <1>4, <2>4
    <2> QED
      BY <1>5, <2>2, <2>3, <2>5
  <1>20. CASE GiveFile(h) \/ SendData(h)
    <2>1. q.state \in {"givefile", "senddata"}
      BY <1>20 DEF GiveFile, SendData, q
    <2>2. \E m, n : send(h, m, FileDone(q)) \/ send(h, m, StartSending(q, q.file, n))
      BY <1>20 DEF GiveFile, SendData, q
    <2>3. become(h, FileDone(q)) \/ \E n : become(h, StartSending(q, q.file, n))
      BY <1>4, <2>2
    <2> QED
      BY <1>2, <1>5, <2>1, <2>3
  <1>21. CASE ChkReply(h)
    <2>1. inb[h] # <<>> /\ p[h].state = "chkreply"
      BY <1>21 DEF ChkReply, awaits
    <2> QED
      BY <1>1, <2>1, TurnToRead, Known
  <1>22. CASE SendEof(h)
    <2> DEFINE s == [q EXCEPT !.state = "eofreply", !.stream = FALSE]
    <2>1. q.state = "sendeof" /\ become(h, s)
      BY <1>1, <1>22 DEF SendEof, q
    <2>2. KeepsOn(s, q)
      BY <1>2, <2>1 DEF OnWith, KeepsOn, Gone, Served
    <2> QED
      BY <2>1, <2>2
  <1>23. CASE EofReply(h)
    <2>1. inb[h] # <<>> /\ p[h].state = "eofreply"
      BY <1>23 DEF EofReply, awaits
    <2>2. Head(inb[h]).type = "CY"
      BY <2>1, GoodAnswer
    <2> QED
      BY <1>2, <1>5, <1>23, <2>2 DEF EofReply, q
  <1>24. CASE RecvData(h)
    <2> DEFINE s == [q EXCEPT !.state = "recveof"]
    <2>1. q.state = "recvdata"
      BY <1>24 DEF RecvData, awaits, q
    <2>2. KeepsOn(s, q) /\ KeepsOn(q, q)
      BY <1>2, <2>1 DEF OnWith, KeepsOn, Gone, Served
    <2>3. become(h, s) \/ p' = p
      BY <1>24 DEF RecvData, DiskFault, Steady, q
    <2> QED
      BY <2>2, <2>3
  <1>25. CASE RecvEof(h)
    <2> DEFINE s == [q EXCEPT !.stream = FALSE, !.spool = FALSE]
    <2>1. OnWith(s, q)
      BY <1>2, KeepsOnWith
    <2>2. \E m : send(h, m, FileDone(s))
      BY <1>25 DEF RecvEof, q
    <2>3. become(h, FileDone(s))
      BY <1>4, <2>2
    <2> QED
      BY <1>5, <2>1, <2>3
  <1>26. CASE ReadError(h) \/ CloseFails(h) \/ RenameFails(h)
    BY <1>26 DEF ReadError, CloseFails, RenameFails, DiskFault, Steady
  <1>27. CASE EndP(h) \/ Closing(h)
    BY <1>1, <1>27 DEF EndP, Closing, Busy, Gone
  <1> QED
    BY <1>14, <1>15, <1>16, <1>17, <1>18, <1>19, <1>20, <1>21, <1>22, <1>23, <1>24, <1>25,
       <1>26, <1>27 DEF Step

\* s receives no file.
Refrains(s) == "state" \in DOMAIN s /\ s.state \notin Getting

LEMMA RefrainsAtEnd ==
  ASSUME NEW s, "state" \in DOMAIN s
  PROVE  /\ Refrains(Lost(s)) /\ Refrains(Abort(s)) /\ Refrains(FileDone(s)) /\ Refrains(Slave(s))
         /\ \A h : Refrains(Master(s, h))
         /\ \A f, n : Refrains(StartSending(s, f, n))
  <1>1. Refrains(Lost(s)) /\ Refrains(Abort(s))
    BY DEF Refrains, Lost, Abort, Getting
  <1>2. Refrains(FileDone(s)) /\ Refrains(Slave(s))
    BY DEF Refrains, FileDone, Slave, Getting
  <1>3. ASSUME NEW h PROVE Refrains(Master(s, h))
    BY DEF Refrains, Master, Getting
  <1>4. ASSUME NEW f, NEW n PROVE Refrains(StartSending(s, f, n))
    BY DEF Refrains, StartSending, Getting
  <1> QED
    BY <1>1, <1>2, <1>3, <1>4

\* A host begins to receive a file by a command or an answer, which it can send
\* only while the line is up.
LEMMA Catches ==
  ASSUME Steady, XferInv, NEW h \in Hosts, Step(h), p'[h].state \in Getting
  PROVE  /\ p'[h].file = p[h].file
         /\ p[h].state \in Getting \/ (up /\ p[h].state \in {"getfile", "takefile"})
  <1> DEFINE q == p[h]
             Goal == /\ p'[h].file = q.file
                     /\ q.state \in Getting \/ (up /\ q.state \in {"getfile", "takefile"})
             Out == \E s : Refrains(s) /\ become(h, s)
  <1>1. q \in Process /\ TypeOK
    BY Known
  <1>2. {"state", "file"} \subseteq DOMAIN q
    BY <1>1 DEF Process
  <1>3. ASSUME NEW s, become(h, s) PROVE p'[h] = s
    BY <1>1, <1>3 DEF become, TypeOK
  <1> HIDE DEF q
  <1>4. Out => Goal
    BY <1>3 DEF Refrains
  <1>5. ASSUME NEW s, "state" \in DOMAIN s
        PROVE  /\ become(h, Lost(s)) => Goal
               /\ become(h, Abort(s)) => Goal
               /\ become(h, FileDone(s)) => Goal
               /\ become(h, Slave(s)) => Goal
               /\ become(h, Master(s, h)) => Goal
               /\ \A f, n : become(h, StartSending(s, f, n)) => Goal
    BY <1>4, <1>5, RefrainsAtEnd
  <1>6. ASSUME NEW s, Refrains(s), NEW m, send(h, m, s) PROVE Goal
    <2>1. become(h, s) \/ become(h, Lost(s))
      BY <1>6 DEF send
    <2> QED
      BY <1>4, <1>5, <1>6, <2>1 DEF Refrains
  <1>7. ASSUME NEW s, {"state", "file"} \subseteq DOMAIN s, s.file = q.file, NEW m, send(h, m, s),
               q.state \in {"getfile", "takefile"}
        PROVE  Goal
    <2>1. (up /\ become(h, s)) \/ become(h, Lost(s))
      BY <1>7 DEF send, Left
    <2> QED
      BY <1>3, <1>5, <1>7, <2>1
  <1> SUFFICES Goal
    BY DEF q
  <1>8. CASE ReadFails(h) \/ ReadError(h) \/ EofReply(h)
    BY <1>2, <1>5, <1>8 DEF ReadFails, ReadError, EofReply, q
  <1>9. CASE NextJob(h)
    <2> DEFINE s(j, t) == [q EXCEPT !.state = "request", !.job = j, !.line = 0,
                                    !.errs = FALSE, !.todo = t]
    <2>1. Refrains([q EXCEPT !.state = "nolocal"]) /\ \A j, t : Refrains(s(j, t))
      BY <1>2 DEF Refrains, Getting
    <2>2. \/ \E j, t : become(h, s(j, t))
          \/ become(h, Master(q, h)) \/ become(h, [q EXCEPT !.state = "nolocal"])
      BY <1>9 DEF NextJob, q
    <2> QED
      BY <1>2, <1>4, <1>5, <2>1, <2>2
  <1>10. CASE JobDone(h)
    <2> DEFINE s(b) == [q EXCEPT !.state = "nextjob", !.job = None, !.file = None,
                                 !.scan_not_needed = b]
    <2>1. \A b : Refrains(s(b))
      BY <1>2 DEF Refrains, Getting
    <2>2. \E b : become(h, s(b))
      BY <1>10 DEF JobDone, q
    <2> QED
      BY <1>4, <2>1, <2>2
  <1>11. CASE NewRequest(h)
    <2> DEFINE s(a, b, c) == [q EXCEPT !.state = a, !.line = b, !.file = c, !.pos = 0]
    <2>1. \A b, c : Refrains(s("putfile", b, c)) /\ Refrains(s("getfile", b, c))
      BY <1>2 DEF Refrains, Getting
    <2>2. \E b, c : become(h, s("putfile", b, c)) \/ become(h, s("getfile", b, c))
      BY <1>11 DEF NewRequest, q
    <2> QED
      BY <1>4, <2>1, <2>2
  <1>12. CASE PutFile(h)
    <2>1. Refrains([q EXCEPT !.state = "putreply", !.stream = TRUE])
      BY <1>2 DEF Refrains, Getting
    <2> QED
      BY <1>2, <1>5, <1>6, <1>12, <2>1 DEF PutFile, Steady, q
  <1>13. CASE PutReply(h)
    <2>1. "state" \in DOMAIN [q EXCEPT !.stream = FALSE]
      BY <1>2
    <2> QED
      BY <1>2, <1>5, <1>13, <2>1 DEF PutReply, q
  <1>14. CASE GetFile(h)
    <2> DEFINE s(b) == [q EXCEPT !.state = "getreply", !.tmp = Tmp[q.file], !.spool = b]
    <2>1. q.state = "getfile" /\ \E m, b : send(h, m, s(b))
      BY <1>14 DEF GetFile, q
    <2>2. \A b : {"state", "file"} \subseteq DOMAIN s(b) /\ s(b).file = q.file
      BY <1>2
    <2> QED
      BY <1>7, <2>1, <2>2
  <1>15. CASE GetReply(h)
    <2> DEFINE s == [q EXCEPT !.state = "recvdata", !.stream = TRUE]
    <2>1. become(h, FileDone(q)) \/ become(h, s)
      BY <1>15 DEF GetReply, DiskFault, Steady, q
    <2>2. s.file = q.file /\ q.state \in Getting
      BY <1>2, <1>15 DEF GetReply, awaits, Getting, q
    <2> QED
      BY <1>2, <1>3, <1>5, <2>1, <2>2
  <1>16. CASE NoLocal(h)
    <2> DEFINE s == [q EXCEPT !.state = "breakreply"]
    <2>1. Refrains(s)
      BY <1>2 DEF Refrains, Getting
    <2>2. \E m : send(h, m, s)
      BY <1>16 DEF NoLocal, q
    <2> QED
      BY <1>6, <2>1, <2>2
  <1>17. CASE BreakHN(h)
    <2>1. Refrains([q EXCEPT !.state = "endp"])
      BY <1>2 DEF Refrains, Getting
    <2> QED
      BY <1>2, <1>4, <1>5, <1>17, <2>1 DEF BreakHN, q
  <1>18. CASE BreakHY(h)
    <2> DEFINE s == [q EXCEPT !.state = "endp", !.hstatus = "called"]
    <2>1. Refrains(s) /\ "state" \in DOMAIN s
      BY <1>2 DEF Refrains, Getting
    <2>2. become(h, s) \/ become(h, Lost(s))
      BY <1>18 DEF BreakHY, q
    <2> QED
      BY <1>4, <1>5, <2>1, <2>2
  <1>19. CASE RecvHdr(h)
    <2> DEFINE s(a, f) == [q EXCEPT !.state = a, !.file = f, !.pos = 0, !.tried = {}]
    <2>1. /\ Refrains([q EXCEPT !.state = "noremote"])
          /\ \A f : Refrains(s("givefile", f)) /\ Refrains(s("takefile", f))
      BY <1>2 DEF Refrains, Getting
    <2>2. \/ become(h, [q EXCEPT !.state = "noremote"])
          \/ \E f : become(h, s("givefile", f)) \/ become(h, s("takefile", f))
      BY <1>19 DEF RecvHdr, q
    <2> QED
      BY <1>4, <2>1, <2>2
  <1>20. CASE TakeFile(h)
    <2> DEFINE there(b) == [q EXCEPT !.spool = b, !.tmp = Tmp[q.file]]
               s(b) == [there(b) EXCEPT !.state = "recvdata", !.stream = TRUE]
    <2>1. "state" \in DOMAIN [q EXCEPT !.spool = FALSE]
      BY <1>2
    <2>2. Refrains(FileDone([q EXCEPT !.spool = FALSE]))
      BY <2>1, RefrainsAtEnd
    <2>3. \A b : {"state", "file"} \subseteq DOMAIN s(b) /\ s(b).file = q.file
      BY <1>2
    <2>4. \E m, b : send(h, m, FileDone([q EXCEPT !.spool = FALSE])) \/ send(h, m, s(b))
      BY <1>20 DEF TakeFile, DiskFault, Steady, q
    <2>5. q.state = "takefile"
      BY <1>20 DEF TakeFile, q
    <2> QED
      BY <1>6, <1>7, <2>2, <2>3, <2>4, <2>5
  <1>21. CASE GiveFile(h) \/ SendData(h)
    <2>1. Refrains(FileDone(q)) /\ \A f, n : Refrains(StartSending(q, f, n))
      BY <1>2, RefrainsAtEnd
    <2>2. \E m, n : send(h, m, FileDone(q)) \/ send(h, m, StartSending(q, q.file, n))
      BY <1>21 DEF GiveFile, SendData, q
    <2> QED
      BY <1>6, <2>1, <2>2
  <1>22. CASE NoRemote(h)
    <2> DEFINE s == [q EXCEPT !.state = "chkreply", !.hstatus = "called"]
    <2>1. Refrains(s) /\ Refrains(Master(q, h))
      BY <1>2, RefrainsAtEnd DEF Refrains, Getting
    <2>2. \E m : send(h, m, s) \/ send(h, m, Master(q, h))
      BY <1>22 DEF NoRemote, q
    <2> QED
      BY <1>6, <2>1, <2>2
  <1>23. CASE ChkReply(h)
    <2>1. Refrains([q EXCEPT !.state = "endp"])
      BY <1>2 DEF Refrains, Getting
    <2> QED
      BY <1>4, <1>23, <2>1 DEF ChkReply, q
  <1>24. CASE SendEof(h)
    <2>1. Refrains([q EXCEPT !.state = "eofreply", !.stream = FALSE])
      BY <1>2 DEF Refrains, Getting
    <2> QED
      BY <1>2, <1>4, <1>5, <1>24, <2>1 DEF SendEof, q
  <1>25. CASE RecvData(h)
    <2> DEFINE s == [q EXCEPT !.state = "recveof"]
    <2>1. become(h, s) \/ p' = p
      BY <1>25 DEF RecvData, DiskFault, Steady, q
    <2>2. s.file = q.file /\ q.state \in Getting
      BY <1>2, <1>25 DEF RecvData, awaits, Getting, q
    <2>3. p' = p => p'[h].file = q.file
      BY DEF q
    <2> QED
      BY <1>3, <2>1, <2>2, <2>3
  <1>26. CASE RecvEof(h)
    <2>1. "state" \in DOMAIN [q EXCEPT !.stream = FALSE, !.spool = FALSE]
      BY <1>2
    <2>2. Refrains(FileDone([q EXCEPT !.stream = FALSE, !.spool = FALSE]))
      BY <2>1, RefrainsAtEnd
    <2> QED
      BY <1>6, <1>26, <2>2 DEF RecvEof, q
  <1>27. CASE CloseFails(h) \/ RenameFails(h)
    BY <1>27 DEF CloseFails, RenameFails, DiskFault, Steady
  <1>28. CASE EndP(h)
    <2>1. \A c : Refrains([q EXCEPT !.state = "closing", !.hstatus = c])
      BY <1>2 DEF Refrains, Getting
    <2> QED
      BY <1>2, <1>4, <1>5, <1>28, <2>1 DEF EndP, q
  <1>29. CASE Closing(h)
    <2>1. Refrains([q EXCEPT !.state = "over", !.spool = FALSE])
      BY <1>2 DEF Refrains, Getting
    <2> QED
      BY <1>2, <1>4, <1>5, <1>29, <2>1 DEF Closing, q
  <1> QED
    BY <1>8, <1>9, <1>10, <1>11, <1>12, <1>13, <1>14, <1>15, <1>16, <1>17, <1>18, <1>19, <1>20,
       <1>21, <1>22, <1>23, <1>24, <1>25, <1>26, <1>27, <1>28, <1>29 DEF Step

-----------------------------------------------------------------------------
\* A file that has arrived as often as it may stays passed over, or leaves the
\* queue.
LEMMA PassedStays ==
  ASSUME Steady, XferInv, OrderInv, TwiceInv, NEW h \in Hosts, Step(h),
         NEW f \in Files, JobOf(f) \in queue' \cup later', Twice(f)
  PROVE  Passed(f)'
  <1>1. /\ up' = up /\ later' = later /\ queue' \subseteq queue /\ p'[Other(h)] = p[Other(h)]
        /\ queue \cap later = {} /\ JobOf(f) \in Jobs
    BY StepFrame, FileFacts DEF TwiceInv
  <1>2. JobOf(f) \in queue \cup later /\ Passed(f)
    BY <1>1 DEF TwiceInv
  <1>3. PICK k \in Hosts : Past(k, f) /\ Serving(Other(k))
    BY <1>2 DEF Passed
  <1>4. /\ up /\ p[k].job = JobOf(f) /\ p[k].job # None /\ Roles(k) /\ Roles(Other(k))
        /\ Other(k) \in Hosts /\ Other(Other(k)) = k
    BY <1>1, <1>2, <1>3, Constants, HostFacts, Known DEF Passed, Past
  <1>5. p[k].state \in Chosen \/ (p[k].state \in Transfer /\ p[k].master)
    BY <1>4 DEF Roles
  <1>6. Busy(k) /\ p[k].master
    BY <1>4, <1>5 DEF Busy, Gone, Chosen, Transfer, Roles
  <1>7. Busy(Other(k)) /\ ~p[Other(k)].master
    BY <1>3 DEF Serving, Served, Busy, Gone
  <1>8. Both
    BY <1>4, <1>6, <1>7, TurnFacts
  <1>9. ~BreakHN(h) /\ ~BreakHY(h) /\ ~NextJob(h) /\ ~NoLocal(h) /\ ~NoRemote(h)
    <2>1. h = k \/ h = Other(k)
      BY <1>4, HostFacts
    <2>2. p[h].state \notin {"breakreply", "nextjob", "nolocal", "noremote"}
      BY <1>3, <1>5, <2>1 DEF Serving, Served, Chosen, Transfer
    <2> QED
      BY <2>2 DEF BreakHN, BreakHY, NextJob, NoLocal, NoRemote, awaits
  <1>10. \/ JobDone(h) \/ NewRequest(h)
         \/ RecvHdr(h) /\ Head(inb[h]).type = "H"
         \/ KeepsOn(p'[h], p[h])
    BY <1>4, <1>8, <1>9, GoesOn
  <1>11. CASE h = k
    <2>1. Serving(Other(k))'
      BY <1>1, <1>3, <1>11 DEF Serving
    <2>2. ~RecvHdr(h)
      BY <1>5, <1>11 DEF RecvHdr, awaits, Chosen, Transfer
    <2>3. CASE JobDone(h)
      <3>1. queue' = queue \ {p[h].job}
        BY <2>3 DEF JobDone, OrderInv
      <3>2. JobOf(f) \in later /\ JobOf(f) \in queue
        BY <1>1, <1>4, <1>11, <3>1 DEF Roles
      <3> QED
        BY <1>1, <3>2
    <2>4. CASE NewRequest(h)
      <3> DEFINE q == p[h]
                 s(a, b, c) == [q EXCEPT !.state = a, !.line = b, !.file = c, !.pos = 0]
      <3>1. q.line \in Nat /\ q \in Process /\ TypeOK
        BY Known DEF Process
      <3>2. PICK a, c : become(h, s(a, q.line + 1, c))
        BY <2>4 DEF NewRequest
      <3>3. p'[h] = s(a, q.line + 1, c)
        BY <3>1, <3>2 DEF become, TypeOK
      <3>4. p'[h].job = q.job /\ p'[h].line = q.line + 1
        BY <3>1, <3>3 DEF Process
      <3>5. \A n \in DOMAIN Lines[JobOf(f)] :
               n < q.line \/ (n = q.line /\ q.state \in {"request", "eofreply"}) => n < q.line + 1
        <4>1. DOMAIN Lines[JobOf(f)] \subseteq Nat
          BY <1>1, LineFacts
        <4> QED
          BY <3>1, <4>1
      <3>6. Past(h, f)'
        BY <1>3, <1>11, <3>4, <3>5 DEF Past
      <3> QED
        BY <1>1, <1>4, <1>11, <2>1, <3>6 DEF Passed
    <2>5. CASE KeepsOn(p'[h], p[h]) /\ ~JobDone(h) /\ ~NewRequest(h)
      <3>1. p'[h].job = p[h].job /\ p'[h].line = p[h].line
        BY <2>5 DEF KeepsOn, OnWith
      <3>2. p[h].state # "request"
        <4> SUFFICES ASSUME p[h].state = "request" PROVE FALSE
          OBVIOUS
        <4>1. /\ ~ReadFails(h) /\ ~PutFile(h) /\ ~PutReply(h) /\ ~GetFile(h) /\ ~GetReply(h)
              /\ ~RecvHdr(h) /\ ~TakeFile(h) /\ ~GiveFile(h) /\ ~ChkReply(h)
          BY DEF ReadFails, PutFile, PutReply, GetFile, GetReply, RecvHdr, TakeFile, GiveFile,
             ChkReply, awaits, Reading
        <4>2. /\ ~SendData(h) /\ ~ReadError(h) /\ ~SendEof(h) /\ ~EofReply(h) /\ ~RecvData(h)
              /\ ~RecvEof(h) /\ ~CloseFails(h) /\ ~RenameFails(h) /\ ~EndP(h) /\ ~Closing(h)
          BY DEF SendData, ReadError, CannotOpen, SendEof, EofReply, RecvData, RecvEof,
             CloseFails, RenameFails, EndP, Closing, awaits
        <4> QED
          BY <1>9, <2>5, <4>1, <4>2 DEF Step
      <3>3. p[h].state = "eofreply" => p'[h].state = "request"
        BY <1>6, <1>11, <2>5 DEF KeepsOn
      <3>4. Past(h, f)'
        BY <1>3, <1>11, <3>1, <3>2, <3>3 DEF Past
      <3> QED
        BY <1>1, <1>4, <1>11, <2>1, <3>4 DEF Passed
    <2> QED
      BY <1>10, <2>2, <2>3, <2>4, <2>5
  <1>12. CASE h = Other(k)
    <2>1. Past(k, f)'
      BY <1>1, <1>3, <1>4, <1>12 DEF Past
    <2>2. ~JobDone(h) /\ ~NewRequest(h)
      BY <1>3, <1>12 DEF JobDone, NewRequest, Serving, Served
    <2>3. ~(RecvHdr(h) /\ Head(inb[h]).type = "H")
      <3> SUFFICES ASSUME RecvHdr(h), Head(inb[h]).type = "H" PROVE FALSE
        OBVIOUS
      <3>1. inb[h] # <<>> /\ p[h].state = "recvhdr"
        BY DEF RecvHdr, awaits
      <3>2. p[k].state = "breakreply"
        BY <1>4, <1>8, <1>12, <3>1, GoodAnswer
      <3> QED
        BY <1>5, <3>2 DEF Chosen, Transfer
    <2>4. KeepsOn(p'[h], p[h])
      BY <1>10, <2>2, <2>3
    <2>5. Serving(h)'
      BY <1>3, <1>12, <2>4 DEF KeepsOn, OnWith, Serving
    <2> QED
      BY <1>1, <1>4, <1>12, <2>1, <2>5 DEF Passed
  <1> QED
    BY <1>4, <1>11, <1>12, HostFacts

\* A file that arrives is passed over at once.
LEMMA ArrivesOnce ==
  ASSUME Steady, XferInv, OrderInv, TwiceInv, NEW h \in Hosts, RecvEof(h), up,
         NEW f, f = p[h].file
  PROVE  Passed(f)'
  <1> DEFINE q == p[h]
             o == Other(h)
  <1>1. /\ q.state = "recveof" /\ up' = up /\ p'[o] = p[o] /\ Step(h) /\ o \in Hosts
        /\ Other(o) = h /\ o # h
    BY StepFrame, HostFacts DEF RecvEof, Step
  <1>2. Both
    BY <1>1, NotAlone DEF Stranded, Busy, Gone
  <1>3. p[o].state = "eofreply" /\ p[o].file = f /\ q.master # p[o].master
    BY <1>1, <1>2, SenderWaits
  <1>4. KeepsOn(p'[h], q)
    <2>1. \A x \in Hosts : p[x].state = "recveof" =>
             ~ \/ NextJob(x) \/ JobDone(x) \/ NewRequest(x) \/ NoLocal(x) \/ NoRemote(x)
               \/ RecvHdr(x) \/ BreakHN(x) \/ BreakHY(x)
      BY DEF NextJob, JobDone, NewRequest, NoLocal, NoRemote, RecvHdr, BreakHN, BreakHY, awaits
    <2> QED
      BY <1>1, <1>2, <2>1, GoesOn
  <1>5. ~q.master => p'[h].state \in Served /\ ~p'[h].master
    BY <1>1, <1>4 DEF KeepsOn, OnWith, Served
  <1>6. p'[h].job = q.job /\ p'[h].line = q.line /\ p'[h].master = q.master
    BY <1>4 DEF KeepsOn, OnWith
  <1>7. q.master => p'[h].state = "request"
    <2> DEFINE s == FileDone([q EXCEPT !.stream = FALSE, !.spool = FALSE])
    <2>1. ~Left(h) /\ ~HasClosed(h) /\ q \in Process /\ TypeOK
      BY <1>2, Connected, Known, HostFacts DEF Both
    <2>2. become(h, s)
      BY <2>1 DEF RecvEof, send
    <2>3. p'[h] = s
      BY <2>1, <2>2 DEF become, TypeOK
    <2>4. q.master => s.state = "request"
      BY <2>1 DEF FileDone, Process
    <2> HIDE DEF s
    <2> QED
      BY <2>3, <2>4
  <1>8. \A x \in {h, o} : p[x].master => /\ p[x].job # None /\ p[x].job \in Jobs /\ p[x].line >= 1
           /\ p[x].line \in Nat /\ p[x].line <= Len(Lines[p[x].job])
           /\ f = Lines[p[x].job][p[x].line].file
    <2> TAKE x \in {h, o}
    <2>1. /\ p[x].state \in {"recveof", "eofreply"} /\ p[x].file = f /\ Roles(x) /\ Work(x)
          /\ p[x] \in Process
      BY <1>1, <1>3, Known
    <2> QED
      BY <2>1 DEF Roles, Work, Working, Transfer, Process
  <1>9. \A x \in {h, o} : p[x].master =>
           /\ p[x].job = JobOf(f) /\ p[x].line \in DOMAIN Lines[JobOf(f)]
           /\ Lines[JobOf(f)][p[x].line].file = f
    <2> TAKE x \in {h, o}
    <2> HAVE p[x].master
    <2>1. Lines[p[x].job] \in Seq([type : {"S", "R"}, file : Files])
      BY <1>8, XferAssumption DEF XferConstants, JobsAssumption
    <2>2. p[x].line \in DOMAIN Lines[p[x].job]
      BY <1>8, <2>1, LenProperties
    <2> QED
      BY <1>8, <2>2, LineFacts
  <1>10. CASE q.master
    <2>1. p'[h].job = JobOf(f) /\ p'[h].line = q.line /\ p'[h].state = "request"
      BY <1>1, <1>6, <1>7, <1>9, <1>10
    <2>2. Past(h, f)'
      BY <1>9, <1>10, <2>1 DEF Past
    <2>3. Serving(o)'
      BY <1>1, <1>3, <1>10 DEF Serving, Served
    <2> QED
      BY <1>1, <2>2, <2>3 DEF Passed
  <1>11. CASE ~q.master
    <2>1. p[o].master
      <3>1. q.master \in BOOLEAN /\ p[o].master \in BOOLEAN
        <4>1. q \in Process /\ p[o] \in Process
          BY <1>1, Known
        <4> QED
          BY <4>1 DEF Process
      <3> QED
        BY Zenon, <1>3, <1>11, <3>1
    <2>2. Past(o, f)'
      BY <1>1, <1>3, <1>9, <2>1 DEF Past
    <2>3. Serving(h)'
      BY <1>5, <1>11 DEF Serving
    <2> QED
      BY <1>1, <2>2, <2>3 DEF Passed
  <1> QED
    BY <1>10, <1>11

\* A host that is alone stays so until it leaves: it asks, and nothing answers.
LEMMA AloneMoves ==
  ASSUME Steady, XferInv, NEW h \in Hosts, Step(h), Alone(h)
  PROVE  p'[h].state \in Gone \/ Alone(h)'
  <1> DEFINE q == p[h]
             Goal == p'[h].state \in Gone \/ Alone(h)'
             NowLeaves == \E s : "state" \in DOMAIN s /\ s.state \in Gone /\ become(h, s)
             StillAsks == /\ q.state # "chkreply" /\ inb'[h] = inb[h]
                      /\ \E s : "state" \in DOMAIN s /\ s.state \in Stranded /\ become(h, s)
  <1>1. /\ q \in Process /\ TypeOK /\ Other(h) \in Hosts /\ Other(h) # h
        /\ inb \in [Hosts -> Seq(Packet)]
    BY Known, HostFacts DEF TypeOK, Packet
  <1>2. ASSUME NEW s, become(h, s) PROVE p'[h] = s
    BY <1>1, <1>2 DEF become, TypeOK
  <1>3. "state" \in DOMAIN q /\ q.state \in Stranded
    BY <1>1 DEF Process, Alone
  <1> HIDE DEF q
  <1>4. NowLeaves => Goal
    BY <1>2
  <1>5. StillAsks => Goal
    <2> SUFFICES ASSUME StillAsks PROVE Alone(h)'
      OBVIOUS
    <2>1. Words(inb'[h]) = 0
      BY DEF Alone, q
    <2> QED
      BY <1>2, <2>1 DEF Alone
  <1>6. ASSUME NEW s, "state" \in DOMAIN s
        PROVE  become(h, Lost(s)) => NowLeaves
    <2>1. "state" \in DOMAIN Lost(s) /\ Lost(s).state \in Gone
      BY <1>6 DEF Lost, Gone
    <2> QED
      BY <2>1
  <1>7. ASSUME NEW s, "state" \in DOMAIN s, s.state \in Stranded, NEW m, send(h, m, s),
               q.state # "chkreply"
        PROVE  NowLeaves \/ StillAsks
    <2>1. CASE post(h, m) /\ become(h, s)
      <3>1. inb'[h] = inb[h]
        BY <1>1, <2>1 DEF post
      <3> QED
        BY <1>7, <2>1, <3>1
    <2>2. CASE become(h, Lost(s))
      BY <1>6, <1>7, <2>2
    <2> QED
      BY <1>7, <2>1, <2>2 DEF send
  <1>8. ASSUME q.state # "chkreply", inb[h] # <<>>
        PROVE  Head(inb[h]).type = "CLOSE"
    <2> DEFINE w == inb[h]
    <2>1. w \in Seq(Packet) /\ w # <<>> /\ Words(w) = 0
      BY <1>1, <1>8 DEF Alone, q
    <2> HIDE DEF w
    <2> DEFINE k == Len(w)
    <2>2. /\ k \in Nat /\ k <= 0 + 1 /\ k # 0 /\ Head(w) = w[1]
          /\ w[k].type # "CLOSE" => k = 0
      BY <2>1, WordsFacts
    <2> HIDE DEF k
    <2>3. k = 1
      BY <2>2
    <2> QED
      BY <2>2, <2>3 DEF w
  <1>9. ~PutReply(h) /\ ~GetReply(h) /\ ~BreakHN(h) /\ ~BreakHY(h)
    <2> SUFFICES ASSUME PutReply(h) \/ GetReply(h) \/ BreakHN(h) \/ BreakHY(h)
                 PROVE  FALSE
      OBVIOUS
    <2>1. /\ q.state \in {"putreply", "getreply", "breakreply"} /\ inb[h] # <<>>
          /\ Head(inb[h]).type \in {"SY", "SN", "RY", "RN", "HN", "HY"}
      BY DEF PutReply, GetReply, BreakHN, BreakHY, awaits, q
    <2> QED
      BY <1>8, <2>1
  <1>10. /\ ~RecvHdr(h) /\ ~TakeFile(h) /\ ~GiveFile(h) /\ ~NoRemote(h) /\ ~SendData(h)
         /\ ~ReadError(h) /\ ~SendEof(h) /\ ~EofReply(h) /\ ~RecvData(h) /\ ~RecvEof(h)
         /\ ~CloseFails(h) /\ ~RenameFails(h) /\ ~EndP(h) /\ ~Closing(h)
    BY <1>3 DEF RecvHdr, TakeFile, GiveFile, NoRemote, SendData, ReadError, DiskFault, Steady,
       SendEof, EofReply, RecvData, RecvEof, CloseFails, RenameFails, EndP, Closing, awaits,
       Stranded, q
  <1> SUFFICES NowLeaves \/ StillAsks
    BY <1>4, <1>5
  <1>11. CASE ReadFails(h)
    BY <1>3, <1>6, <1>11 DEF ReadFails, q
  <1>12. CASE NextJob(h)
    <2> DEFINE s(j, t) == [q EXCEPT !.state = "request", !.job = j, !.line = 0,
                                    !.errs = FALSE, !.todo = t]
               r == [q EXCEPT !.state = "nolocal"]
    <2>1. /\ \A j, t : "state" \in DOMAIN s(j, t) /\ s(j, t).state \in Stranded
          /\ "state" \in DOMAIN Master(q, h) /\ Master(q, h).state \in Stranded
          /\ "state" \in DOMAIN r /\ r.state \in Stranded
      BY <1>3 DEF Stranded, Master
    <2>2. \/ \E j, t : become(h, s(j, t))
          \/ become(h, Master(q, h)) \/ become(h, r)
      BY <1>12 DEF NextJob, q
    <2>3. q.state = "nextjob" /\ inb' = inb
      BY <1>12 DEF NextJob, net, q
    <2> QED
      BY <2>1, <2>2, <2>3
  <1>13. CASE JobDone(h)
    <2> DEFINE s(b) == [q EXCEPT !.state = "nextjob", !.job = None, !.file = None,
                                 !.scan_not_needed = b]
    <2>1. \A b : "state" \in DOMAIN s(b) /\ s(b).state \in Stranded
      BY <1>3 DEF Stranded
    <2>2. q.state = "request" /\ inb' = inb /\ \E b : become(h, s(b))
      BY <1>13 DEF JobDone, net, q
    <2> QED
      BY <2>1, <2>2
  <1>14. CASE NewRequest(h)
    <2> DEFINE s(a, b, c) == [q EXCEPT !.state = a, !.line = b, !.file = c, !.pos = 0]
    <2>1. \A b, c : /\ "state" \in DOMAIN s("putfile", b, c) /\ s("putfile", b, c).state \in Stranded
                    /\ "state" \in DOMAIN s("getfile", b, c) /\ s("getfile", b, c).state \in Stranded
      BY <1>3 DEF Stranded
    <2>2. \E b, c : become(h, s("putfile", b, c)) \/ become(h, s("getfile", b, c))
      BY <1>14 DEF NewRequest, q
    <2>3. q.state = "request" /\ inb' = inb
      BY <1>14 DEF NewRequest, net, q
    <2> QED
      BY <2>1, <2>2, <2>3
  <1>15. CASE PutFile(h)
    <2> DEFINE s == [q EXCEPT !.state = "putreply", !.stream = TRUE]
    <2>1. q.state = "putfile" /\ q.master
      BY <1>15, Known DEF PutFile, Roles, Chosen, q
    <2>2. /\ "state" \in DOMAIN s /\ s.state \in Stranded
          /\ "state" \in DOMAIN FileDone(q) /\ FileDone(q).state \in Stranded
      BY <1>3, <2>1 DEF Stranded, FileDone
    <2>3. \/ inb' = inb /\ become(h, FileDone(q))
          \/ \E m : send(h, m, s)
      BY <1>15 DEF PutFile, Steady, net, q
    <2> QED
      BY <1>7, <2>1, <2>2, <2>3
  <1>16. CASE GetFile(h)
    <2> DEFINE s(b) == [q EXCEPT !.state = "getreply", !.tmp = Tmp[q.file], !.spool = b]
    <2>1. \A b : "state" \in DOMAIN s(b) /\ s(b).state \in Stranded
      BY <1>3 DEF Stranded
    <2>2. q.state = "getfile" /\ \E m, b : send(h, m, s(b))
      BY <1>16 DEF GetFile, q
    <2> QED
      BY <1>7, <2>1, <2>2
  <1>17. CASE NoLocal(h)
    <2> DEFINE s == [q EXCEPT !.state = "breakreply"]
    <2>1. "state" \in DOMAIN s /\ s.state \in Stranded
      BY <1>3 DEF Stranded
    <2>2. q.state = "nolocal" /\ \E m : send(h, m, s)
      BY <1>17 DEF NoLocal, q
    <2> QED
      BY <1>7, <2>1, <2>2
  <1>18. CASE ChkReply(h)
    <2> DEFINE s == [q EXCEPT !.state = "endp"]
    <2>1. "state" \in DOMAIN s /\ s.state \in Gone
      BY <1>3 DEF Gone
    <2>2. become(h, s)
      BY <1>18 DEF ChkReply, q
    <2> QED
      BY <2>1, <2>2
  <1> QED
    BY <1>9, <1>10, <1>11, <1>12, <1>13, <1>14, <1>15, <1>16, <1>17, <1>18 DEF Step

\* The first host to leave a session that nothing has cut leaves the other one
\* alone.
LEMMA LeavesAlone ==
  ASSUME Steady, XferInv, OrderInv, Both, up, NEW h \in Hosts, Step(h),
         p'[h].state \in Gone
  PROVE  Alone(Other(h))'
  <1> DEFINE o == Other(h)
  <1>1. BreakHN(h) \/ BreakHY(h)
    BY GoesOn
  <1>2. /\ p[h].state = "breakreply" /\ inb[h] # <<>> /\ Head(inb[h]).type \in {"HN", "HY"}
        /\ BreakHY(h) <=> Head(inb[h]).type = "HY"
    BY <1>1 DEF BreakHN, BreakHY, awaits
  <1>3. /\ TypeOK /\ Turns /\ o \in Hosts /\ o # h /\ Other(o) = h /\ p'[o] = p[o]
        /\ inb \in [Hosts -> Seq(Packet)] /\ Head(inb[h]) = inb[h][1]
        /\ Busy(o) => Mail(o)
    <2>1. TypeOK /\ Turns /\ o \in Hosts /\ o # h /\ Other(o) = h /\ (Busy(o) => Mail(o))
      BY Known, HostFacts
    <2>2. p'[o] = p[o]
      BY StepFrame
    <2>3. inb \in [Hosts -> Seq(Packet)]
      BY <2>1 DEF TypeOK, Packet
    <2> QED
      BY <1>2, <2>1, <2>2, <2>3
  <1>4. Leads(o) \/ Asks(o) \/ Answered(o)
    BY <1>2, <1>3, TurnToRead
  <1>5. CASE BreakHN(h)
    <2>1. inb'[o] = inb[o]
      BY <1>3, <1>5 DEF BreakHN, pop
    <2>2. ~Answered(o)
      BY <1>2, <1>3, <1>5 DEF Answered, First, BreakHN, awaits
    <2>3. p[o].state \in Stranded /\ Words(inb[o]) = 0
      <3>1. CASE Leads(o)
        BY <1>3, <3>1 DEF Leads, Stranded, Both, Mail, Reading
      <3>2. CASE Asks(o)
        <4>1. inb[o] = <<>> /\ p[o].state \in Stranded
          BY <3>2 DEF Asks, Stranded
        <4> QED
          BY <1>3, <4>1, WordsFacts
      <3> QED
        BY <1>4, <2>2, <3>1, <3>2
    <2> QED
      BY <1>3, <2>1, <2>3 DEF Alone
  <1>6. CASE BreakHY(h)
    <2>1. Head(inb[h]).type = "HY"
      BY <1>2, <1>6
    <2>2. ~Leads(o) /\ ~Asks(o)
      BY <1>2, <1>3, <2>1 DEF Leads, Asks, Ready, First
    <2>3. p[o].state = "chkreply"
      BY <1>2, <1>3, <1>4, <2>2 DEF Answered
    <2> QED
      BY <1>3, <2>3 DEF Alone, Stranded
  <1> QED
    BY <1>1, <1>5, <1>6

\* A host that has left only closes the protocol, which the other does not take
\* for an answer.
LEMMA LeftForGood ==
  ASSUME XferInv, NEW h \in Hosts, Step(h), ~Busy(h)
  PROVE  /\ p'[h].state \in Gone
         /\ Alone(Other(h)) => Alone(Other(h))'
  <1> DEFINE q == p[h]
             o == Other(h)
  <1>1. /\ q \in Process /\ TypeOK /\ o \in Hosts /\ o # h /\ Other(o) = h
        /\ inb \in [Hosts -> Seq(Packet)] /\ Closed(h) /\ Closed(o) /\ q.state \in Gone
    BY Known, HostFacts DEF TypeOK, Packet, Busy
  <1>2. \A s : become(h, s) => p'[h] = s /\ p'[o] = p[o]
    BY <1>1 DEF become, TypeOK
  <1>3. EndP(h) \/ Closing(h)
    <2>1. /\ ~ReadFails(h) /\ ~NextJob(h) /\ ~JobDone(h) /\ ~NewRequest(h) /\ ~PutFile(h)
          /\ ~PutReply(h) /\ ~GetFile(h) /\ ~GetReply(h) /\ ~NoLocal(h) /\ ~BreakHN(h)
          /\ ~BreakHY(h) /\ ~RecvHdr(h)
      BY <1>1 DEF ReadFails, NextJob, JobDone, NewRequest, PutFile, PutReply, GetFile, GetReply,
         NoLocal, BreakHN, BreakHY, RecvHdr, awaits, Reading, Gone
    <2>2. /\ ~TakeFile(h) /\ ~GiveFile(h) /\ ~NoRemote(h) /\ ~ChkReply(h) /\ ~SendData(h)
          /\ ~ReadError(h) /\ ~SendEof(h) /\ ~EofReply(h) /\ ~RecvData(h) /\ ~RecvEof(h)
          /\ ~CloseFails(h) /\ ~RenameFails(h)
      BY <1>1 DEF TakeFile, GiveFile, NoRemote, ChkReply, SendData, ReadError, CannotOpen, SendEof,
         EofReply, RecvData, RecvEof, CloseFails, RenameFails, awaits, Gone
    <2> QED
      BY <2>1, <2>2 DEF Step
  <1>4. CASE inb' = inb /\ \E s : "state" \in DOMAIN s /\ s.state \in Gone /\ become(h, s)
    BY <1>2, <1>4 DEF Alone
  <1>5. "state" \in DOMAIN Lost(q) /\ Lost(q).state \in Gone
    BY <1>1 DEF Lost, Process, Gone
  <1>6. CASE EndP(h)
    <2> DEFINE s(c) == [q EXCEPT !.state = "closing", !.hstatus = c]
    <2>1. \A c : "state" \in DOMAIN s(c) /\ s(c).state = "closing"
      BY <1>1 DEF Process
    <2>2. \/ post(h, Word("CLOSE")) /\ \E c : become(h, s(c))
          \/ inb' = inb /\ become(h, Lost(q))
      BY <1>6 DEF EndP
    <2> HIDE DEF s
    <2>3. CASE post(h, Word("CLOSE")) /\ \E c : become(h, s(c))
      <3>1. p'[h].state = "closing" /\ p'[o] = p[o]
        BY <1>2, <2>1, <2>3
      <3>2. q.state \notin {"closing", "over"}
        BY <1>6 DEF EndP
      <3>3. Word("CLOSE") \in Packet /\ Word("CLOSE").type = "CLOSE"
        BY Messages DEF Types
      <3>4. Words(inb'[o]) = Words(inb[o])
        BY <1>1, <2>3, <3>1, <3>2, <3>3, Posted
      <3> QED
        BY <3>1, <3>4 DEF Alone, Gone
    <2> QED
      BY <1>4, <1>5, <2>2, <2>3
  <1>7. CASE Closing(h)
    <2> DEFINE s == [q EXCEPT !.state = "over", !.spool = FALSE]
    <2>1. "state" \in DOMAIN s /\ s.state \in Gone
      BY <1>1 DEF Process, Gone
    <2>2. inb' = inb /\ (become(h, s) \/ become(h, Lost(q)))
      BY <1>7 DEF Closing, net
    <2> QED
      BY <1>4, <1>5, <2>1, <2>2
  <1> QED
    BY <1>3, <1>6, <1>7

\* The invariant holds after a step of a host.
LEMMA TwiceStep ==
  ASSUME Steady, XferInv, OrderInv, TwiceInv, NEW h \in Hosts, Step(h)
  PROVE  TwiceInv'
  <1> DEFINE o == Other(h)
             left == MaxFaults - faults
  <1>1. /\ up' = up /\ faults' = faults /\ later' = later /\ queue' \subseteq queue
        /\ p'[o] = p[o] /\ (~RecvEof(h) => delivered' = delivered)
    BY StepFrame
  <1>2. /\ TypeOK /\ o \in Hosts /\ o # h /\ Other(o) = h /\ left \in Nat /\ MaxFaults - faults' = left
        /\ \A f \in Files : delivered[f] \in Nat
        /\ \A x \in Hosts : x = h \/ x = o
    BY <1>1, Known, HostFacts, Counters
  <1> HIDE DEF left
  <1>3. ASSUME RecvEof(h)
        PROVE  /\ p[h].file \in Files /\ p[h].state = "recveof"
               /\ delivered[p[h].file] + (IF up THEN 0 ELSE 1) <= left
               /\ \A f \in Files :
                     delivered'[f] = IF f = p[h].file THEN delivered[f] + 1 ELSE delivered[f]
    <2>1. p[h].state = "recveof"
      BY <1>3 DEF RecvEof
    <2>2. p[h].file \in Files
      BY <2>1, Received
    <2>3. delivered \in [Files -> Nat] /\ delivered' = [delivered EXCEPT ![p[h].file] = @ + 1]
      BY <1>2, <1>3 DEF RecvEof, TypeOK
    <2> QED
      BY <2>1, <2>2, <2>3 DEF TwiceInv, Getting, left
  <1>4. ASSUME NEW f \in Files
        PROVE  delivered'[f] <= 1 + left
    <2>1. CASE RecvEof(h) /\ f = p[h].file
      <3>1. delivered'[f] = delivered[f] + 1 /\ delivered[f] \in Nat
        BY <1>2, <1>3, <2>1
      <3>2. delivered[f] <= left
        <4>1. delivered[f] + (IF up THEN 0 ELSE 1) <= left
          BY <1>3, <2>1
        <4> QED
          BY <1>2, <3>1, <4>1
      <3> QED
        BY <1>2, <3>1, <3>2
    <2>2. CASE ~RecvEof(h) \/ f # p[h].file
      <3>1. delivered'[f] = delivered[f]
        BY <1>1, <1>3, <2>2
      <3> QED
        BY <3>1 DEF TwiceInv, left
    <2> QED
      BY <2>1, <2>2
  <1>5. ASSUME NEW f \in Files, JobOf(f) \in queue' \cup later', delivered'[f] > left
        PROVE  Passed(f)'
    <2>1. CASE RecvEof(h) /\ f = p[h].file
      <3>1. delivered'[f] = delivered[f] + 1 /\ delivered[f] \in Nat
        BY <1>2, <1>3, <2>1
      <3>2. delivered[f] + (IF up THEN 0 ELSE 1) <= left
        BY <1>3, <2>1
      <3>3. up
        BY <1>2, <1>5, <3>1, <3>2
      <3> QED
        BY <2>1, <3>3, ArrivesOnce
    <2>2. CASE ~RecvEof(h) \/ f # p[h].file
      <3>1. delivered'[f] = delivered[f]
        BY <1>1, <1>3, <2>2
      <3>2. Twice(f)
        BY <1>5, <3>1 DEF Twice, left
      <3> QED
        BY <1>5, <3>2, PassedStays
    <2> QED
      BY <2>1, <2>2
  <1>6. ASSUME NEW x \in Hosts, p'[x].state \in Getting
        PROVE  delivered'[p'[x].file] + (IF up THEN 0 ELSE 1) <= left
    <2>1. CASE x = h
      <3>1. /\ p'[h].file = p[h].file
            /\ p[h].state \in Getting \/ (up /\ p[h].state \in {"getfile", "takefile"})
        BY <1>6, <2>1, Catches
      <3>2. ~RecvEof(h)
        <4> SUFFICES ASSUME RecvEof(h) PROVE FALSE
          OBVIOUS
        <4> DEFINE s == [p[h] EXCEPT !.stream = FALSE, !.spool = FALSE]
        <4>1. "state" \in DOMAIN s
          BY <1>2 DEF TypeOK, Process
        <4> HIDE DEF s
        <4>2. become(h, FileDone(s)) \/ become(h, Lost(FileDone(s)))
          BY DEF RecvEof, send, s
        <4>3. Refrains(FileDone(s)) /\ Refrains(Lost(FileDone(s)))
          BY <4>1, RefrainsAtEnd DEF Refrains
        <4>4. \A r : become(h, r) => p'[h] = r
          BY <1>2 DEF become, TypeOK
        <4> QED
          BY <1>6, <2>1, <4>2, <4>3, <4>4 DEF Refrains
      <3>3. delivered' = delivered
        BY <1>1, <3>2
      <3>4. CASE p[h].state \in Getting
        BY <2>1, <3>1, <3>3, <3>4 DEF TwiceInv, left
      <3>5. CASE up /\ p[h].state = "getfile"
        <4>1. p[h].job # None
          BY <3>5, Known DEF Roles, Chosen
        <4>2. p[h].file \in Files /\ delivered[p[h].file] <= left
          BY <3>5, <4>1, AskedOnce, Known DEF Work, Working, left
        <4> QED
          BY <1>2, <2>1, <3>1, <3>3, <3>5, <4>2
      <3>6. CASE up /\ p[h].state = "takefile"
        <4>1. Both /\ Turns
          BY <3>6, NotAlone, Known DEF Stranded, Busy, Gone
        <4>2. p[o].state = "putreply" /\ p[o].file = p[h].file
          BY <3>6, <4>1, TurnToAnswer DEF Answers, Same
        <4>3. p[o].job # None
          BY <1>2, <4>2, Known DEF Roles, Chosen
        <4>4. p[h].file \in Files /\ delivered[p[h].file] <= left
          BY <1>2, <3>6, <4>2, <4>3, AskedOnce, Known DEF Work, Working, left
        <4> QED
          BY <1>2, <2>1, <3>1, <3>3, <3>6, <4>4
      <3> QED
        BY <3>1, <3>4, <3>5, <3>6
    <2>2. CASE x = o
      <3>1. p[o].state \in Getting
        BY <1>1, <1>6, <2>2
      <3>2. ~RecvEof(h)
        <4> SUFFICES ASSUME RecvEof(h) PROVE FALSE
          OBVIOUS
        <4>1. Busy(o)
          BY <3>1 DEF Busy, Getting, Gone
        <4>2. p[o].state = "eofreply"
          BY <1>3, <4>1, SenderWaits
        <4> QED
          BY <3>1, <4>2 DEF Getting
      <3>3. delivered' = delivered
        BY <1>1, <3>2
      <3> QED
        BY <1>1, <1>2, <2>2, <3>1, <3>3 DEF TwiceInv, left
    <2> QED
      BY <1>2, <2>1, <2>2
  <1>7. ASSUME NEW x \in Hosts, up, p'[x].state \notin Gone, p'[Other(x)].state \in Gone
        PROVE  Alone(x)'
    <2>1. CASE x = h
      <3>1. ~Busy(o) /\ Busy(h)
        <4>1. ~Busy(o)
          BY <1>1, <1>7, <2>1 DEF Busy
        <4>2. Busy(h)
          BY <1>7, <2>1, LeftForGood
        <4> QED
          BY <4>1, <4>2
      <3>2. Alone(h)
        BY <1>7, <3>1 DEF TwiceInv
      <3> QED
        BY <1>7, <2>1, <3>2, AloneMoves
    <2>2. CASE x = o
      <3>1. Busy(o) /\ p'[h].state \in Gone
        BY <1>1, <1>2, <1>7, <2>2 DEF Busy
      <3>2. CASE Busy(h)
        BY <1>7, <2>2, <3>1, <3>2, LeavesAlone, TurnFacts
      <3>3. CASE ~Busy(h)
        <4>1. Alone(o)
          BY <1>2, <1>7, <3>1, <3>3 DEF TwiceInv
        <4> QED
          BY <2>2, <3>3, <4>1, LeftForGood
      <3> QED
        BY <3>2, <3>3
    <2> QED
      BY <1>2, <2>1, <2>2
  <1>8. queue' \cap later' = {}
    BY <1>1 DEF TwiceInv
  <1> QED
    BY <1>1, <1>2, <1>4, <1>5, <1>6, <1>7, <1>8 DEF TwiceInv, Twice, Busy

\* A new session: the last one has left no file in a queue that has arrived too
\* often, or something failed in it.
LEMMA TwiceCall ==
  ASSUME XferInv, TwiceInv, NEW h \in Hosts, Call(h)
  PROVE  TwiceInv'
  <1> DEFINE begin(x, b) ==
               [(IF b THEN [Fresh EXCEPT !.spool = p[x].spool, !.tmp = p[x].tmp] ELSE Fresh)
                  EXCEPT !.hstatus = "inprogress"]
  <1>1. PICK same \in [Hosts -> BOOLEAN] :
           p' = [x \in Hosts |-> IF x = h THEN Master(begin(x, same[x]), h)
                                          ELSE Slave(begin(x, same[x]))]
    BY DEF Call
  <1>2. /\ \A x \in Hosts : p[x].state = "over"
        /\ up' = TRUE /\ queue' = queue /\ later' = later
        /\ faults' = faults /\ delivered' = delivered
    BY DEF Call, disk, hist
  <1>3. \A x, b : "state" \in DOMAIN begin(x, b)
    BY DEF Fresh
  <1> HIDE DEF begin
  <1>4. ASSUME NEW x \in Hosts
        PROVE  p'[x].state \in {"nextjob", "recvhdr"}
    <2>1. p'[x] = Master(begin(x, same[x]), h) \/ p'[x] = Slave(begin(x, same[x]))
      BY <1>1
    <2> QED
      BY <1>3, <2>1 DEF Master, Slave
  <1>5. ASSUME NEW x \in Hosts
        PROVE  p[x].job = None
    BY <1>2, Known DEF Roles, Chosen, Transfer
  <1>6. ASSUME NEW f \in Files
        PROVE  ~Passed(f)
    <2>1. JobOf(f) # None
      BY FileFacts, Constants
    <2> QED
      BY <1>5, <2>1 DEF Passed, Past
  <1>7. \A x \in Hosts : p'[x].state \notin Getting /\ p'[x].state \notin Gone /\ Other(x) \in Hosts
    BY <1>4, HostFacts DEF Getting, Gone
  <1>8. \A f \in Files : ~(JobOf(f) \in queue \cup later /\ Twice(f))
    BY <1>6 DEF TwiceInv
  <1> QED
    BY <1>2, <1>7, <1>8 DEF TwiceInv, Twice, Busy

\* A fault gives every file another arrival.
LEMMA TwiceFault ==
  ASSUME XferInv, TwiceInv, faults > 0, faults' = faults - 1, up' = FALSE,
         UNCHANGED <<queue, later, delivered>>,
         \A h \in Hosts : p'[h] = p[h] \/ p'[h] = Fresh
  PROVE  TwiceInv'
  <1> DEFINE left == MaxFaults - faults
  <1>1. /\ left \in Nat /\ MaxFaults - faults' = left + 1
        /\ \A f \in Files : delivered[f] \in Nat
    BY Known, HostFacts, Counters
  <1> HIDE DEF left
  <1>2. \A f \in Files : delivered[f] <= 1 + left
    BY DEF TwiceInv, left
  <1>3. \A f \in Files : delivered'[f] <= 1 + (MaxFaults - faults') /\ ~(delivered'[f] > MaxFaults - faults')
    BY <1>1, <1>2
  <1>4. ASSUME NEW h \in Hosts, p'[h].state \in Getting
        PROVE  delivered'[p'[h].file] + 1 <= MaxFaults - faults'
    <2>1. p'[h] = p[h]
      BY <1>4 DEF Fresh, Getting
    <2>2. p[h].file \in Files
      BY <1>4, <2>1, Known DEF Work, Working, Transfer, Getting
    <2>3. delivered[p[h].file] + (IF up THEN 0 ELSE 1) <= left
      BY <1>4, <2>1 DEF TwiceInv, left
    <2>4. delivered[p[h].file] <= left
      BY <1>1, <2>2, <2>3
    <2> QED
      BY <1>1, <2>1, <2>2, <2>4
  <1>5. queue' \cap later' = {}
    BY DEF TwiceInv
  <1> QED
    BY <1>3, <1>4, <1>5 DEF TwiceInv, Twice

LEMMA TwiceKept ==
  ASSUME Steady, XferInv, OrderInv, TwiceInv, [Next]_vars
  PROVE  TwiceInv'
  <1>1. ASSUME NEW h \in Hosts, Step(h)
        PROVE  TwiceInv'
    BY <1>1, TwiceStep
  <1>2. ASSUME NEW h \in Hosts, Call(h)
        PROVE  TwiceInv'
    BY <1>2, TwiceCall
  <1>3. ASSUME NEW h \in Hosts, Crash(h) \/ CrashCopying(h)
        PROVE  TwiceInv'
    <2>1. /\ faults > 0 /\ faults' = faults - 1 /\ up' = FALSE /\ become(h, Fresh)
          /\ UNCHANGED <<queue, later, delivered>>
      BY <1>3 DEF Crash, CrashCopying, Fault, CutLine
    <2>2. \A x \in Hosts : p'[x] = p[x] \/ p'[x] = Fresh
      BY <2>1, Known DEF become, TypeOK
    <2> QED
      BY <2>1, <2>2, TwiceFault
  <1>4. CASE Drop
    <2>1. faults > 0 /\ faults' = faults - 1 /\ up' = FALSE /\ UNCHANGED <<p, queue, later, delivered>>
      BY <1>4 DEF Drop, Fault, CutLine, disk
    <2> QED
      BY <2>1, TwiceFault
  <1>5. ASSUME NEW j \in Jobs, Submit(j)
        PROVE  TwiceInv'
    <2>1. PICK t : p' = [p EXCEPT ![At[j]].todo = t]
      BY <1>5 DEF Submit
    <2>2. /\ j \in later /\ later' = later \ {j} /\ queue' = queue \cup {j}
          /\ UNCHANGED <<inb, up, faults, delivered>>
      BY <1>5 DEF Submit, net
    <2>3. At[j] \in Hosts /\ p \in [Hosts -> Process]
      BY Constants, Known, HostFacts DEF TypeOK
    <2>4. \A x \in Hosts : /\ p'[x].state = p[x].state /\ p'[x].file = p[x].file
                           /\ p'[x].job = p[x].job /\ p'[x].line = p[x].line
                           /\ p'[x].master = p[x].master
      BY <2>1, <2>3 DEF Process
    <2>5. \A x \in Hosts : Other(x) \in Hosts
      BY HostFacts
    <2>6. \A f : Passed(f) => Passed(f)'
      BY <2>2, <2>4, <2>5 DEF Passed, Past, Serving
    <2>7. \A f \in Files : JobOf(f) \in queue' \cup later' /\ Twice(f)' => Passed(f)'
      BY <2>2, <2>6 DEF TwiceInv, Twice
    <2>8. \A x \in Hosts : up' /\ Busy(x)' /\ ~Busy(Other(x))' => Alone(x)'
      BY <2>2, <2>4, <2>5 DEF TwiceInv, Alone, Busy
    <2>9. queue' \cap later' = {}
      BY <2>2 DEF TwiceInv
    <2> QED
      BY <2>2, <2>4, <2>7, <2>8, <2>9 DEF TwiceInv
  <1>6. CASE vars' = vars
    BY <1>6 DEF vars, disk, net, hist, TwiceInv, Twice, Passed, Past, Serving, Alone, Busy
  <1> QED
    BY <1>1, <1>2, <1>3, <1>4, <1>5, <1>6 DEF Next

\* A file has its name only when the files before it in its work file have
\* arrived or were refused: the X. file that starts a command comes after the D.
\* files it reads.  And it arrives once, and once more at most for every time the
\* line dropped or a host stopped: that is what the answer to an end of file is
\* lost by.  So it is over any number of sessions cut short at any point, as long
\* as every file can be read, no disk fails and no crash catches RENAME copying a
\* file that others follow.
THEOREM InOrderAndOnce ==
  ASSUME OwnTemps, Orderly
  PROVE  Spec => []InOrder
  <1>1. Init => XferInv /\ OrderInv /\ TwiceInv
    <2>1. Init => OrderInv
      BY DEF Init, OrderInv, Fresh, Taking
    <2>2. Init => TwiceInv
      <3> SUFFICES ASSUME Init PROVE TwiceInv
        OBVIOUS
      <3>1. /\ MaxFaults \in Nat /\ MaxFaults - faults = 0 /\ ~up /\ queue \cap later = {}
            /\ \A f \in Files : delivered[f] = 0
        BY Constants DEF Init
      <3>2. \A h \in Hosts : p[h].state \notin Getting
        BY DEF Init, Fresh, Getting
      <3> QED
        BY <3>1, <3>2 DEF TwiceInv, Twice
    <2> QED
      BY <2>1, <2>2, InitXferInv
  <1>2. XferInv /\ OrderInv /\ TwiceInv /\ [Next]_vars => (XferInv /\ OrderInv /\ TwiceInv)'
    <2>1. XferInv /\ [Next]_vars => XferInv'
      BY XferInvKept
    <2>2. XferInv /\ OrderInv /\ [Next]_vars => OrderInv'
      BY OrderKept
    <2>3. XferInv /\ OrderInv /\ TwiceInv /\ [Next]_vars => TwiceInv'
      BY TwiceKept DEF Orderly
    <2> QED
      BY <2>1, <2>2, <2>3
  <1>3. XferInv /\ OrderInv /\ TwiceInv => InOrder
    <2> SUFFICES ASSUME XferInv, OrderInv, TwiceInv PROVE InOrder
      OBVIOUS
    <2>1. DataBeforeExec
      BY OrderSafe
    <2>2. DuplicateOnlyAfterLoss
      <3> SUFFICES ASSUME NEW f \in Files PROVE delivered[f] <= 1 + MaxFaults - faults
        BY DEF DuplicateOnlyAfterLoss
      <3>1. delivered[f] <= 1 + (MaxFaults - faults)
        BY DEF TwiceInv
      <3> QED
        BY <3>1, Known, HostFacts, Counters
    <2> QED
      BY <2>1, <2>2 DEF InOrder
  <1> QED
    BY <1>1, <1>2, <1>3, PTL DEF Spec
=============================================================================
