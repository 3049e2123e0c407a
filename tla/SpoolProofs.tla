---------------------------- MODULE SpoolProofs ----------------------------
(***************************************************************************)
(* Proofs about Spool: two jobs have names of their own, what uucico sends *)
(* is whole, and a queued job stays in the queue until it is sent, for any *)
(* number of uux programs, with programs that die and connections that     *)
(* drop.                                                                   *)
(***************************************************************************)
EXTENDS Spool, FiniteSetTheorems, TLAPS

Data == {"data", "exec"}
Late == {"close call", "queued", "dead"}  \* where there may be a call file
Early == {"open seq", "make seq", "lock seq", "read seq"}

\* Users whose number is in the sequence file; they alone have files.
Wrote == {u \in Users : seq[u] # Nil /\ pc[u] # "write seq"}

SeqType ==
    /\ seq \in [Users -> 0..(SeqLimit - 1) \cup {Nil}]
    /\ \A u \in Users : /\ pc[u] \in Early => seq[u] = Nil
                        /\ pc[u] \notin Early \cup {"dead"} => seq[u] # Nil
    /\ \A u \in Users : seqlock = u <=> pc[u] \in {"read seq", "write seq"}
    /\ \A u \in Users : pc[u] \in {"lock seq", "read seq", "write seq"} => seqfile # Missing

-----------------------------------------------------------------------------
(***************************************************************************)
(* Names.  As long as one program at most has taken its number from the    *)
(* clock, the numbers are one another's successors, and how far a number   *)
(* is behind the sequence file tells the programs apart.                   *)
(***************************************************************************)
OneClock == \A u, v \in byClock : u = v

Behind(n, m) == IF n > m THEN n - m ELSE n + SeqLimit - m
Row ==
    /\ Wrote # {} => seqfile \in 1..SeqLimit
    /\ \A u \in Wrote : Behind(seqfile, seq[u]) \in 1..Cardinality(Wrote)
    /\ \A u, v \in Wrote : Behind(seqfile, seq[u]) = Behind(seqfile, seq[v]) => u = v
    /\ Wrote # {} => \A u \in Users : pc[u] = "write seq" => seq[u] = seqfile % SeqLimit

\* Who has made the sequence file, or found it empty.
Makers ==
    /\ seqfile = Missing => byClock = {} /\ Wrote = {}
    /\ seqfile = Empty => byClock # {}
    /\ \A u \in Users : pc[u] = "make seq" => seqfile = Missing \/ byClock # {}
    /\ \A u \in byClock : pc[u] \notin {"open seq", "make seq"}
OneMaker ==
    /\ seqfile = Empty => /\ Wrote = {}
                          /\ \A u \in Users : pc[u] = "write seq" => u \in byClock
    /\ \A u \in byClock : pc[u] \in {"lock seq", "read seq"} => seqfile = Empty
NumberInv == Makers /\ (OneClock => OneMaker /\ Row)

-----------------------------------------------------------------------------
(***************************************************************************)
(* Files.  u is Apart if no other that has files has its name.             *)
(***************************************************************************)
Apart(u) == u \in Wrote /\ \A v \in Wrote \ {u} : JobNumber(v) # JobNumber(u)

FileOf(u, k) == file[k][JobNumber(u)]
Whole(u, k) == /\ FileOf(u, k) # Nil /\ FileOf(u, k).job = u
               /\ FileOf(u, k).whole /\ ~FileOf(u, k).open
Part(u, k)  == /\ FileOf(u, k) # Nil /\ FileOf(u, k).job = u
               /\ ~FileOf(u, k).whole /\ FileOf(u, k).open
HasNo(u, k) == FileOf(u, k) = Nil
SentOf(u, k) == \E r \in remote : r.kind = k /\ r.job = u

\* A file and what was sent belong to one that has this name.
Owned ==
    /\ \A k \in Kinds, n \in Names :
          file[k][n] # Nil => file[k][n].job \in Wrote /\ JobNumber(file[k][n].job) = n
    /\ \A n \in Names : file["call"][n] # Nil => pc[file["call"][n].job] \in Late
    /\ \A r \in remote : r.job \in Wrote /\ JobNumber(r.job) = r.name
    /\ work # Nil => \E u \in Wrote : JobNumber(u) = work /\ pc[u] \in Late

\* uux: which of its files there are at each step.
Progress(u) ==
    /\ pc[u] = "open exec" => HasNo(u, "exec") /\ HasNo(u, "data")
    /\ pc[u] = "open data" => Part(u, "exec") /\ HasNo(u, "data")
    /\ pc[u] = "close data" => Part(u, "exec") /\ Part(u, "data")
    /\ pc[u] = "close exec" => Part(u, "exec") /\ Whole(u, "data")
    /\ pc[u] \in {"open call", "close call"} => Whole(u, "exec") /\ Whole(u, "data")
    /\ pc[u] = "close call" => Part(u, "call")
    /\ pc[u] \in {"queued", "dead"} /\ ~HasNo(u, "call") =>
          ~FileOf(u, "call").open /\ (FileOf(u, "call").whole <=> pc[u] = "queued")
    /\ pc[u] \notin Late => HasNo(u, "call") /\ ~SentOf(u, "data") /\ ~SentOf(u, "exec")
    /\ pc[u] = "queued" => \A k \in Data : SentOf(u, k) \/ Whole(u, k)
    /\ pc[u] = "queued" => \A k \in Data : HasNo(u, k) \/ Whole(u, k)

\* uucico: what it does with u's call file.
AtWork(u) ==
    work = JobNumber(u) =>
        /\ daemon = "read" => ~HasNo(u, "call")
        /\ lines # <<>> => pc[u] = "queued"
        /\ daemon = "send" /\ pc[u] = "close call" => u \in peeked
        /\ daemon = "send" /\ pc[u] = "queued" /\ u \notin peeked =>
              /\ lines = <<>> => \A k \in Data : SentOf(u, k)
              /\ lines = <<"exec">> => SentOf(u, "data")
InQueue(u) ==
    pc[u] = "queued" /\ u \notin peeked => Sent(u) \/ ~HasNo(u, "call")

DaemonOK ==
    /\ daemon \in {"read", "send"} <=> work # Nil
    /\ lines \in {<<>>, <<"exec">>, <<"data", "exec">>}
    /\ lines # <<>> => daemon = "send"

JobInv(u) ==
    Apart(u) => /\ Progress(u) /\ AtWork(u) /\ InQueue(u)
                /\ \A r \in remote : r.job = u => r.whole

FileInv == SpoolTypeOK /\ SeqType /\ Owned /\ DaemonOK /\ \A u \in Users : JobInv(u)

-----------------------------------------------------------------------------
LEMMA ConstantFacts ==
    /\ FirstSeq \in Nat /\ Now \in Nat /\ SeqLimit \in Nat \ {0} /\ Base \in Nat \ {0}
    /\ Nil \notin Users /\ Nil \notin Nat /\ Nil \notin SpoolFile
    /\ Missing \notin Nat /\ Empty \notin Nat /\ Missing # Empty /\ SpoolFaults \in Nat
    /\ IsFiniteSet(Users)
BY SpoolAssumption

LEMMA NumberFacts ==
    ASSUME SeqType, NEW u \in Users, seq[u] # Nil
    PROVE  seq[u] \in 0..(SeqLimit - 1) /\ JobNumber(u) \in Names
<1>1. seq[u] \in 0..(SeqLimit - 1)
  BY DEF SeqType
<1>2. seq[u] \in Nat /\ Base \in Nat \ {0}
  BY <1>1, ConstantFacts
<1>3. seq[u] % Base \in 0..(Base - 1)
  BY <1>2
<1> QED BY <1>1, <1>3 DEF JobNumber, Names

LEMMA InitFileInv == SpoolInit => FileInv
<1> SUFFICES ASSUME SpoolInit PROVE FileInv
  OBVIOUS
<1>0. lines = <<>> /\ spoolfaults = 0
  BY DEF SpoolInit
<1>1. Wrote = {}
  BY DEF SpoolInit, Wrote
<1>2. SpoolTypeOK
  <2>1. seqfile \in 0..SeqLimit \cup {FirstSeq, Missing, Empty} /\ seqlock \in Users \cup {Nil}
        /\ pc \in [Users -> Steps \cup {"queued", "dead"}] /\ seq \in [Users -> Nat \cup {Nil}]
    BY DEF SpoolInit, Steps
  <2>2. file \in [Kinds -> [Names -> SpoolFile \cup {Nil}]]
    BY DEF SpoolInit
  <2>3. lines \in Seq({"data", "exec"}) /\ spoolfaults \in 0..SpoolFaults
    BY <1>0, ConstantFacts
  <2> QED BY <2>1, <2>2, <2>3 DEF SpoolInit, SpoolTypeOK
<1>3. SeqType
  BY ConstantFacts DEF SpoolInit, SeqType, Early
<1>4. Owned /\ DaemonOK
  BY DEF SpoolInit, Owned, DaemonOK, Kinds
<1>5. \A u \in Users : JobInv(u)
  BY <1>1 DEF JobInv, Apart
<1> QED BY <1>2, <1>3, <1>4, <1>5 DEF FileInv

\* A job whose files, and what was sent of it, stay as they are.
LEMMA KeptJob ==
    ASSUME NEW v \in Users, Progress(v), InQueue(v), \A r \in remote : r.job = v => r.whole,
           pc'[v] = pc[v], JobNumber(v)' = JobNumber(v),
           \A k \in Kinds : file'[k][JobNumber(v)] = file[k][JobNumber(v)],
           peeked \subseteq peeked', \A r \in remote' : r.job = v => r \in remote,
           remote \subseteq remote', AtWork(v)'
    PROVE  JobInv(v)'
<1>1. /\ file'["data"][JobNumber(v)] = file["data"][JobNumber(v)]
      /\ file'["exec"][JobNumber(v)] = file["exec"][JobNumber(v)]
      /\ file'["call"][JobNumber(v)] = file["call"][JobNumber(v)]
  BY DEF Kinds
<1>2. \A j \in Data : /\ SentOf(v, j)' <=> SentOf(v, j)
                      /\ Whole(v, j)' <=> Whole(v, j)
                      /\ HasNo(v, j)' <=> HasNo(v, j)
  BY <1>1 DEF Whole, Part, HasNo, FileOf, SentOf, Data
<1>3. /\ Part(v, "exec")' <=> Part(v, "exec")
      /\ Part(v, "data")' <=> Part(v, "data")
      /\ Part(v, "call")' <=> Part(v, "call")
      /\ HasNo(v, "call")' <=> HasNo(v, "call")
  BY <1>1 DEF Whole, Part, HasNo, FileOf
<1>4. Progress(v)'
  BY <1>1, <1>2, <1>3 DEF Progress, FileOf, Data
<1>5. InQueue(v)'
  BY <1>1, <1>2, <1>3 DEF InQueue, Sent, SentOf
<1> QED BY <1>4, <1>5 DEF JobInv

LEMMA SameJob ==
    ASSUME NEW v \in Users, Progress(v), AtWork(v), InQueue(v),
           \A r \in remote : r.job = v => r.whole,
           pc'[v] = pc[v], JobNumber(v)' = JobNumber(v),
           \A k \in Kinds : file'[k][JobNumber(v)] = file[k][JobNumber(v)],
           UNCHANGED <<daemon, work, lines, remote, peeked>>
    PROVE  JobInv(v)'
<1>1. HasNo(v, "call")' <=> HasNo(v, "call")
  BY DEF HasNo, FileOf, Kinds
<1>2. AtWork(v)'
  BY <1>1 DEF AtWork, SentOf
<1> QED BY <1>2, KeptJob

\* The programs that have no file step on nobody's toes.
LEMMA NoFileStep ==
    ASSUME FileInv, Wrote' = Wrote, UNCHANGED <<file, uucico>>,
           \A v \in Wrote : pc'[v] = pc[v] /\ seq'[v] = seq[v]
    PROVE  Owned' /\ DaemonOK' /\ \A v \in Users : JobInv(v)'
<1>1. \A v \in Wrote : JobNumber(v)' = JobNumber(v)
  BY DEF JobNumber
<1>2. Owned'
  <2>1. \A n \in Names : file["call"][n] # Nil => file["call"][n].job \in Wrote
    BY DEF FileInv, Owned, Kinds
  <2> QED BY <1>1, <2>1 DEF FileInv, Owned, uucico
<1>3. DaemonOK'
  BY DEF FileInv, DaemonOK, uucico
<1>4. ASSUME NEW v \in Users, Apart(v)' PROVE JobInv(v)'
  <2>1. Apart(v) /\ JobNumber(v)' = JobNumber(v) /\ v \in Wrote
    BY <1>1, <1>4 DEF Apart
  <2>2. Progress(v) /\ AtWork(v) /\ InQueue(v) /\ \A r \in remote : r.job = v => r.whole
    BY <2>1 DEF FileInv, JobInv
  <2>3. pc'[v] = pc[v] /\ file' = file /\ UNCHANGED <<daemon, work, lines, remote, peeked>>
    BY <2>1 DEF uucico
  <2> QED BY <2>1, <2>2, <2>3, SameJob
<1>5. \A v \in Users : JobInv(v)'
  BY <1>4 DEF JobInv
<1> QED BY <1>2, <1>3, <1>5

LEMMA OpenSeqStep == ASSUME FileInv, NEW u \in Users, OpenSeq(u) PROVE FileInv'
<1>1. /\ pc[u] = "open seq" /\ UNCHANGED <<seqVars, file, uucico, spoolfaults>>
      /\ pc' = [pc EXCEPT ![u] = IF seqfile = Missing THEN "make seq" ELSE "lock seq"]
  BY DEF OpenSeq, Goto
<1>2. pc'[u] \in {"make seq", "lock seq"} /\ (pc'[u] = "lock seq" => seqfile # Missing)
      /\ \A v \in Users \ {u} : pc'[v] = pc[v]
  BY <1>1 DEF FileInv, SpoolTypeOK
<1>3. seq[u] = Nil
  BY <1>1 DEF FileInv, SeqType, Early
<1>4. SpoolTypeOK'
  BY <1>1 DEF FileInv, SpoolTypeOK, seqVars, uucico, Steps
<1>5. SeqType'
  BY <1>1, <1>2, <1>3 DEF FileInv, SeqType, seqVars, Early
<1>6. Wrote' = Wrote /\ \A v \in Wrote : pc'[v] = pc[v] /\ seq'[v] = seq[v]
  BY <1>1, <1>2, <1>3 DEF Wrote, seqVars
<1> QED BY <1>1, <1>4, <1>5, <1>6, NoFileStep DEF FileInv

LEMMA MakeSeqStep == ASSUME FileInv, NEW u \in Users, MakeSeq(u) PROVE FileInv'
<1>1. /\ pc[u] = "make seq" /\ pc' = [pc EXCEPT ![u] = "lock seq"] /\ seqfile' = Empty
      /\ byClock' = byClock \cup {u} /\ UNCHANGED <<seqlock, seq, file, uucico, spoolfaults>>
  BY DEF MakeSeq, Goto
<1>2. pc'[u] = "lock seq" /\ \A v \in Users \ {u} : pc'[v] = pc[v]
  BY <1>1 DEF FileInv, SpoolTypeOK
<1>3. seq[u] = Nil
  BY <1>1 DEF FileInv, SeqType, Early
<1>4. SpoolTypeOK'
  BY <1>1 DEF FileInv, SpoolTypeOK, uucico, Steps
<1>5. SeqType'
  BY <1>1, <1>2, <1>3, ConstantFacts DEF FileInv, SeqType, Early
<1>6. Wrote' = Wrote /\ \A v \in Wrote : pc'[v] = pc[v] /\ seq'[v] = seq[v]
  BY <1>1, <1>2, <1>3 DEF Wrote
<1> QED BY <1>1, <1>4, <1>5, <1>6, NoFileStep DEF FileInv

LEMMA LockSeqStep == ASSUME FileInv, NEW u \in Users, LockSeq(u) PROVE FileInv'
<1>1. /\ pc[u] = "lock seq" /\ pc' = [pc EXCEPT ![u] = "read seq"] /\ seqlock = Nil
      /\ seqlock' = u /\ UNCHANGED <<seqfile, seq, byClock, file, uucico, spoolfaults>>
  BY DEF LockSeq, Goto
<1>2. pc'[u] = "read seq" /\ \A v \in Users \ {u} : pc'[v] = pc[v]
  BY <1>1 DEF FileInv, SpoolTypeOK
<1>3. seq[u] = Nil
  BY <1>1 DEF FileInv, SeqType, Early
<1>4. SpoolTypeOK'
  BY <1>1 DEF FileInv, SpoolTypeOK, uucico, Steps
<1>5. SeqType'
  BY <1>1, <1>2, <1>3, ConstantFacts DEF FileInv, SeqType, Early
<1>6. Wrote' = Wrote /\ \A v \in Wrote : pc'[v] = pc[v] /\ seq'[v] = seq[v]
  BY <1>1, <1>2, <1>3 DEF Wrote
<1> QED BY <1>1, <1>4, <1>5, <1>6, NoFileStep DEF FileInv

\* The number read: the clock's or the file's.
ReadDoes(u) ==
    /\ pc[u] = "read seq" /\ pc' = [pc EXCEPT ![u] = "write seq"] /\ seq[u] = Nil
    /\ pc'[u] = "write seq" /\ \A v \in Users \ {u} : pc'[v] = pc[v] /\ seq'[v] = seq[v]
    /\ seq' \in [Users -> 0..(SeqLimit - 1) \cup {Nil}]
    /\ seq'[u] = (IF u \in byClock \/ seqfile = Empty THEN Now ELSE seqfile) % SeqLimit
    /\ seq'[u] \in 0..(SeqLimit - 1) /\ seq'[u] # Nil
    /\ byClock' = IF u \in byClock \/ seqfile = Empty THEN byClock \cup {u} ELSE byClock
    /\ UNCHANGED <<seqfile, seqlock, file, uucico, spoolfaults>>

LEMMA ReadFacts == ASSUME FileInv, NEW u \in Users, ReadSeq(u) PROVE ReadDoes(u)
<1> DEFINE n == IF u \in byClock \/ seqfile = Empty THEN Now ELSE seqfile
<1>1. /\ pc[u] = "read seq" /\ pc' = [pc EXCEPT ![u] = "write seq"]
      /\ seq' = [seq EXCEPT ![u] = n % SeqLimit]
      /\ byClock' = IF u \in byClock \/ seqfile = Empty THEN byClock \cup {u} ELSE byClock
      /\ UNCHANGED <<seqfile, seqlock, file, uucico, spoolfaults>>
  BY DEF ReadSeq, Goto
<1>2. seqfile # Missing /\ seq[u] = Nil
  BY <1>1 DEF FileInv, SeqType, Early
<1>3. n \in Nat
  BY <1>2, ConstantFacts DEF FileInv, SpoolTypeOK
<1> HIDE DEF n
<1>4. n % SeqLimit \in 0..(SeqLimit - 1)
  BY <1>3, ConstantFacts
<1>5. n % SeqLimit # Nil
  BY <1>4, ConstantFacts
<1>6. seq' \in [Users -> 0..(SeqLimit - 1) \cup {Nil}] /\ seq'[u] = n % SeqLimit
      /\ \A v \in Users \ {u} : pc'[v] = pc[v] /\ seq'[v] = seq[v]
  BY <1>1, <1>4 DEF FileInv, SpoolTypeOK, SeqType
<1>7. seq'[u] = (IF u \in byClock \/ seqfile = Empty THEN Now ELSE seqfile) % SeqLimit
  BY <1>6 DEF n
<1>8. seq'[u] \in 0..(SeqLimit - 1) /\ seq'[u] # Nil
  BY <1>4, <1>5, <1>6
<1>9. pc'[u] = "write seq"
  BY <1>1 DEF FileInv, SpoolTypeOK
<1> QED BY <1>1, <1>2, <1>6, <1>7, <1>8, <1>9 DEF ReadDoes

LEMMA ReadSeqStep == ASSUME FileInv, NEW u \in Users, ReadSeq(u) PROVE FileInv'
<1>0. ReadDoes(u)
  BY ReadFacts
<1> USE DEF ReadDoes
<1>4. SpoolTypeOK'
  <2>1. seq' \in [Users -> Nat \cup {Nil}] /\ byClock' \subseteq Users
    <3>1. 0..(SeqLimit - 1) \subseteq Nat
      BY ConstantFacts
    <3>2. seq' \in [Users -> 0..(SeqLimit - 1) \cup {Nil}] /\ byClock' \subseteq byClock \cup {u}
      BY <1>0
    <3> QED BY <3>1, <3>2 DEF FileInv, SpoolTypeOK
  <2>2. pc' \in [Users -> Steps \cup {"queued", "dead"}]
    BY <1>0 DEF FileInv, SpoolTypeOK, Steps
  <2> QED BY <2>1, <2>2, <1>0 DEF FileInv, SpoolTypeOK, uucico
<1>5. SeqType'
  BY <1>0 DEF FileInv, SeqType, Early
<1>6. Wrote' = Wrote /\ \A v \in Wrote : pc'[v] = pc[v] /\ seq'[v] = seq[v]
  BY <1>0 DEF Wrote
<1> QED BY <1>4, <1>5, <1>6, <1>0, NoFileStep DEF FileInv

\* A program whose number is in the sequence file, and has no file yet.
WriteDoes(u) ==
    /\ pc[u] = "write seq" /\ pc' = [pc EXCEPT ![u] = "open exec"]
    /\ pc'[u] = "open exec" /\ \A v \in Users \ {u} : pc'[v] = pc[v]
    /\ seqlock = u /\ seqlock' = Nil /\ seqfile' = seq[u] + 1
    /\ seq[u] \in 0..(SeqLimit - 1) /\ seq[u] # Nil
    /\ Wrote' = Wrote \cup {u} /\ u \notin Wrote
    /\ UNCHANGED <<seq, byClock, file, uucico, spoolfaults>>

LEMMA WriteFacts == ASSUME FileInv, NEW u \in Users, WriteSeq(u) PROVE WriteDoes(u)
<1>1. /\ pc[u] = "write seq" /\ pc' = [pc EXCEPT ![u] = "open exec"]
      /\ seqlock' = Nil /\ seqfile' = seq[u] + 1
      /\ UNCHANGED <<seq, byClock, file, uucico, spoolfaults>>
  BY DEF WriteSeq, Goto
<1>2. pc'[u] = "open exec" /\ \A v \in Users \ {u} : pc'[v] = pc[v]
  BY <1>1 DEF FileInv, SpoolTypeOK
<1>3. seq[u] # Nil /\ seqlock = u /\ seq[u] \in 0..(SeqLimit - 1)
  BY <1>1 DEF FileInv, SeqType, Early
<1>4. Wrote' = Wrote \cup {u} /\ u \notin Wrote
  BY <1>1, <1>2, <1>3 DEF Wrote
<1> QED BY <1>1, <1>2, <1>3, <1>4 DEF WriteDoes

LEMMA WriteSeqStep == ASSUME FileInv, NEW u \in Users, WriteSeq(u) PROVE FileInv'
<1>0. WriteDoes(u)
  BY WriteFacts
<1>2. seqfile' = seq[u] + 1 /\ seq[u] \in 0..(SeqLimit - 1)
  BY <1>0 DEF WriteDoes
<1> USE DEF WriteDoes
<1>1. SpoolTypeOK'
  <2>1. seqfile' \in 0..SeqLimit
    BY <1>2, ConstantFacts
  <2>2. pc' \in [Users -> Steps \cup {"queued", "dead"}]
    BY <1>0 DEF FileInv, SpoolTypeOK, Steps
  <2> QED BY <1>0, <2>1, <2>2 DEF FileInv, SpoolTypeOK, uucico
<1>9. SeqType'
  <2>1. seqfile' # Missing
    <3>1. seqfile' \in Nat
      BY <1>2, ConstantFacts
    <3> QED BY <3>1, ConstantFacts
  <2> QED BY <2>1, <1>0, ConstantFacts DEF FileInv, SeqType, Early
<1>3. (\A v \in Users : JobNumber(v)' = JobNumber(v)) /\ Wrote \subseteq Users
  BY <1>0 DEF JobNumber, Wrote
<1>4. Owned'
  <2>1. \A v \in Wrote : v \in Wrote' /\ JobNumber(v)' = JobNumber(v) /\ pc'[v] = pc[v]
    BY <1>0, <1>3
  <2>2. file' = file /\ remote' = remote /\ work' = work
    BY <1>0 DEF uucico
  <2>3. \A n \in Names : file["call"][n] # Nil => file["call"][n].job \in Wrote
    BY DEF FileInv, Owned, Kinds
  <2> HIDE DEF WriteDoes
  <2> QED BY <2>1, <2>2, <2>3 DEF FileInv, Owned
<1>5. DaemonOK'
  BY <1>0 DEF FileInv, DaemonOK, uucico
<1>6. ASSUME NEW v \in Users \ {u}, Apart(v)' PROVE JobInv(v)'
  <2>1. Apart(v) /\ pc'[v] = pc[v]
    <3>1. \A x \in Wrote \ {v} : JobNumber(x)' # JobNumber(v)'
      BY <1>0, <1>6 DEF Apart
    <3> QED BY <1>0, <1>3, <1>6, <3>1 DEF Apart
  <2>2. Progress(v) /\ AtWork(v) /\ InQueue(v) /\ \A r \in remote : r.job = v => r.whole
    BY <2>1 DEF FileInv, JobInv
  <2>3. file' = file /\ UNCHANGED <<daemon, work, lines, remote, peeked>>
    BY <1>0 DEF uucico
  <2> HIDE DEF WriteDoes
  <2> QED BY <1>3, <2>1, <2>2, <2>3, SameJob
<1>7. ASSUME Apart(u)' PROVE JobInv(u)'
  <2>1. \A v \in Wrote : JobNumber(v) # JobNumber(u)
    <3>1. \A x \in Wrote : JobNumber(x)' # JobNumber(u)'
      BY <1>0, <1>7 DEF Apart
    <3> QED BY <1>3, <3>1
  <2>2. JobNumber(u) \in Names
    BY <1>0, NumberFacts DEF FileInv
  <2>3. \A k \in Kinds : file[k][JobNumber(u)] = Nil
    BY <2>1, <2>2 DEF FileInv, Owned
  <2>4. (\A r \in remote : r.job # u) /\ work # JobNumber(u)
    <3>1. \A r \in remote : r.job \in Wrote
      BY DEF FileInv, Owned
    <3>2. work # Nil => \E v \in Wrote : JobNumber(v) = work
      BY DEF FileInv, Owned
    <3>3. JobNumber(u) # Nil
      BY <2>2, ConstantFacts DEF Names
    <3> QED BY <2>1, <3>1, <3>2, <3>3, <1>0
  <2>5. Progress(u)'
    BY <1>3, <2>3, <2>4, <1>0 DEF Progress, HasNo, FileOf, SentOf, Kinds, Late, uucico
  <2>6. AtWork(u)' /\ InQueue(u)'
    BY <1>3, <2>4, <1>0 DEF AtWork, InQueue, uucico
  <2> QED BY <2>4, <2>5, <2>6, <1>0 DEF JobInv, uucico
<1> QED BY <1>1, <1>4, <1>5, <1>6, <1>7, <1>9 DEF FileInv, JobInv

-----------------------------------------------------------------------------
\* A step of do_remote: one file of u becomes f.
Filing == {"open exec", "open data", "close data", "close exec", "open call", "close call"}
Files(u, next, k, f) ==
    /\ pc[u] \in Filing /\ pc' = [pc EXCEPT ![u] = next]
    /\ file' = [file EXCEPT ![k][JobNumber(u)] = f]
    /\ UNCHANGED <<seqVars, uucico, spoolfaults>>
Filed(u, next, k, f) ==
    /\ u \in Wrote /\ JobNumber(u) \in Names
    /\ pc'[u] = next /\ \A v \in Users \ {u} : pc'[v] = pc[v]
    /\ \A j \in Kinds, n \in Names :
          file'[j][n] = IF j = k /\ n = JobNumber(u) THEN f ELSE file[j][n]
    /\ \A v : JobNumber(v)' = JobNumber(v)

LEMMA FiledFacts ==
    ASSUME FileInv, NEW u \in Users, NEW next, NEW k \in Kinds, NEW f, Files(u, next, k, f)
    PROVE  Filed(u, next, k, f)
<1>1. u \in Wrote /\ seq[u] # Nil
  BY DEF Files, Filing, FileInv, SeqType, Early, Wrote
<1>2. JobNumber(u) \in Names
  BY <1>1, NumberFacts DEF FileInv
<1>3. pc'[u] = next /\ \A v \in Users \ {u} : pc'[v] = pc[v]
  BY DEF Files, FileInv, SpoolTypeOK
<1>4. \A j \in Kinds, n \in Names :
          file'[j][n] = IF j = k /\ n = JobNumber(u) THEN f ELSE file[j][n]
  BY <1>2 DEF Files, FileInv, SpoolTypeOK
<1>5. \A v : JobNumber(v)' = JobNumber(v)
  BY DEF Files, JobNumber, seqVars
<1> QED BY <1>1, <1>2, <1>3, <1>4, <1>5 DEF Filed

LEMMA FileStep ==
    ASSUME FileInv, NEW u \in Users, NEW next \in Filing \cup {"queued"}, NEW k \in Kinds,
           NEW f \in SpoolFile, f.job = u, Files(u, next, k, f), pc[u] \in Late \/ k = "call" => next \in Late,
           Apart(u) => Progress(u)' /\ AtWork(u)' /\ InQueue(u)'
    PROVE  FileInv'
<1>0. Filed(u, next, k, f) /\ UNCHANGED <<seqVars, uucico, spoolfaults>>
  BY FiledFacts DEF Files
<1>1. next \in Steps \cup {"queued", "dead"} /\ next \notin Early \cup {"dead", "write seq", "read seq", "lock seq"}
      /\ pc[u] \notin Early \cup {"dead", "write seq", "read seq", "lock seq"}
  BY DEF Files, Filing, Steps, Early
<1>2. SpoolTypeOK'
  <2>1. pc' \in [Users -> Steps \cup {"queued", "dead"}]
    BY <1>1 DEF Files, FileInv, SpoolTypeOK
  <2>2. file' \in [Kinds -> [Names -> SpoolFile \cup {Nil}]]
    BY <1>0 DEF Files, Filed, FileInv, SpoolTypeOK
  <2> QED BY <1>0, <2>1, <2>2 DEF FileInv, SpoolTypeOK, seqVars, uucico
<1>3. SeqType'
  BY <1>0, <1>1 DEF Filed, FileInv, SeqType, seqVars, Early
<1>4. Wrote' = Wrote
  BY <1>0, <1>1 DEF Filed, Wrote, seqVars
<1>5. Owned'
  <2>1. \A j \in Kinds, n \in Names :
          file'[j][n] # Nil => file'[j][n].job \in Wrote /\ JobNumber(file'[j][n].job) = n
    BY <1>0 DEF Filed, FileInv, Owned
  <2>4. \A n \in Names : file'["call"][n] # Nil => pc'[file'["call"][n].job] \in Late
    <3>1. "call" \in Kinds /\ Wrote \subseteq Users
      BY DEF Kinds, Wrote
    <3> QED BY <1>0, <3>1 DEF Filed, FileInv, Owned
  <2>2. \A v \in Wrote : pc[v] \in Late => pc'[v] \in Late
    BY <1>0 DEF Filed, Wrote
  <2>3. remote' = remote /\ work' = work
    BY <1>0 DEF uucico
  <2> QED BY <1>0, <1>4, <2>1, <2>2, <2>3, <2>4 DEF Filed, FileInv, Owned
<1>6. DaemonOK'
  BY <1>0 DEF FileInv, DaemonOK, uucico
<1>7. ASSUME NEW v \in Users \ {u}, Apart(v)' PROVE JobInv(v)'
  <2>1. Apart(v) /\ pc'[v] = pc[v]
    BY <1>0, <1>4, <1>7 DEF Filed, Apart
  <2>2. Progress(v) /\ AtWork(v) /\ InQueue(v) /\ \A r \in remote : r.job = v => r.whole
    BY <2>1 DEF FileInv, JobInv
  <2>3. JobNumber(v) \in Names /\ JobNumber(v) # JobNumber(u)
    BY <1>0, <2>1, NumberFacts DEF FileInv, Apart, Wrote, Filed
  <2>4. \A j \in Kinds : file'[j][JobNumber(v)] = file[j][JobNumber(v)]
    BY <1>0, <2>3 DEF Filed
  <2>5. JobNumber(v)' = JobNumber(v) /\ UNCHANGED <<daemon, work, lines, remote, peeked>>
    BY <1>0 DEF Filed, uucico
  <2> QED BY <2>1, <2>2, <2>4, <2>5, SameJob
<1>8. ASSUME Apart(u)' PROVE JobInv(u)'
  <2>1. Apart(u)
    BY <1>0, <1>4, <1>8 DEF Filed, Apart
  <2> QED BY <1>0, <2>1 DEF FileInv, JobInv, uucico
<1> QED BY <1>2, <1>3, <1>5, <1>6, <1>7, <1>8 DEF FileInv, JobInv

LEMMA FileFacts ==
    ASSUME NEW u \in Users
    PROVE  /\ [job |-> u, whole |-> FALSE, open |-> TRUE] \in SpoolFile
           /\ [job |-> u, whole |-> TRUE, open |-> FALSE] \in SpoolFile
           /\ [job |-> u, whole |-> FALSE, open |-> TRUE] # Nil
           /\ [job |-> u, whole |-> TRUE, open |-> FALSE] # Nil
<1>1. /\ [job |-> u, whole |-> FALSE, open |-> TRUE] \in SpoolFile
      /\ [job |-> u, whole |-> TRUE, open |-> FALSE] \in SpoolFile
  BY DEF SpoolFile
<1> QED BY <1>1, ConstantFacts

\* What u has after such a step.
AfterFile(u, next, k, f) ==
    /\ f.whole /\ ~f.open => Whole(u, k)'
    /\ ~f.whole /\ f.open => Part(u, k)'
    /\ \A j \in Kinds \ {k} : /\ Whole(u, j)' <=> Whole(u, j)
                              /\ Part(u, j)' <=> Part(u, j)
                              /\ HasNo(u, j)' <=> HasNo(u, j)
    /\ \A j \in Data : SentOf(u, j)' <=> SentOf(u, j)
    /\ pc'[u] = next /\ JobNumber(u)' = JobNumber(u)
    /\ UNCHANGED <<daemon, work, lines, remote, peeked>>

LEMMA HasAfter ==
    ASSUME FileInv, NEW u \in Users, NEW next, NEW k \in Kinds, NEW f \in SpoolFile,
           Files(u, next, k, f), f.job = u
    PROVE  AfterFile(u, next, k, f)
<1>1. Filed(u, next, k, f)
  BY FiledFacts
<1>2. f # Nil
  BY ConstantFacts
<1>3. file'[k][JobNumber(u)] = f /\ pc'[u] = next /\ JobNumber(u)' = JobNumber(u)
      /\ \A j \in Kinds \ {k} : file'[j][JobNumber(u)] = file[j][JobNumber(u)]
  BY <1>1 DEF Filed
<1>4. UNCHANGED <<daemon, work, lines, remote, peeked>>
  BY DEF Files, uucico
<1>5. f.whole \in BOOLEAN /\ f.open \in BOOLEAN
  BY DEF SpoolFile
<1> QED BY <1>2, <1>3, <1>4, <1>5 DEF AfterFile, Whole, Part, HasNo, FileOf, SentOf

LEMMA FilesStep ==
    ASSUME FileInv, NEW u \in Users,
           OpenExec(u) \/ OpenData(u) \/ CloseData(u) \/ CloseExec(u) \/ OpenCall(u) \/ CloseCall(u)
    PROVE  FileInv'
<1> DEFINE new  == [job |-> u, whole |-> FALSE, open |-> TRUE]
           done == [job |-> u, whole |-> TRUE, open |-> FALSE]
<1>1. new \in SpoolFile /\ done \in SpoolFile /\ new # Nil /\ done # Nil
      /\ new.job = u /\ done.job = u /\ ~new.whole /\ new.open /\ done.whole /\ ~done.open
  BY FileFacts
<1>2. Apart(u) => Progress(u) /\ AtWork(u) /\ InQueue(u)
  BY DEF FileInv, JobInv
<1>3. OpenExec(u) => Files(u, "open data", "exec", new) /\ pc[u] = "open exec"
  BY DEF OpenExec, Files, Goto, Open, Filing
<1>4. OpenData(u) => Files(u, "close data", "data", new) /\ pc[u] = "open data"
  BY DEF OpenData, Files, Goto, Open, Filing
<1>5. CloseData(u) => Files(u, "close exec", "data", done) /\ pc[u] = "close data"
  BY DEF CloseData, Files, Goto, Close, Filing
<1>6. CloseExec(u) => Files(u, "open call", "exec", done) /\ pc[u] = "close exec"
  BY DEF CloseExec, Files, Goto, Close, Filing
<1>7. OpenCall(u) => Files(u, "close call", "call", new) /\ pc[u] = "open call"
  BY DEF OpenCall, Files, Goto, Open, Filing
<1>8. CloseCall(u) => Files(u, "queued", "call", done) /\ pc[u] = "close call"
  BY DEF CloseCall, Files, Goto, Close, Filing
<1>9. ASSUME OpenExec(u) PROVE FileInv'
  <2>1. Files(u, "open data", "exec", new) /\ pc[u] = "open exec" /\ "exec" \in Kinds
    BY <1>3, <1>9 DEF Kinds
  <2> HIDE DEF new, done
  <2>2. AfterFile(u, "open data", "exec", new)
    BY <1>1, <2>1, HasAfter
  <2>3. Apart(u) => Progress(u)' /\ AtWork(u)' /\ InQueue(u)'
    BY <1>1, <1>2, <2>1, <2>2 DEF AfterFile, Progress, AtWork, InQueue, Late, Kinds, Data
  <2> QED BY <1>1, <2>1, <2>3, FileStep DEF Filing, Late
<1>10. ASSUME OpenData(u) PROVE FileInv'
  <2>1. Files(u, "close data", "data", new) /\ pc[u] = "open data" /\ "data" \in Kinds
    BY <1>4, <1>10 DEF Kinds
  <2> HIDE DEF new, done
  <2>2. AfterFile(u, "close data", "data", new)
    BY <1>1, <2>1, HasAfter
  <2>3. Apart(u) => Progress(u)' /\ AtWork(u)' /\ InQueue(u)'
    BY <1>1, <1>2, <2>1, <2>2 DEF AfterFile, Progress, AtWork, InQueue, Late, Kinds, Data
  <2> QED BY <1>1, <2>1, <2>3, FileStep DEF Filing, Late
<1>11. ASSUME CloseData(u) PROVE FileInv'
  <2>1. Files(u, "close exec", "data", done) /\ pc[u] = "close data" /\ "data" \in Kinds
    BY <1>5, <1>11 DEF Kinds
  <2> HIDE DEF new, done
  <2>2. AfterFile(u, "close exec", "data", done)
    BY <1>1, <2>1, HasAfter
  <2>3. Apart(u) => Progress(u)' /\ AtWork(u)' /\ InQueue(u)'
    BY <1>1, <1>2, <2>1, <2>2 DEF AfterFile, Progress, AtWork, InQueue, Late, Kinds, Data
  <2> QED BY <1>1, <2>1, <2>3, FileStep DEF Filing, Late
<1>12. ASSUME CloseExec(u) PROVE FileInv'
  <2>1. Files(u, "open call", "exec", done) /\ pc[u] = "close exec" /\ "exec" \in Kinds
    BY <1>6, <1>12 DEF Kinds
  <2> HIDE DEF new, done
  <2>2. AfterFile(u, "open call", "exec", done)
    BY <1>1, <2>1, HasAfter
  <2>3. Apart(u) => Progress(u)' /\ AtWork(u)' /\ InQueue(u)'
    BY <1>1, <1>2, <2>1, <2>2 DEF AfterFile, Progress, AtWork, InQueue, Late, Kinds, Data
  <2> QED BY <1>1, <2>1, <2>3, FileStep DEF Filing, Late
<1>13. ASSUME OpenCall(u) PROVE FileInv'
  <2>1. Files(u, "close call", "call", new) /\ pc[u] = "open call" /\ "call" \in Kinds
    BY <1>7, <1>13 DEF Kinds
  <2> HIDE DEF new, done
  <2>2. AfterFile(u, "close call", "call", new)
    BY <1>1, <2>1, HasAfter
  <2>3. Apart(u) => work # JobNumber(u)
    <3>1. JobNumber(u) # Nil
      <4>1. Filed(u, "close call", "call", new)
        BY <2>1, FiledFacts
      <4>2. JobNumber(u) \in Names
        BY <4>1 DEF Filed
      <4> QED BY <4>2, ConstantFacts DEF Names
    <3>2. work # Nil => \E v \in Wrote : JobNumber(v) = work /\ pc[v] \in Late
      BY DEF FileInv, Owned
    <3> QED BY <2>1, <3>1, <3>2 DEF Apart, Late
  <2>4. Apart(u) => Progress(u)' /\ AtWork(u)' /\ InQueue(u)'
    BY <1>1, <1>2, <2>1, <2>2, <2>3 DEF AfterFile, Progress, AtWork, InQueue, Late, Kinds, Data
  <2> QED BY <1>1, <2>1, <2>4, FileStep DEF Filing, Late
<1>14. ASSUME CloseCall(u) PROVE FileInv'
  <2>1. Files(u, "queued", "call", done) /\ pc[u] = "close call" /\ "call" \in Kinds
    BY <1>8, <1>14 DEF Kinds
  <2> HIDE DEF new, done
  <2>2. AfterFile(u, "queued", "call", done)
    BY <1>1, <2>1, HasAfter
  <2>3. /\ pc'[u] = "queued" /\ ~HasNo(u, "call")'
        /\ ~file'["call"][JobNumber(u)'].open /\ file'["call"][JobNumber(u)'].whole
    BY <1>1, <2>2 DEF AfterFile, Whole, Part, HasNo, FileOf
  <2>4. \A k \in Data : Whole(u, k)' <=> Whole(u, k)
    BY <2>2 DEF AfterFile, Data, Kinds
  <2>5. Apart(u) => Whole(u, "data") /\ Whole(u, "exec")
    BY <1>2, <2>1 DEF Progress
  <2>6. Apart(u) => Progress(u)'
    BY <2>3, <2>4, <2>5 DEF Progress, FileOf, Data, Late
  <2>7. Apart(u) => AtWork(u)' /\ InQueue(u)'
    BY <1>2, <2>1, <2>2, <2>3 DEF AfterFile, AtWork, InQueue
  <2> QED BY <1>1, <2>1, <2>6, <2>7, FileStep DEF Filing, Late
<1> QED BY <1>9, <1>10, <1>11, <1>12, <1>13, <1>14

\* uux dies: what it has open is closed as it is.
LEMMA DieStep == ASSUME FileInv, NEW u \in Users, Die(u) PROVE FileInv'
<1> DEFINE Cut(f) == IF f # Nil /\ f.job = u THEN [f EXCEPT !.open = FALSE] ELSE f
<1>1. /\ pc[u] \in Steps /\ pc' = [pc EXCEPT ![u] = "dead"]
      /\ spoolfaults < SpoolFaults /\ spoolfaults' = spoolfaults + 1
      /\ seqlock' = IF seqlock = u THEN Nil ELSE seqlock
      /\ seq' = [seq EXCEPT ![u] = IF pc[u] = "write seq" THEN Nil ELSE @]
      /\ UNCHANGED <<seqfile, byClock, uucico>>
  BY DEF Die
<1>2. file' = [k \in Kinds |-> [n \in Names |-> Cut(file[k][n])]]
  BY DEF Die
<1>3. /\ pc'[u] = "dead" /\ \A v \in Users \ {u} : pc'[v] = pc[v] /\ seq'[v] = seq[v]
      /\ seq'[u] = (IF pc[u] = "write seq" THEN Nil ELSE seq[u])
  BY <1>1 DEF FileInv, SpoolTypeOK
<1>4. \A f \in SpoolFile \cup {Nil} :
         /\ Cut(f) \in SpoolFile \cup {Nil} /\ (Cut(f) = Nil <=> f = Nil)
         /\ f # Nil => Cut(f).job = f.job /\ Cut(f).whole = f.whole
         /\ f # Nil /\ f.job = u => ~Cut(f).open
  <2> SUFFICES ASSUME NEW f \in SpoolFile
               PROVE  Cut(f) \in SpoolFile /\ Cut(f).job = f.job /\ Cut(f).whole = f.whole
                      /\ (f.job = u => ~Cut(f).open)
    BY ConstantFacts
  <2>1. f # Nil
    BY ConstantFacts
  <2> QED BY <2>1 DEF SpoolFile
<1> HIDE DEF Cut
<1>5. \A k \in Kinds, n \in Names :
         file[k][n] \in SpoolFile \cup {Nil} /\ file'[k][n] = Cut(file[k][n])
  BY <1>2 DEF FileInv, SpoolTypeOK
<1>6. SpoolTypeOK'
  <2>1. file' \in [Kinds -> [Names -> SpoolFile \cup {Nil}]]
    BY <1>2, <1>4, <1>5
  <2>2. spoolfaults' \in 0..SpoolFaults
    <3>1. spoolfaults \in 0..SpoolFaults
      BY DEF FileInv, SpoolTypeOK
    <3>2. spoolfaults < SpoolFaults /\ spoolfaults' = spoolfaults + 1
      BY <1>1
    <3> QED BY <3>1, <3>2, ConstantFacts
  <2>3. pc' \in [Users -> Steps \cup {"queued", "dead"}] /\ seq' \in [Users -> Nat \cup {Nil}]
    BY <1>1 DEF FileInv, SpoolTypeOK
  <2>4. seqlock' \in Users \cup {Nil}
    BY <1>1 DEF FileInv, SpoolTypeOK
  <2> QED BY <1>1, <2>1, <2>2, <2>3, <2>4 DEF FileInv, SpoolTypeOK, uucico
<1>7. SeqType'
  <2>1. seq' \in [Users -> 0..(SeqLimit - 1) \cup {Nil}]
    BY <1>1 DEF FileInv, SeqType
  <2> QED BY <1>1, <1>3, <2>1, ConstantFacts DEF FileInv, SeqType, Early
<1>8. Wrote' = Wrote /\ \A v \in Wrote : JobNumber(v)' = JobNumber(v)
  <2>1. seq'[u] # Nil <=> seq[u] # Nil /\ pc[u] # "write seq"
    BY <1>3
  <2> QED BY <1>3, <2>1 DEF Wrote, JobNumber
<1>9. UNCHANGED <<daemon, work, lines, remote, peeked>>
  BY <1>1 DEF uucico
<1>10. Owned'
  <2>1. \A k \in Kinds, n \in Names :
          file'[k][n] # Nil => file[k][n] # Nil /\ file'[k][n].job = file[k][n].job
    BY <1>4, <1>5
  <2>2. \A v \in Wrote : pc[v] \in Late => pc'[v] \in Late
    BY <1>3 DEF Late, Wrote
  <2>3. \A n \in Names : file["call"][n] # Nil => file["call"][n].job \in Wrote
    BY DEF FileInv, Owned, Kinds
  <2>4. \A n \in Names : file'["call"][n] # Nil =>
           file["call"][n] # Nil /\ file'["call"][n].job = file["call"][n].job
    BY <2>1 DEF Kinds
  <2> QED BY <1>8, <1>9, <2>1, <2>2, <2>3, <2>4 DEF FileInv, Owned
<1>11. DaemonOK'
  BY <1>9 DEF FileInv, DaemonOK
<1>12. ASSUME NEW v \in Users, Apart(v)'
       PROVE  /\ Apart(v) /\ JobNumber(v)' = JobNumber(v) /\ JobNumber(v) \in Names
              /\ Progress(v) /\ AtWork(v) /\ InQueue(v)
              /\ \A r \in remote : r.job = v => r.whole
  <2>1. Apart(v) /\ v \in Wrote
    BY <1>8, <1>12 DEF Apart
  <2>2. JobNumber(v) \in Names
    BY <2>1, NumberFacts DEF FileInv, Wrote
  <2> QED BY <1>8, <2>1, <2>2 DEF FileInv, JobInv
<1>13. ASSUME NEW v \in Users \ {u}, Apart(v)' PROVE JobInv(v)'
  <2>1. \A k \in Kinds : file[k][JobNumber(v)] # Nil => file[k][JobNumber(v)].job = v
    BY <1>12, <1>13 DEF FileInv, Owned, Apart
  <2>2. \A k \in Kinds : file'[k][JobNumber(v)] = file[k][JobNumber(v)]
    BY <1>5, <1>12, <1>13, <2>1 DEF Cut
  <2>3. pc'[v] = pc[v] /\ JobNumber(v)' = JobNumber(v)
    BY <1>3, <1>12, <1>13
  <2>4. Progress(v) /\ AtWork(v) /\ InQueue(v) /\ \A r \in remote : r.job = v => r.whole
    BY <1>12, <1>13
  <2> QED BY <1>9, <2>2, <2>3, <2>4, SameJob
<1>14. ASSUME Apart(u)' PROVE JobInv(u)'
  <2>1. Progress(u) /\ AtWork(u) /\ JobNumber(u)' = JobNumber(u) /\ JobNumber(u) \in Names
        /\ \A r \in remote : r.job = u => r.whole
    BY <1>12, <1>14
  <2>2. pc[u] \in Filing
    BY <1>1, <1>3, <1>8, <1>14 DEF Apart, Wrote, Steps, Filing, FileInv, SeqType, Early
  <2>3. HasNo(u, "call") \/ Part(u, "call")
    BY <2>1, <2>2 DEF Progress, Filing, Late
  <2>4. Progress(u)'
    <3>1. ~HasNo(u, "call")' => /\ ~file'["call"][JobNumber(u)].open
                                /\ ~file'["call"][JobNumber(u)].whole
      BY <1>4, <1>5, <2>1, <2>3 DEF HasNo, Whole, Part, FileOf, Kinds
    <3> QED BY <1>3, <2>1, <3>1 DEF Progress, FileOf, Late
  <2>5. AtWork(u)'
    <3>1. HasNo(u, "call")' <=> HasNo(u, "call")
      BY <1>4, <1>5, <2>1 DEF HasNo, FileOf, Kinds
    <3> QED BY <1>3, <1>9, <2>1, <2>2, <3>1 DEF AtWork, Filing
  <2> QED BY <1>3, <1>9, <2>1, <2>4, <2>5 DEF JobInv, InQueue
<1> QED BY <1>6, <1>7, <1>10, <1>11, <1>13, <1>14 DEF FileInv, JobInv

-----------------------------------------------------------------------------
\* A step of uucico that only looks.
LEMMA LookStep ==
    ASSUME FileInv, UNCHANGED <<pc, seqVars, file, remote>>, SpoolTypeOK', DaemonOK',
           peeked \subseteq peeked',
           work' # Nil => \E u \in Wrote : JobNumber(u) = work' /\ pc[u] \in Late,
           \A v \in Users : Apart(v) => AtWork(v)'
    PROVE  FileInv'
<1>1. /\ UNCHANGED <<pc, seq, seqlock, seqfile, file, remote>> /\ Wrote' = Wrote
      /\ \A v : JobNumber(v)' = JobNumber(v)
  BY DEF seqVars, Wrote, JobNumber
<1>2. SeqType'
  BY <1>1 DEF FileInv, SeqType
<1>3. Owned'
  BY <1>1 DEF FileInv, Owned
<1>4. ASSUME NEW v \in Users, Apart(v)' PROVE JobInv(v)'
  <2>1. Apart(v)
    BY <1>1, <1>4 DEF Apart
  <2>2. Progress(v) /\ InQueue(v) /\ \A r \in remote : r.job = v => r.whole
    BY <2>1 DEF FileInv, JobInv
  <2> QED BY <1>1, <2>1, <2>2, KeptJob
<1> QED BY <1>2, <1>3, <1>4 DEF FileInv, JobInv

LEMMA CallStep == ASSUME FileInv, CallUp PROVE FileInv'
<1>1. /\ daemon = "idle" /\ daemon' = "scan" /\ seen' = {} /\ again' = FALSE
      /\ UNCHANGED <<pc, seqVars, file, work, lines, remote, peeked, spoolfaults>>
  BY DEF CallUp
<1>2. work' = Nil /\ lines' = <<>>
  BY <1>1 DEF FileInv, DaemonOK
<1>3. SpoolTypeOK' /\ DaemonOK'
  BY <1>1, <1>2 DEF FileInv, SpoolTypeOK, DaemonOK, seqVars
<1>4. \A v \in Users : AtWork(v)'
  BY <1>1, <1>2 DEF AtWork
<1> QED BY <1>1, <1>2, <1>3, <1>4, LookStep

LEMMA NoMoreStep == ASSUME FileInv, NoMore PROVE FileInv'
<1>1. /\ daemon = "scan" /\ daemon' = (IF again THEN "scan" ELSE "idle")
      /\ seen' = {} /\ again' = FALSE
      /\ UNCHANGED <<pc, seqVars, file, work, lines, remote, peeked, spoolfaults>>
  BY DEF NoMore
<1>2. work' = Nil /\ lines' = <<>> /\ daemon' \in {"scan", "idle"}
  BY <1>1 DEF FileInv, DaemonOK
<1>3. SpoolTypeOK' /\ DaemonOK'
  BY <1>1, <1>2 DEF FileInv, SpoolTypeOK, DaemonOK, seqVars
<1>4. \A v \in Users : AtWork(v)'
  BY <1>1, <1>2 DEF AtWork
<1> QED BY <1>1, <1>2, <1>3, <1>4, LookStep

LEMMA DropStep == ASSUME FileInv, LoseLine PROVE FileInv'
<1>1. /\ daemon' = "idle" /\ work' = Nil /\ lines' = <<>>
      /\ UNCHANGED <<pc, seqVars, file, seen, again, remote, peeked>>
  BY DEF LoseLine
<1>2. spoolfaults' \in 0..SpoolFaults
  <2>1. spoolfaults \in 0..SpoolFaults
    BY DEF FileInv, SpoolTypeOK
  <2>2. spoolfaults < SpoolFaults /\ spoolfaults' = spoolfaults + 1
    BY DEF LoseLine
  <2> QED BY <2>1, <2>2, ConstantFacts
<1>3. SpoolTypeOK' /\ DaemonOK'
  BY <1>1, <1>2 DEF FileInv, SpoolTypeOK, DaemonOK, seqVars
<1>4. \A v \in Users : AtWork(v)'
  BY <1>1 DEF AtWork
<1> QED BY <1>1, <1>3, <1>4, LookStep

LEMMA ScanStep == ASSUME FileInv, scandir PROVE FileInv'
<1>1. PICK n \in Queue \ seen : work' = n /\ seen' = seen \cup {n}
  BY DEF scandir
<1>2. /\ daemon = "scan" /\ daemon' = "read"
      /\ UNCHANGED <<pc, seqVars, file, lines, again, remote, peeked, spoolfaults>>
  BY DEF scandir
<1>3. n \in Names /\ file["call"][n] # Nil /\ n # Nil
  BY <1>1, ConstantFacts DEF Queue, Names
<1>4. lines' = <<>>
  BY <1>2 DEF FileInv, DaemonOK
<1>5. SpoolTypeOK' /\ DaemonOK'
  BY <1>1, <1>2, <1>3, <1>4 DEF FileInv, SpoolTypeOK, DaemonOK, seqVars
<1>6. \E u \in Wrote : JobNumber(u) = n /\ pc[u] \in Late
  BY <1>3 DEF FileInv, Owned, Kinds
<1>7. ASSUME NEW v \in Users PROVE AtWork(v)'
  BY <1>1, <1>2, <1>3, <1>4 DEF AtWork, HasNo, FileOf, JobNumber, seqVars
<1> QED BY <1>1, <1>2, <1>5, <1>6, <1>7, LookStep

\* The call file that uucico reads, if its job is apart.
LEMMA CallFacts ==
    ASSUME FileInv, NEW v \in Users, Apart(v), work = JobNumber(v), work # Nil
    PROVE  /\ v \in Wrote /\ pc[v] \in Late /\ work \in Names
           /\ Progress(v) /\ AtWork(v) /\ InQueue(v) /\ \A r \in remote : r.job = v => r.whole
           /\ \A k \in Kinds : file[k][work] # Nil => file[k][work].job = v
<1>1. v \in Wrote /\ Progress(v) /\ AtWork(v) /\ InQueue(v) /\ \A r \in remote : r.job = v => r.whole
  BY DEF FileInv, JobInv, Apart
<1>2. pc[v] \in Late
  BY DEF FileInv, Owned, Apart
<1>3. work \in Names
  BY DEF FileInv, SpoolTypeOK
<1>4. \A k \in Kinds : file[k][work] # Nil => file[k][work].job = v
  BY <1>3 DEF FileInv, Owned, Apart
<1> QED BY <1>1, <1>2, <1>3, <1>4

LEMMA ReadCallStep == ASSUME FileInv, ReadCall PROVE FileInv'
<1> DEFINE c == file["call"][work]
<1>1. /\ daemon = "read" /\ daemon' = "send"
      /\ lines' = IF c # Nil /\ c.whole THEN <<"data", "exec">> ELSE <<>>
      /\ peeked' = IF c # Nil /\ c.open THEN peeked \cup {c.job} ELSE peeked
      /\ UNCHANGED <<pc, seqVars, file, work, seen, again, remote, spoolfaults>>
  BY DEF ReadCall
<1>2. work # Nil /\ work \in Names /\ c \in SpoolFile \cup {Nil}
  BY <1>1 DEF FileInv, DaemonOK, SpoolTypeOK, Kinds
<1> HIDE DEF c
<1>3. peeked' \subseteq Users /\ peeked \subseteq peeked'
  BY <1>1, <1>2 DEF FileInv, SpoolTypeOK, SpoolFile
<1>4. lines' \in {<<>>, <<"data", "exec">>} /\ lines' \in Seq({"data", "exec"})
  <2>1. lines' \in {<<>>, <<"data", "exec">>}
    BY <1>1, Zenon
  <2>2. <<>> \in Seq({"data", "exec"}) /\ <<"data", "exec">> \in Seq({"data", "exec"})
    OBVIOUS
  <2> QED BY <2>1, <2>2, Zenon
<1>5. SpoolTypeOK' /\ DaemonOK'
  BY <1>1, <1>2, <1>3, <1>4 DEF FileInv, SpoolTypeOK, DaemonOK, seqVars
<1>6. work' # Nil => \E u \in Wrote : JobNumber(u) = work' /\ pc[u] \in Late
  BY <1>1 DEF FileInv, Owned
<1>7. ASSUME NEW v \in Users, Apart(v), work = JobNumber(v) PROVE AtWork(v)'
  <2>1. /\ Progress(v) /\ AtWork(v) /\ pc[v] \in Late /\ (c # Nil => c.job = v)
    BY <1>2, <1>7, CallFacts DEF c, Kinds
  <2>2. c # Nil
    BY <1>1, <1>7, <2>1 DEF AtWork, HasNo, FileOf, c
  <2>3. c.whole <=> pc[v] = "queued"
    BY <1>7, <2>1, <2>2 DEF Progress, Late, Whole, Part, HasNo, FileOf, c
  <2>4. pc[v] = "close call" => c.open
    BY <1>7, <2>1, <2>2 DEF Progress, Whole, Part, FileOf, c
  <2> QED BY <1>1, <2>1, <2>2, <2>3, <2>4 DEF AtWork
<1>8. ASSUME NEW v \in Users, work # JobNumber(v) PROVE AtWork(v)'
  BY <1>1, <1>8 DEF AtWork, JobNumber, seqVars
<1>9. UNCHANGED <<pc, seqVars, file, remote>>
  BY <1>1
<1> QED BY <1>3, <1>5, <1>6, <1>7, <1>8, <1>9, LookStep

\* A file is sent: of a job apart, only when it is queued, so it is whole.
LEMMA SendStep == ASSUME FileInv, Send PROVE FileInv'
<1>1. /\ daemon = "send" /\ lines # <<>> /\ lines' = Tail(lines)
      /\ UNCHANGED <<pc, seqVars, daemon, work, seen, again, peeked, spoolfaults>>
  BY DEF Send
<1>3. PICK k \in Data : /\ k = Head(lines)
                        /\ \/ lines = <<"exec">> /\ k = "exec" /\ lines' = <<>>
                           \/ lines = <<"data", "exec">> /\ k = "data" /\ lines' = <<"exec">>
  <2>1. Head(<<"exec">>) = "exec" /\ Tail(<<"exec">>) = <<>>
        /\ Head(<<"data", "exec">>) = "data" /\ Tail(<<"data", "exec">>) = <<"exec">>
    OBVIOUS
  <2>2. lines = <<"exec">> \/ lines = <<"data", "exec">>
    BY <1>1 DEF FileInv, DaemonOK
  <2> QED BY <1>1, <2>1, <2>2 DEF Data
<1> DEFINE f == file[k][work]
           new == [kind |-> k, name |-> work, job |-> f.job, whole |-> f.whole]
           left == IF f = Nil \/ f.open THEN f ELSE Nil
<1>0. IF f = Nil THEN UNCHANGED <<file, remote>>
         ELSE /\ remote' = remote \cup {new}
              /\ file' = [file EXCEPT ![k][work] = IF f.open THEN f ELSE Nil]
  BY <1>3 DEF Send
<1>2. work # Nil /\ work \in Names
  BY <1>1 DEF FileInv, DaemonOK, SpoolTypeOK
<1>4. k \in Data /\ k \in Kinds /\ f \in SpoolFile \cup {Nil}
  BY <1>2, <1>3 DEF Data, Kinds, FileInv, SpoolTypeOK
<1>5. \A j \in Kinds, n \in Names :
         file'[j][n] = IF j = k /\ n = work THEN left ELSE file[j][n]
  BY <1>0, <1>2, <1>4 DEF FileInv, SpoolTypeOK
<1>6. left \in {f, Nil} /\ (left # Nil => f # Nil /\ left = f)
  OBVIOUS
<1>7. file' \in [Kinds -> [Names -> SpoolFile \cup {Nil}]]
  <2>1. file \in [Kinds -> [Names -> SpoolFile \cup {Nil}]]
    BY DEF FileInv, SpoolTypeOK
  <2>2. left \in SpoolFile \cup {Nil} /\ (file' = file \/ file' = [file EXCEPT ![k][work] = left])
    BY <1>0, <1>4
  <2> HIDE DEF left, f
  <2> QED BY <1>2, <1>4, <2>1, <2>2
<1>8. /\ UNCHANGED <<pc, seq, seqlock, seqfile>> /\ Wrote' = Wrote
      /\ \A v : JobNumber(v)' = JobNumber(v)
  BY <1>1 DEF seqVars, Wrote, JobNumber
<1>9. f # Nil => /\ f.job \in Wrote /\ JobNumber(f.job) = work /\ f.whole \in BOOLEAN
                  /\ new.kind = k /\ new.job = f.job /\ new.whole = f.whole /\ new.name = work
  BY <1>2, <1>4 DEF FileInv, Owned, SpoolFile
<1>10. /\ remote \subseteq remote' /\ \A r \in remote' : r \in remote \/ (f # Nil /\ r = new)
       /\ f # Nil => new \in remote'
  BY <1>0
<1> HIDE DEF f, new, left
<1>11. SpoolTypeOK'
  <2>1. f # Nil => new \in [kind : {"data", "exec"}, name : Names, job : Users, whole : BOOLEAN]
    BY <1>2, <1>4, <1>9 DEF new, Data, Wrote
  <2>2. remote' \subseteq [kind : {"data", "exec"}, name : Names, job : Users, whole : BOOLEAN]
    BY <1>10, <2>1 DEF FileInv, SpoolTypeOK
  <2>3. lines' \in Seq({"data", "exec"})
    <3>1. <<>> \in Seq({"data", "exec"}) /\ <<"exec">> \in Seq({"data", "exec"})
      OBVIOUS
    <3> QED BY <1>3, <3>1, Zenon
  <2> QED BY <1>1, <1>7, <2>2, <2>3 DEF FileInv, SpoolTypeOK, seqVars
<1>12. SeqType'
  BY <1>8 DEF FileInv, SeqType
<1>13. DaemonOK'
  BY <1>1, <1>3 DEF FileInv, DaemonOK
<1>14. Owned'
  <2>1. \A j \in Kinds, n \in Names : file'[j][n] # Nil => file'[j][n] = file[j][n]
    BY <1>5, <1>6 DEF f
  <2>2. "call" \in Kinds /\ \A r \in remote' : r.job \in Wrote /\ JobNumber(r.job) = r.name
    BY <1>9, <1>10 DEF FileInv, Owned, Kinds
  <2> QED BY <1>1, <1>8, <2>1, <2>2 DEF FileInv, Owned
<1>15. ASSUME NEW v \in Users, Apart(v)', work # JobNumber(v) PROVE JobInv(v)'
  <2>1. Apart(v) /\ v \in Wrote
    BY <1>8, <1>15 DEF Apart
  <2>2. Progress(v) /\ AtWork(v) /\ InQueue(v) /\ \A r \in remote : r.job = v => r.whole
    BY <2>1 DEF FileInv, JobInv
  <2>3. \A r \in remote' : r.job = v => r \in remote
    BY <1>9, <1>10, <1>15
  <2>4. JobNumber(v) \in Names
    BY <2>1, NumberFacts DEF FileInv, Wrote
  <2>5. \A j \in Kinds : file'[j][JobNumber(v)] = file[j][JobNumber(v)]
    BY <1>5, <1>15, <2>4
  <2>6. AtWork(v)'
    BY <1>1, <1>8, <1>15 DEF AtWork
  <2> QED BY <1>1, <1>8, <1>10, <2>2, <2>3, <2>5, <2>6, KeptJob
<1>16. ASSUME NEW v \in Users, Apart(v)', work = JobNumber(v) PROVE JobInv(v)'
  <2>1. Apart(v)
    BY <1>8, <1>16 DEF Apart
  <2>2. /\ Progress(v) /\ AtWork(v) /\ InQueue(v) /\ \A r \in remote : r.job = v => r.whole
        /\ (f # Nil => f.job = v)
    BY <1>2, <1>4, <1>16, <2>1, CallFacts DEF f
  <2>3. pc[v] = "queued"
    BY <1>1, <1>16, <2>2 DEF AtWork
  <2>4. (f = Nil /\ SentOf(v, k)) \/ (f # Nil /\ Whole(v, k))
    <3>1. (SentOf(v, k) \/ Whole(v, k)) /\ (HasNo(v, k) \/ Whole(v, k))
      BY <1>4, <2>2, <2>3 DEF Progress
    <3>2. (HasNo(v, k) <=> f = Nil) /\ (Whole(v, k) => f # Nil)
      BY <1>16 DEF HasNo, Whole, Part, FileOf, f
    <3> QED BY <3>1, <3>2
  <2>5. f # Nil => f.whole /\ ~f.open /\ left = Nil
    BY <1>16, <2>4 DEF Whole, Part, HasNo, FileOf, f, left
  <2>6. SentOf(v, k)' /\ \A j \in Data : SentOf(v, j) => SentOf(v, j)'
    <3>1. \A j \in Data : SentOf(v, j) => SentOf(v, j)'
      BY <1>10 DEF SentOf
    <3>2. f # Nil => SentOf(v, k)'
      BY <1>9, <1>10, <2>2 DEF SentOf
    <3> QED BY <1>4, <2>4, <3>1, <3>2
  <2>7. JobNumber(v)' = JobNumber(v) /\ JobNumber(v) \in Names /\ pc'[v] = "queued"
    BY <1>2, <1>8, <1>16, <2>3
  <2>8. file'["call"][JobNumber(v)] = file["call"][JobNumber(v)]
    BY <1>4, <1>5, <2>7 DEF Data, Kinds
  <2>9. \A j \in Data : \/ j # k /\ file'[j][JobNumber(v)] = file[j][JobNumber(v)]
                        \/ j = k /\ HasNo(v, j)'
    BY <1>4, <1>5, <1>6, <1>16, <2>5, <2>7 DEF Data, Kinds, HasNo, FileOf
  <2>10. Progress(v)'
    <3>1. \A j \in Data : (SentOf(v, j) \/ Whole(v, j)) /\ (HasNo(v, j) \/ Whole(v, j))
      BY <2>2, <2>3 DEF Progress
    <3>2. ASSUME NEW j \in Data
          PROVE  (SentOf(v, j)' \/ Whole(v, j)') /\ (HasNo(v, j)' \/ Whole(v, j)')
      <4>1. CASE j # k
        <5>1. FileOf(v, j)' = FileOf(v, j)
          BY <2>7, <2>9, <4>1 DEF FileOf
        <5>2. (Whole(v, j) => Whole(v, j)') /\ (HasNo(v, j) => HasNo(v, j)')
          BY <5>1 DEF Whole, HasNo
        <5> QED BY <2>6, <3>1, <5>2
      <4>2. CASE j = k
        BY <2>6, <2>9, <4>2
      <4> QED BY <4>1, <4>2
    <3>3. \A j \in Data : (SentOf(v, j)' \/ Whole(v, j)') /\ (HasNo(v, j)' \/ Whole(v, j)')
      BY <3>2
    <3>4. ~HasNo(v, "call")' => /\ ~file'["call"][JobNumber(v)'].open
                                /\ file'["call"][JobNumber(v)'].whole
      BY <2>2, <2>3, <2>7, <2>8 DEF Progress, HasNo, FileOf
    <3> QED BY <2>7, <3>3, <3>4 DEF Progress, FileOf, Late
  <2>11. AtWork(v)' /\ InQueue(v)'
    <3>1. HasNo(v, "call")' <=> HasNo(v, "call")
      BY <2>7, <2>8 DEF HasNo, FileOf
    <3>2. peeked' = peeked /\ daemon' = "send" /\ work' = work /\ pc'[v] = pc[v]
      BY <1>1, <1>8
    <3>3. v \notin peeked /\ lines' = <<>> => \A j \in Data : SentOf(v, j)'
      BY <1>1, <1>3, <1>16, <2>2, <2>3, <2>6 DEF AtWork, Data
    <3>4. lines' = <<"exec">> => SentOf(v, "data")'
      BY <1>3, <2>6
    <3>5. Sent(v) => Sent(v)'
      BY <1>10 DEF Sent
    <3> QED BY <2>2, <2>3, <3>1, <3>2, <3>3, <3>4, <3>5 DEF AtWork, InQueue
  <2>12. \A r \in remote' : r.job = v => r.whole
    BY <1>9, <1>10, <2>2, <2>5
  <2> QED BY <2>10, <2>11, <2>12 DEF JobInv
<1> QED BY <1>11, <1>12, <1>13, <1>14, <1>15, <1>16 DEF FileInv, JobInv

\* newrequest deletes the call file at its end: what it listed has been sent.
LEMMA EndOfCallStep == ASSUME FileInv, EndOfCall PROVE FileInv'
<1> DEFINE c == file["call"][work]
           gone == c = Nil \/ ~c.open
           left == IF gone THEN Nil ELSE c
<1>1. /\ daemon = "send" /\ lines = <<>> /\ daemon' = "scan" /\ work' = Nil
      /\ again' = (again \/ gone)
      /\ file' = [file EXCEPT !["call"][work] = IF gone THEN Nil ELSE @]
      /\ UNCHANGED <<pc, seqVars, lines, seen, remote, peeked, spoolfaults>>
  BY DEF EndOfCall
<1>2. work # Nil /\ work \in Names /\ c \in SpoolFile \cup {Nil} /\ "call" \in Kinds
  BY <1>1 DEF FileInv, DaemonOK, SpoolTypeOK, Kinds
<1>3. left \in {c, Nil} /\ again' \in BOOLEAN
  BY <1>1 DEF FileInv, SpoolTypeOK
<1>4. \A j \in Kinds, n \in Names :
         file'[j][n] = IF j = "call" /\ n = work THEN left ELSE file[j][n]
  BY <1>1, <1>2 DEF FileInv, SpoolTypeOK
<1>5. file' \in [Kinds -> [Names -> SpoolFile \cup {Nil}]]
  <2>1. file \in [Kinds -> [Names -> SpoolFile \cup {Nil}]]
    BY DEF FileInv, SpoolTypeOK
  <2>2. left \in SpoolFile \cup {Nil} /\ file' = [file EXCEPT !["call"][work] = left]
    BY <1>1, <1>2
  <2> HIDE DEF left
  <2> QED BY <1>2, <2>1, <2>2
<1>6. left # Nil => left = c /\ c.open
  OBVIOUS
<1> HIDE DEF left, c, gone
<1>7. /\ UNCHANGED <<pc, seq, seqlock, seqfile, remote, peeked>> /\ Wrote' = Wrote
      /\ \A v : JobNumber(v)' = JobNumber(v)
  BY <1>1 DEF seqVars, Wrote, JobNumber
<1>8. SpoolTypeOK'
  BY <1>1, <1>3, <1>5 DEF FileInv, SpoolTypeOK, seqVars
<1>9. SeqType' /\ DaemonOK'
  BY <1>1, <1>7 DEF FileInv, SeqType, DaemonOK
<1>10. Owned'
  <2>1. \A j \in Kinds, n \in Names : file'[j][n] # Nil => file'[j][n] = file[j][n]
    BY <1>3, <1>4 DEF c
  <2> QED BY <1>1, <1>2, <1>7, <2>1 DEF FileInv, Owned
<1>11. ASSUME NEW v \in Users, Apart(v)', work # JobNumber(v) PROVE JobInv(v)'
  <2>1. Apart(v) /\ v \in Wrote
    BY <1>7, <1>11 DEF Apart
  <2>2. Progress(v) /\ InQueue(v) /\ \A r \in remote : r.job = v => r.whole
    BY <2>1 DEF FileInv, JobInv
  <2>3. JobNumber(v) \in Names
    BY <2>1, NumberFacts DEF FileInv, Wrote
  <2>4. \A j \in Kinds : file'[j][JobNumber(v)] = file[j][JobNumber(v)]
    BY <1>4, <1>11, <2>3
  <2>5. AtWork(v)'
    BY <1>1 DEF AtWork
  <2> QED BY <1>7, <2>2, <2>4, <2>5, KeptJob
<1>12. ASSUME NEW v \in Users, Apart(v)', work = JobNumber(v) PROVE JobInv(v)'
  <2>1. Apart(v)
    BY <1>7, <1>12 DEF Apart
  <2>2. /\ Progress(v) /\ AtWork(v) /\ InQueue(v) /\ \A r \in remote : r.job = v => r.whole
        /\ (c # Nil => c.job = v) /\ pc[v] \in Late
    BY <1>2, <1>12, <2>1, CallFacts DEF c
  <2>3. JobNumber(v)' = JobNumber(v) /\ JobNumber(v) \in Names /\ pc'[v] = pc[v]
    BY <1>2, <1>7, <1>12
  <2>4. FileOf(v, "data")' = FileOf(v, "data") /\ FileOf(v, "exec")' = FileOf(v, "exec")
        /\ FileOf(v, "call")' = left /\ FileOf(v, "call") = c
    BY <1>2, <1>4, <1>12, <2>3 DEF FileOf, Kinds, c
  <2>5. \A j \in Data : /\ SentOf(v, j) => SentOf(v, j)'
                        /\ Whole(v, j) => Whole(v, j)'
                        /\ HasNo(v, j) => HasNo(v, j)'
    BY <1>7, <2>4 DEF SentOf, Whole, HasNo, Data
  <2>6. pc[v] = "close call" => Part(v, "call")'
    <3>1. pc[v] = "close call" => Part(v, "call") /\ c.open /\ c # Nil
      BY <2>2, <2>4 DEF Progress, Part
    <3>2. pc[v] = "close call" => left = c
      BY <3>1 DEF left, gone
    <3> QED BY <2>4, <3>1, <3>2 DEF Part
  <2>7. HasNo(v, "call")' \/ FileOf(v, "call")' = FileOf(v, "call")
    BY <1>3, <2>4 DEF HasNo
  <2>8. Progress(v)'
    <3>1. pc[v] = "close call" => Whole(v, "exec")' /\ Whole(v, "data")'
      BY <2>2, <2>5 DEF Progress, Data
    <3>2. pc[v] = "queued" => \A j \in Data : /\ SentOf(v, j)' \/ Whole(v, j)'
                                              /\ HasNo(v, j)' \/ Whole(v, j)'
      BY <2>2, <2>5 DEF Progress
    <3>3. pc[v] \in {"queued", "dead"} /\ ~HasNo(v, "call")' =>
             ~FileOf(v, "call")'.open /\ (FileOf(v, "call")'.whole <=> pc[v] = "queued")
      BY <2>2, <2>7 DEF Progress, HasNo
    <3> QED BY <2>2, <2>3, <2>6, <3>1, <3>2, <3>3 DEF Progress, Late
  <2>9. InQueue(v)'
    BY <1>1, <1>7, <1>12, <2>2, <2>3 DEF InQueue, AtWork, Sent, SentOf, Data
  <2>10. AtWork(v)'
    BY <1>1 DEF AtWork
  <2> QED BY <1>7, <2>2, <2>8, <2>9, <2>10 DEF JobInv
<1> QED BY <1>8, <1>9, <1>10, <1>11, <1>12 DEF FileInv, JobInv

LEMMA NextFileInv == FileInv /\ [SpoolNext]_spoolVars => FileInv'
<1> SUFFICES ASSUME FileInv, [SpoolNext]_spoolVars PROVE FileInv'
  OBVIOUS
<1>1. ASSUME NEW u \in Users, uux(u) PROVE FileInv'
  BY <1>1, OpenSeqStep, MakeSeqStep, LockSeqStep, ReadSeqStep, WriteSeqStep, FilesStep DEF uux
<1>2. ASSUME NEW u \in Users, Die(u) PROVE FileInv'
  BY <1>2, DieStep
<1>3. CASE Session
  BY <1>3, CallStep, ScanStep, NoMoreStep, ReadCallStep, SendStep, EndOfCallStep DEF Session
<1>4. CASE LoseLine
  BY <1>4, DropStep
<1>5. CASE UNCHANGED spoolVars
  <2>1. UNCHANGED <<pc, seq, seqlock, seqfile, byClock, file, daemon, work, lines, seen, again,
                    remote, peeked, spoolfaults>>
    BY <1>5 DEF spoolVars, seqVars, uucico
  <2>2. SpoolTypeOK' /\ DaemonOK'
    BY <2>1 DEF FileInv, SpoolTypeOK, DaemonOK
  <2>3. work' # Nil => \E u \in Wrote : JobNumber(u) = work' /\ pc[u] \in Late
    BY <2>1 DEF FileInv, Owned
  <2>4. ASSUME NEW v \in Users, Apart(v) PROVE AtWork(v)'
    <3>1. AtWork(v)
      BY <2>4 DEF FileInv, JobInv
    <3> QED BY <2>1, <3>1 DEF AtWork, HasNo, FileOf, SentOf, JobNumber
  <2>5. UNCHANGED <<pc, seqVars, file, remote>> /\ peeked \subseteq peeked'
    BY <2>1 DEF seqVars
  <2> QED BY <2>2, <2>3, <2>4, <2>5, LookStep
<1> QED BY <1>1, <1>2, <1>3, <1>4, <1>5 DEF SpoolNext

-----------------------------------------------------------------------------
(***************************************************************************)
(* The files of uux and the steps of uucico keep their types, for any      *)
(* number of uux programs (getseq, do_remote, scandir, newrequest).        *)
(***************************************************************************)
THEOREM SpoolType == SpoolSpec => []SpoolTypeOK
<1>1. FileInv => SpoolTypeOK
  BY DEF FileInv
<1> QED BY <1>1, InitFileInv, NextFileInv, PTL DEF SpoolSpec

LEMMA AloneApart == ASSUME FileInv, NEW u \in Wrote, Alone(u) PROVE Apart(u) /\ u \in Users
BY DEF Alone, Apart, Numbered, Wrote

LEMMA InvWholeJobs == FileInv => WholeJobs
<1> SUFFICES ASSUME FileInv PROVE WholeJobs
  OBVIOUS
<1>1. ASSUME NEW r \in remote, Alone(r.job) PROVE r.whole
  <2>1. r.job \in Wrote
    BY DEF FileInv, Owned
  <2>2. Apart(r.job) /\ r.job \in Users
    BY <1>1, <2>1, AloneApart
  <2> QED BY <2>2 DEF FileInv, JobInv
<1>2. ASSUME NEW n \in Names, file["call"][n] # Nil, file["call"][n].whole,
             Alone(file["call"][n].job), NEW k \in Data
      PROVE  \/ /\ file[k][n] # Nil /\ file[k][n].whole
                /\ file[k][n].job = file["call"][n].job
             \/ \E r \in remote : r.kind = k /\ r.job = file["call"][n].job
  <2> DEFINE u == file["call"][n].job
  <2>1. u \in Wrote /\ JobNumber(u) = n /\ pc[u] \in Late
    BY <1>2 DEF FileInv, Owned, Kinds
  <2>2. Apart(u) /\ u \in Users
    BY <1>2, <2>1, AloneApart
  <2>3. Progress(u) /\ FileOf(u, "call") = file["call"][n]
    BY <2>1, <2>2 DEF FileInv, JobInv, FileOf
  <2>4. pc[u] = "queued"
    BY <1>2, <2>1, <2>3 DEF Progress, Late, HasNo, Part
  <2>5. SentOf(u, k) \/ Whole(u, k)
    BY <2>3, <2>4 DEF Progress
  <2> QED BY <2>1, <2>5 DEF SentOf, Whole, FileOf
<1> QED BY <1>1, <1>2 DEF WholeJobs, Data

LEMMA InvStaysQueued == FileInv => StaysQueued
<1> SUFFICES ASSUME FileInv, NEW u \in Users, pc[u] = "queued", Alone(u), u \notin peeked
             PROVE  \/ Sent(u)
                    \/ /\ file["call"][JobNumber(u)] # Nil
                       /\ file["call"][JobNumber(u)].job = u
  BY DEF StaysQueued
<1>1. u \in Wrote
  BY DEF Wrote, FileInv, SeqType, Early
<1>2. Apart(u) /\ JobNumber(u) \in Names
  BY <1>1, AloneApart, NumberFacts DEF FileInv, Wrote
<1>3. Sent(u) \/ file["call"][JobNumber(u)] # Nil
  BY <1>2 DEF FileInv, JobInv, InQueue, HasNo, FileOf
<1>4. file["call"][JobNumber(u)] # Nil => file["call"][JobNumber(u)].job = u
  BY <1>2 DEF FileInv, Owned, Apart, Kinds
<1> QED BY <1>3, <1>4

(***************************************************************************)
(* What uucico sends is whole and belongs together, as long as no other    *)
(* job has the name: do_remote writes the call file last, and uucico looks *)
(* at nothing else to find a job.                                          *)
(***************************************************************************)
THEOREM SentWhole == SpoolSpec => []WholeJobs
BY InvWholeJobs, InitFileInv, NextFileInv, PTL DEF SpoolSpec

(***************************************************************************)
(* A job in the queue stays there until the other host has both files,     *)
(* unless uucico read the call file while uux was writing it.              *)
(***************************************************************************)
THEOREM QueuedStays == SpoolSpec => []StaysQueued
BY InvStaysQueued, InitFileInv, NextFileInv, PTL DEF SpoolSpec

-----------------------------------------------------------------------------
(***************************************************************************)
(* Names.  JobNumber repeats after Base numbers, and the numbers go back   *)
(* to 0 at SeqLimit, which need not be a multiple of Base: there are fewer *)
(* jobs than it takes to come back to a name in use (0x40000000 is 74184   *)
(* more than a multiple of 62^3).                                          *)
(***************************************************************************)
FewJobs ==
    /\ Cardinality(Users) <= Base /\ Base <= SeqLimit
    /\ SeqLimit % Base = 0 \/ Cardinality(Users) <= SeqLimit % Base

LEMMA NoMultiple == ASSUME NEW b \in Nat \ {0}, NEW k \in Int, 0 < b * k, b * k < b PROVE FALSE
<1>1. k > 0 \/ k <= 0
  OBVIOUS
<1>2. CASE k <= 0
  <2>1. b * k <= 0
    BY <1>2
  <2> QED BY <2>1
<1>3. CASE k > 0
  <2>1. k >= 1
    BY <1>3
  <2>2. b * k >= b
    BY <2>1
  <2> QED BY <2>2
<1> QED BY <1>1, <1>2, <1>3

\* Two numbers less than b apart do not have the same remainder.
LEMMA Remainders ==
    ASSUME NEW b \in Nat \ {0}, NEW x \in Nat, NEW y \in Nat, x % b = y % b, x < y, y - x < b
    PROVE  FALSE
<1>1. x = b * (x \div b) + (x % b) /\ y = b * (y \div b) + (y % b)
      /\ x \div b \in Int /\ y \div b \in Int /\ x % b \in Int
  OBVIOUS
<1>2. y - x = b * (y \div b) - b * (x \div b)
  BY <1>1
<1>3. b * (y \div b) - b * (x \div b) = b * ((y \div b) - (x \div b))
  BY <1>1
<1>4. (y \div b) - (x \div b) \in Int
  BY <1>1
<1>5. 0 < b * ((y \div b) - (x \div b)) /\ b * ((y \div b) - (x \div b)) < b
  BY <1>2, <1>3
<1> QED BY <1>4, <1>5, NoMultiple

\* The numbers of a row of fewer than FewJobs allows have different names, also
\* if it goes over the limit.
LEMMA RowNames ==
    ASSUME FewJobs, NEW x \in 0..(SeqLimit - 1), NEW y \in 0..(SeqLimit - 1), NEW d \in Nat,
           0 < d, d < Cardinality(Users), x - y = d \/ y - x = SeqLimit - d
    PROVE  x % Base # y % Base
<1> DEFINE l == SeqLimit
           b == Base
           n == Cardinality(Users)
<1>1. l \in Nat \ {0} /\ b \in Nat \ {0} /\ n \in Nat /\ x \in Nat /\ y \in Nat
  BY ConstantFacts, FS_CardinalityType
<1>2. n <= b /\ b <= l /\ (l % b = 0 \/ n <= l % b) /\ 0 < d /\ d < n
      /\ (x - y = d \/ y - x = l - d)
  BY DEF FewJobs
<1> SUFFICES ASSUME x % b = y % b PROVE FALSE
  OBVIOUS
<1> HIDE DEF l, b, n
<1>3. CASE x - y = d
  <2>1. y < x /\ x - y < b
    BY <1>1, <1>2, <1>3
  <2> QED BY <1>1, <2>1, Remainders
<1>4. CASE y - x = l - d
  <2> DEFINE qx == x \div b
             qy == y \div b
             ql == l \div b
  <2>1. x = b * qx + (x % b) /\ qx \in Int
    BY <1>1
  <2>2. y = b * qy + (y % b) /\ qy \in Int
    BY <1>1
  <2>3. l = b * ql + (l % b) /\ ql \in Int /\ (l % b) \in Nat /\ l % b < b
    BY <1>1
  <2> HIDE DEF qx, qy, ql
  <2>4. x % b \in Nat
    BY <1>1
  <2>5. y - x = b * qy - b * qx
    BY <1>1, <2>1, <2>2, <2>4
  <2>6. (l % b) - d = b * qy - b * qx - b * ql
    BY <1>1, <1>4, <2>1, <2>2, <2>3, <2>5
  <2>7. b * qy - b * qx - b * ql = b * (qy - qx - ql) /\ qy - qx - ql \in Int
    BY <1>1, <2>1, <2>2, <2>3
  <2>8. CASE l % b = 0
    <3>1. b * (qx + ql - qy) = d /\ qx + ql - qy \in Int
      BY <1>1, <2>1, <2>2, <2>3, <2>6, <2>8
    <3>2. 0 < b * (qx + ql - qy) /\ b * (qx + ql - qy) < b
      BY <1>1, <1>2, <3>1
    <3> QED BY <1>1, <3>1, <3>2, NoMultiple
  <2>9. CASE n <= l % b
    <3>1. 0 < b * (qy - qx - ql) /\ b * (qy - qx - ql) < b
      BY <1>1, <1>2, <2>3, <2>6, <2>7, <2>9
    <3> QED BY <1>1, <2>7, <3>1, NoMultiple
  <2> QED BY <1>2, <2>8, <2>9
<1> QED BY <1>2, <1>3, <1>4

\* What is behind the file is one more behind after the next number.
LEMMA NextBehind ==
    ASSUME NEW n \in 1..SeqLimit, NEW m \in 0..(SeqLimit - 1), Behind(n, m) < SeqLimit
    PROVE  /\ n % SeqLimit \in 0..(SeqLimit - 1)
           /\ Behind((n % SeqLimit) + 1, m) = Behind(n, m) + 1
<1>1. SeqLimit \in Nat \ {0}
  BY ConstantFacts
<1>2. n % SeqLimit = IF n = SeqLimit THEN 0 ELSE n
  <2>1. CASE n = SeqLimit
    BY <1>1, <2>1
  <2>2. CASE n < SeqLimit
    BY <1>1, <2>2
  <2> QED BY <1>1, <2>1, <2>2
<1> DEFINE r == n % SeqLimit
<1> HIDE DEF r
<1>3. r = IF n = SeqLimit THEN 0 ELSE n
  BY <1>2 DEF r
<1>4. r \in 0..(SeqLimit - 1) /\ Behind(r + 1, m) = Behind(n, m) + 1
  BY <1>1, <1>3 DEF Behind
<1> QED BY <1>4 DEF r

\* Without a number of its own to read or write, a program leaves the row.
Leaves(v) ==
    \/ pc'[v] = pc[v] /\ (pc[v] = "write seq" => seq'[v] = seq[v])
    \/ pc'[v] \notin Early \cup {"write seq"}
    \/ pc[v] = "lock seq" /\ pc'[v] = "read seq"
    \/ pc[v] = "open seq" /\ pc'[v] = "lock seq"
    \/ pc[v] = "open seq" /\ pc'[v] = "make seq" /\ seqfile = Missing

LEMMA RowKept ==
    ASSUME Row, Wrote' = Wrote, seqfile' = seqfile, \A v \in Wrote : seq'[v] = seq[v],
           \A u \in Users : pc'[u] = "write seq" /\ Wrote # {} => seq'[u] = seqfile % SeqLimit
    PROVE  Row'
<1>1. Wrote' # {} => seqfile' \in 1..SeqLimit
  BY DEF Row
<1>2. \A v \in Wrote' : Behind(seqfile', seq'[v]) = Behind(seqfile, seq[v]) /\ v \in Wrote
  OBVIOUS
<1>3. \A u \in Wrote' : Behind(seqfile', seq'[u]) \in 1..Cardinality(Wrote')
  BY <1>2 DEF Row
<1>4. ASSUME NEW u \in Wrote', NEW v \in Wrote', Behind(seqfile', seq'[u]) = Behind(seqfile', seq'[v])
      PROVE  u = v
  <2>1. u \in Wrote /\ v \in Wrote /\ Behind(seqfile, seq[u]) = Behind(seqfile, seq[v])
    BY <1>2, <1>4
  <2> QED BY <2>1 DEF Row
<1>5. Wrote' # {} => \A u \in Users : pc'[u] = "write seq" => seq'[u] = seqfile' % SeqLimit
  OBVIOUS
<1> QED BY <1>1, <1>3, <1>4, <1>5 DEF Row

LEMMA NumberSame ==
    ASSUME NumberInv, UNCHANGED <<seqfile, byClock>>, Wrote' = Wrote,
           \A v \in Wrote : seq'[v] = seq[v], \A v \in Users : Leaves(v), byClock \subseteq Users
    PROVE  NumberInv'
<1>1. Makers'
  BY DEF NumberInv, Makers, Leaves, Early
<1>2. OneClock' <=> OneClock
  BY DEF OneClock
<1>3. ASSUME OneClock PROVE OneMaker'
  <2>1. OneMaker /\ Makers
    BY <1>3 DEF NumberInv
  <2> QED BY <2>1 DEF OneMaker, Makers, Leaves, Early
<1>4. ASSUME OneClock PROVE Row'
  <2>1. Row
    BY <1>4 DEF NumberInv
  <2>2. \A v \in Users : pc'[v] = "write seq" => pc[v] = "write seq" /\ seq'[v] = seq[v]
    BY DEF Leaves
  <2>3. \A v \in Users : pc'[v] = "write seq" /\ Wrote # {} => seq'[v] = seqfile % SeqLimit
    BY <2>1, <2>2 DEF Row
  <2> QED BY <2>1, <2>3, RowKept
<1> QED BY <1>1, <1>2, <1>3, <1>4 DEF NumberInv

LEMMA InitNumberInv == SpoolInit => NumberInv
<1> SUFFICES ASSUME SpoolInit PROVE NumberInv
  OBVIOUS
<1>1. Wrote = {} /\ byClock = {} /\ \A u \in Users : pc[u] = "open seq"
  BY DEF SpoolInit, Wrote
<1>2. seqfile # Empty
  BY ConstantFacts DEF SpoolInit
<1>3. Makers /\ OneMaker /\ Row
  BY <1>1, <1>2 DEF Makers, OneMaker, Row
<1> QED BY <1>3 DEF NumberInv

LEMMA MakeSeqNumber ==
    ASSUME FileInv, NumberInv, NEW u \in Users, MakeSeq(u) PROVE NumberInv'
<1>1. /\ pc[u] = "make seq" /\ pc' = [pc EXCEPT ![u] = "lock seq"] /\ seqfile' = Empty
      /\ byClock' = byClock \cup {u} /\ UNCHANGED <<seqlock, seq, file, uucico, spoolfaults>>
  BY DEF MakeSeq, Goto
<1>2. pc'[u] = "lock seq" /\ \A v \in Users \ {u} : pc'[v] = pc[v]
  BY <1>1 DEF FileInv, SpoolTypeOK
<1>3. Makers'
  <2>1. byClock \subseteq Users
    BY DEF FileInv, SpoolTypeOK
  <2> QED BY <1>1, <1>2, <2>1, ConstantFacts DEF NumberInv, Makers
<1>4. ASSUME OneClock' PROVE OneMaker' /\ Row'
  <2>1. u \notin byClock
    BY <1>1 DEF NumberInv, Makers
  <2>2. byClock = {}
    BY <1>1, <1>4, <2>1 DEF OneClock
  <2>3. seqfile = Missing /\ Wrote = {}
    BY <1>1, <2>2 DEF NumberInv, Makers
  <2>4. \A v \in Users : pc[v] \notin {"lock seq", "read seq", "write seq"}
    BY <2>3 DEF FileInv, SeqType
  <2>5. Wrote' = {}
    <3>1. \A v \in Users : v \notin Wrote
      BY <2>3
    <3>2. seq[u] = Nil /\ seq' = seq
      BY <1>1 DEF FileInv, SeqType, Early
    <3> QED BY <1>1, <1>2, <3>1, <3>2 DEF Wrote
  <2>6. \A v \in Users : pc'[v] # "write seq"
    BY <1>2, <2>4
  <2>7. OneMaker'
    BY <1>1, <2>5, <2>6 DEF OneMaker
  <2> QED BY <2>5, <2>7 DEF Row
<1> QED BY <1>3, <1>4 DEF NumberInv

LEMMA ReadSeqNumber ==
    ASSUME FileInv, NumberInv, NEW u \in Users, ReadSeq(u) PROVE NumberInv'
<1>0. ReadDoes(u)
  BY ReadFacts
<1>1. /\ pc[u] = "read seq" /\ pc'[u] = "write seq" /\ seqfile' = seqfile /\ seq[u] = Nil
      /\ \A v \in Users \ {u} : pc'[v] = pc[v] /\ seq'[v] = seq[v]
      /\ seq'[u] = (IF u \in byClock \/ seqfile = Empty THEN Now ELSE seqfile) % SeqLimit
      /\ byClock' = IF u \in byClock \/ seqfile = Empty THEN byClock \cup {u} ELSE byClock
  BY <1>0 DEF ReadDoes
<1>2. byClock \subseteq byClock' /\ byClock' \subseteq byClock \cup {u}
      /\ (u \in byClock' <=> u \in byClock \/ seqfile = Empty) /\ (byClock = {} => seqfile = Empty \/ byClock' = {})
  BY <1>1
<1>3. Wrote' = Wrote /\ \A v \in Wrote : v # u /\ v \in Users
  BY <1>1 DEF Wrote
<1>4. seqfile # Missing /\ byClock \subseteq Users
  BY <1>1 DEF FileInv, SeqType, SpoolTypeOK
<1>5. Makers'
  BY <1>1, <1>2, <1>3, <1>4 DEF NumberInv, Makers
<1>6. ASSUME OneClock' PROVE OneMaker' /\ Row'
  <2>1. OneClock
    BY <1>2, <1>6 DEF OneClock
  <2>2. OneMaker /\ Row /\ Makers
    BY <2>1 DEF NumberInv
  <2>3. OneMaker'
    BY <1>1, <1>2, <1>3, <1>4, <2>2 DEF OneMaker
  <2>4. \A v \in Wrote : seq'[v] = seq[v]
    BY <1>1, <1>3
  <2>5. ASSUME Wrote # {} PROVE seq'[u] = seqfile % SeqLimit
    <3>1. u \notin byClock /\ seqfile # Empty
      BY <1>1, <2>2, <2>5 DEF OneMaker
    <3> QED BY <1>1, <3>1
  <2>6. ASSUME NEW v \in Users, pc'[v] = "write seq", Wrote # {}
        PROVE  seq'[v] = seqfile % SeqLimit
    <3>1. CASE v = u
      BY <2>5, <2>6, <3>1
    <3>2. CASE v # u
      BY <1>1, <2>2, <2>6, <3>2 DEF Row
    <3> QED BY <3>1, <3>2
  <2>7. Row'
    BY <1>1, <1>3, <2>2, <2>4, <2>6, RowKept
  <2> QED BY <2>3, <2>7
<1> QED BY <1>5, <1>6 DEF NumberInv

\* The number written is the next in the row, or the first.
LEMMA WriteSeqNumber ==
    ASSUME FewJobs, FileInv, NumberInv, NEW u \in Users, WriteSeq(u) PROVE NumberInv'
<1>0. WriteDoes(u)
  BY WriteFacts
<1>1. /\ pc[u] = "write seq" /\ pc'[u] = "open exec" /\ \A v \in Users \ {u} : pc'[v] = pc[v]
      /\ seqlock = u /\ seqlock' = Nil /\ seqfile' = seq[u] + 1
      /\ seq[u] \in 0..(SeqLimit - 1) /\ Wrote' = Wrote \cup {u} /\ u \notin Wrote
      /\ seq' = seq /\ byClock' = byClock
  BY <1>0 DEF WriteDoes
<1>2. SeqLimit \in Nat \ {0} /\ Wrote \subseteq Users
  BY ConstantFacts DEF Wrote
<1>3. seqfile' \in 1..SeqLimit /\ seqfile' \in Nat /\ byClock \subseteq Users
  <2>1. seqfile' = seq[u] + 1 /\ seq[u] \in 0..(SeqLimit - 1)
    BY <1>1
  <2> QED BY <1>2, <2>1 DEF FileInv, SpoolTypeOK
<1>4. seqfile' # Missing /\ seqfile' # Empty
  BY <1>3, ConstantFacts
<1>5. Makers'
  <2>1. Makers
    BY DEF NumberInv
  <2>2. \A v \in Users : pc'[v] \in {"open seq", "make seq"} => pc[v] = pc'[v] /\ v # u
    BY <1>1
  <2>3. \A v \in Users : pc[v] = "make seq" => byClock # {}
    <3>1. seqfile # Missing
      BY <1>1 DEF FileInv, SeqType
    <3> QED BY <2>1, <3>1 DEF Makers
  <2> QED BY <1>1, <1>3, <1>4, <2>1, <2>2, <2>3 DEF Makers
<1>6. OneClock' <=> OneClock
  BY <1>1 DEF OneClock
<1>7. \A v \in Users : pc'[v] # "write seq"
  <2>1. \A v \in Users : pc[v] = "write seq" => v = u
    BY <1>1 DEF FileInv, SeqType
  <2> QED BY <1>1, <2>1
<1>8. ASSUME OneClock PROVE OneMaker' /\ Row'
  <2>1. OneMaker /\ Row
    BY <1>8 DEF NumberInv
  <2>2. OneMaker'
    <3>1. ASSUME NEW v \in byClock, pc'[v] \in {"lock seq", "read seq"} PROVE FALSE
      <4>1. v \in Users /\ v # u
        BY <1>1, <3>1 DEF FileInv, SpoolTypeOK
      <4>2. seqfile = Empty
        BY <1>1, <2>1, <3>1, <4>1 DEF OneMaker
      <4>3. u \in byClock
        BY <1>1, <2>1, <4>2 DEF OneMaker
      <4> QED BY <1>8, <4>1, <4>3 DEF OneClock
    <3> QED BY <1>1, <1>4, <3>1 DEF OneMaker
  <2>3. IsFiniteSet(Wrote) /\ Cardinality(Wrote) \in Nat
    BY <1>2, ConstantFacts, FS_Subset, FS_CardinalityType
  <2>4. Cardinality(Wrote') = Cardinality(Wrote) + 1
    BY <1>1, <2>3, FS_AddElement
  <2>5. Cardinality(Wrote') <= SeqLimit
    <3>1. Wrote' \subseteq Users
      BY <1>1, <1>2
    <3>2. Cardinality(Wrote') <= Cardinality(Users)
      BY <3>1, ConstantFacts, FS_Subset
    <3>3. Cardinality(Users) \in Nat /\ Base \in Nat
      BY ConstantFacts, FS_CardinalityType
    <3>4. Cardinality(Wrote') \in Nat
      BY <2>3, <2>4
    <3> QED BY <1>2, <3>2, <3>3, <3>4 DEF FewJobs
  <2>6. Behind(seqfile', seq[u]) = 1
    <3>1. seqfile' = seq[u] + 1 /\ seq[u] \in 0..(SeqLimit - 1)
      BY <1>1
    <3>2. seq[u] \in Nat
      BY <1>2, <3>1
    <3> QED BY <3>1, <3>2 DEF Behind
  <2>7. ASSUME NEW v \in Wrote
        PROVE  /\ Behind(seqfile', seq[v]) = Behind(seqfile, seq[v]) + 1
               /\ Behind(seqfile, seq[v]) \in 1..Cardinality(Wrote)
    <3>1. seqfile \in 1..SeqLimit /\ Behind(seqfile, seq[v]) \in 1..Cardinality(Wrote)
      BY <2>1, <2>7 DEF Row
    <3>2. seq[v] \in 0..(SeqLimit - 1)
      BY <1>2, <2>7, NumberFacts DEF FileInv, Wrote
    <3>3. Behind(seqfile, seq[v]) < SeqLimit
      BY <1>2, <2>3, <2>4, <2>5, <3>1
    <3>4. seq[u] = seqfile % SeqLimit
      BY <1>1, <2>1, <2>7 DEF Row
    <3>5. Behind((seqfile % SeqLimit) + 1, seq[v]) = Behind(seqfile, seq[v]) + 1
      BY <3>1, <3>2, <3>3, NextBehind
    <3> QED BY <1>1, <3>1, <3>4, <3>5
  <2>8. \A v \in Wrote' : Behind(seqfile', seq[v]) \in 1..Cardinality(Wrote')
    <3>1. \A v \in Wrote : Behind(seqfile', seq[v]) \in 1..(Cardinality(Wrote) + 1)
      BY <2>3, <2>7
    <3>2. 1 \in 1..(Cardinality(Wrote) + 1)
      BY <2>3
    <3> QED BY <1>1, <2>4, <2>6, <3>1, <3>2
  <2>9. ASSUME NEW v \in Wrote', NEW w \in Wrote',
               Behind(seqfile', seq[v]) = Behind(seqfile', seq[w])
        PROVE  v = w
    <3>1. \A x \in Wrote : Behind(seqfile', seq[x]) # 1
      BY <2>3, <2>7
    <3>2. v = u <=> w = u
      BY <1>1, <2>6, <2>9, <3>1
    <3>3. ASSUME v # u PROVE v = w
      <4>1. v \in Wrote /\ w \in Wrote
        BY <1>1, <3>2, <3>3
      <4>2. Behind(seqfile, seq[v]) = Behind(seqfile, seq[w])
        BY <2>3, <2>7, <2>9, <4>1
      <4> QED BY <2>1, <4>1, <4>2 DEF Row
    <3> QED BY <3>2, <3>3
  <2>10. Row'
    BY <1>1, <1>3, <1>7, <2>8, <2>9 DEF Row
  <2> QED BY <2>2, <2>10
<1> QED BY <1>5, <1>6, <1>8 DEF NumberInv

LEMMA NextNumberInv ==
    ASSUME FewJobs, FileInv, NumberInv, [SpoolNext]_spoolVars PROVE NumberInv'
<1>0. byClock \subseteq Users
  BY DEF FileInv, SpoolTypeOK
<1>1. ASSUME NEW u \in Users, OpenSeq(u) \/ LockSeq(u) PROVE NumberInv'
  <2>1. UNCHANGED <<seqfile, seq, byClock>> /\ (\A v \in Users \ {u} : pc'[v] = pc[v])
        /\ \/ pc[u] = "open seq" /\ pc'[u] = "make seq" /\ seqfile = Missing
           \/ pc[u] = "open seq" /\ pc'[u] = "lock seq"
           \/ pc[u] = "lock seq" /\ pc'[u] = "read seq"
    BY <1>1 DEF OpenSeq, LockSeq, Goto, seqVars, FileInv, SpoolTypeOK
  <2>2. seq[u] = Nil
    BY <2>1 DEF FileInv, SeqType, Early
  <2>3. Wrote' = Wrote
    BY <2>1, <2>2 DEF Wrote
  <2>4. \A v \in Users : Leaves(v)
    BY <2>1 DEF Leaves
  <2> QED BY <1>0, <2>1, <2>3, <2>4, NumberSame
<1>2. ASSUME NEW u \in Users, OpenExec(u) \/ OpenData(u) \/ CloseData(u) \/ CloseExec(u)
                              \/ OpenCall(u) \/ CloseCall(u)
      PROVE  NumberInv'
  <2>1. UNCHANGED <<seqfile, seq, byClock>> /\ (\A v \in Users \ {u} : pc'[v] = pc[v])
        /\ pc[u] \in Filing
        /\ pc'[u] \in {"open data", "close data", "close exec", "open call", "close call", "queued"}
    BY <1>2 DEF OpenExec, OpenData, CloseData, CloseExec, OpenCall, CloseCall, Goto, seqVars,
                Filing, FileInv, SpoolTypeOK
  <2>2. Wrote' = Wrote
    BY <2>1 DEF Wrote, Filing
  <2>3. \A v \in Users : Leaves(v)
    BY <2>1 DEF Leaves, Early
  <2> QED BY <1>0, <2>1, <2>2, <2>3, NumberSame
<1>3. ASSUME NEW u \in Users, Die(u) PROVE NumberInv'
  <2>1. /\ seqfile' = seqfile /\ byClock' = byClock /\ pc' = [pc EXCEPT ![u] = "dead"]
        /\ seq' = [seq EXCEPT ![u] = IF pc[u] = "write seq" THEN Nil ELSE @]
    BY <1>3 DEF Die
  <2>2. /\ pc'[u] = "dead" /\ \A v \in Users \ {u} : pc'[v] = pc[v] /\ seq'[v] = seq[v]
        /\ seq'[u] = (IF pc[u] = "write seq" THEN Nil ELSE seq[u])
    BY <2>1 DEF FileInv, SpoolTypeOK
  <2>3. seq'[u] # Nil <=> seq[u] # Nil /\ pc[u] # "write seq"
    BY <2>2
  <2>4. Wrote' = Wrote /\ \A v \in Wrote : seq'[v] = seq[v]
    BY <2>2, <2>3 DEF Wrote
  <2>5. \A v \in Users : Leaves(v)
    BY <2>2 DEF Leaves, Early
  <2> QED BY <1>0, <2>1, <2>4, <2>5, NumberSame
<1>4. ASSUME Session \/ LoseLine \/ UNCHANGED spoolVars PROVE NumberInv'
  <2>1. UNCHANGED <<pc, seqVars>>
    BY <1>4 DEF Session, CallUp, scandir, NoMore, ReadCall, Send, EndOfCall, LoseLine, spoolVars
  <2>2. UNCHANGED <<pc, seq, seqfile, byClock>> /\ Wrote' = Wrote
    BY <2>1 DEF seqVars, Wrote
  <2>3. \A v \in Users : Leaves(v)
    BY <2>2 DEF Leaves
  <2> QED BY <1>0, <2>2, <2>3, NumberSame
<1> QED BY <1>1, <1>2, <1>3, <1>4, MakeSeqNumber, ReadSeqNumber, WriteSeqNumber DEF SpoolNext, uux

\* Two programs with files, or one with files and the one that is to write.
LEMMA RowApart ==
    ASSUME FewJobs, FileInv, Row, NEW u \in Users, NEW v \in Wrote, u # v, seq[u] # Nil
    PROVE  JobNumber(u) # JobNumber(v)
<1> DEFINE w == Cardinality(Wrote)
<1>1. /\ SeqLimit \in Nat \ {0} /\ Base \in Nat /\ IsFiniteSet(Users) /\ Wrote \subseteq Users
      /\ IsFiniteSet(Wrote) /\ w \in Nat /\ Cardinality(Users) \in Nat /\ w <= Cardinality(Users)
  BY ConstantFacts, FS_Subset, FS_CardinalityType DEF Wrote
<1>2. seq[u] \in 0..(SeqLimit - 1) /\ seq[v] \in 0..(SeqLimit - 1)
  BY <1>1, NumberFacts DEF FileInv, Wrote
<1>3. seqfile \in 1..SeqLimit /\ Behind(seqfile, seq[v]) \in 1..w
  BY DEF Row
<1>4. CASE u \in Wrote
  <2>1. Behind(seqfile, seq[u]) \in 1..w /\ Behind(seqfile, seq[u]) # Behind(seqfile, seq[v])
    BY <1>4 DEF Row
  <2> DEFINE x == Behind(seqfile, seq[u])
             y == Behind(seqfile, seq[v])
  <2>2. CASE x < y
    <3>1. /\ y - x \in Nat /\ 0 < y - x /\ y - x < Cardinality(Users)
          /\ seq[u] - seq[v] = y - x \/ seq[v] - seq[u] = SeqLimit - (y - x)
      <4> HIDE DEF w
      <4>1. /\ seqfile \in Int /\ SeqLimit \in Int /\ seq[u] \in Int /\ seq[v] \in Int
            /\ x = (IF seqfile > seq[u] THEN seqfile - seq[u] ELSE seqfile + SeqLimit - seq[u])
            /\ y = (IF seqfile > seq[v] THEN seqfile - seq[v] ELSE seqfile + SeqLimit - seq[v])
        BY <1>1, <1>2, <1>3 DEF Behind
      <4>2. x \in 1..w /\ y \in 1..w
        BY <1>3, <2>1
      <4> HIDE DEF x, y
      <4> QED BY <1>1, <1>2, <1>3, <2>2, <4>1, <4>2
    <3> HIDE DEF x, y
    <3>2. seq[u] % Base # seq[v] % Base
      BY <1>2, <3>1, RowNames
    <3> QED BY <3>2 DEF JobNumber
  <2>3. CASE y < x
    <3>1. /\ x - y \in Nat /\ 0 < x - y /\ x - y < Cardinality(Users)
          /\ seq[v] - seq[u] = x - y \/ seq[u] - seq[v] = SeqLimit - (x - y)
      <4> HIDE DEF w
      <4>1. /\ seqfile \in Int /\ SeqLimit \in Int /\ seq[u] \in Int /\ seq[v] \in Int
            /\ x = (IF seqfile > seq[u] THEN seqfile - seq[u] ELSE seqfile + SeqLimit - seq[u])
            /\ y = (IF seqfile > seq[v] THEN seqfile - seq[v] ELSE seqfile + SeqLimit - seq[v])
        BY <1>1, <1>2, <1>3 DEF Behind
      <4>2. x \in 1..w /\ y \in 1..w
        BY <1>3, <2>1
      <4> HIDE DEF x, y
      <4> QED BY <1>1, <1>2, <1>3, <2>3, <4>1, <4>2
    <3> HIDE DEF x, y
    <3>2. seq[u] % Base # seq[v] % Base
      BY <1>2, <3>1, RowNames
    <3> QED BY <3>2 DEF JobNumber
  <2>4. x \in Int /\ y \in Int
    BY <1>1, <1>3, <2>1
  <2> QED BY <2>1, <2>2, <2>3, <2>4
<1>5. CASE u \notin Wrote
  <2>1. pc[u] = "write seq" /\ seq[u] = seqfile % SeqLimit
    BY <1>5 DEF Row, Wrote
  <2>2. w < Cardinality(Users)
    <3>1. Wrote \cup {u} \subseteq Users
      BY <1>1
    <3>2. Cardinality(Wrote \cup {u}) <= Cardinality(Users)
      BY <1>1, <3>1, FS_Subset
    <3>3. Cardinality(Wrote \cup {u}) = w + 1
      BY <1>1, <1>5, FS_AddElement
    <3> HIDE DEF w
    <3> QED BY <1>1, <3>2, <3>3
  <2> DEFINE d == Behind(seqfile, seq[v])
  <2> HIDE DEF w
  <2>3. d \in Nat /\ 0 < d /\ d < Cardinality(Users)
    BY <1>1, <1>3, <2>2
  <2>4. seqfile % SeqLimit = IF seqfile = SeqLimit THEN 0 ELSE seqfile
    <3>1. CASE seqfile = SeqLimit
      BY <1>1, <3>1
    <3>2. CASE seqfile < SeqLimit
      BY <1>1, <1>3, <3>2
    <3> QED BY <1>1, <1>3, <3>1, <3>2
  <2>5. d = IF seqfile > seq[v] THEN seqfile - seq[v] ELSE seqfile + SeqLimit - seq[v]
    BY DEF Behind
  <2>6. Cardinality(Users) <= SeqLimit
    BY <1>1 DEF FewJobs
  <2> HIDE DEF d
  <2>7. seq[u] - seq[v] = d \/ seq[v] - seq[u] = SeqLimit - d
    <3>1. seq[u] = IF seqfile = SeqLimit THEN 0 ELSE seqfile
      BY <2>1, <2>4
    <3>2. seq[u] \in Int /\ seq[v] \in 0..(SeqLimit - 1) /\ seqfile \in 1..SeqLimit /\ SeqLimit \in Int
      BY <1>1, <1>2, <1>3
    <3> QED BY <2>3, <2>5, <3>1, <3>2
  <2>8. seq[u] % Base # seq[v] % Base
    BY <1>2, <2>3, <2>7, RowNames
  <2> QED BY <2>8 DEF JobNumber
<1> QED BY <1>4, <1>5

LEMMA InvUniqueNames == FewJobs /\ FileInv /\ NumberInv => UniqueNames
<1> SUFFICES ASSUME FewJobs, FileInv, NumberInv, Cardinality(byClock) <= 1,
                    NEW u \in Users, seq[u] # Nil, NEW v \in Users, seq[v] # Nil, u # v
             PROVE  JobNumber(v) # JobNumber(u)
  BY DEF UniqueNames, Alone, Numbered
<1>1. OneClock
  <2>1. IsFiniteSet(byClock) /\ byClock \subseteq Users
    BY ConstantFacts, FS_Subset DEF FileInv, SpoolTypeOK
  <2>2. SUFFICES ASSUME NEW x \in byClock, NEW y \in byClock, x # y PROVE FALSE
    BY DEF OneClock
  <2>3. Cardinality({x, y}) = 2
    <3>1. Cardinality({x}) = 1 /\ IsFiniteSet({x})
      BY FS_Singleton
    <3>2. Cardinality({x} \cup {y}) = 2
      BY <2>2, <3>1, FS_AddElement
    <3>3. {x} \cup {y} = {x, y}
      OBVIOUS
    <3> QED BY <3>2, <3>3
  <2>4. Cardinality({x, y}) <= Cardinality(byClock) /\ Cardinality(byClock) \in Nat
    BY <2>1, FS_Subset, FS_CardinalityType
  <2> QED BY <2>3, <2>4
<1>2. Row
  BY <1>1 DEF NumberInv
<1>3. u \in Wrote \/ v \in Wrote
  <2>1. ASSUME pc[u] = "write seq", pc[v] = "write seq" PROVE FALSE
    BY <2>1 DEF FileInv, SeqType
  <2> QED BY <2>1 DEF Wrote
<1> QED BY <1>2, <1>3, RowApart

LEMMA InvQueueSafe == FewJobs /\ FileInv /\ NumberInv => QueueSafe
BY InvUniqueNames, InvWholeJobs, InvStaysQueued DEF QueueSafe, FileInv

(***************************************************************************)
(* getseq and JobNumber: however many uux programs run at once, and        *)
(* wherever one dies, two jobs have names of their own when at most one    *)
(* had to take its number from the clock; what is sent is whole, and a     *)
(* queued job stays until it is sent.  The jobs are few enough: no more    *)
(* than there are numbers before the names come back.                      *)
(***************************************************************************)
THEOREM JobsSafe == ASSUME FewJobs PROVE SpoolSpec => []QueueSafe
<1> DEFINE Inv == FileInv /\ NumberInv
<1>1. SpoolInit => Inv
  BY InitFileInv, InitNumberInv
<1>2. Inv /\ [SpoolNext]_spoolVars => Inv'
  BY NextFileInv, NextNumberInv
<1>3. Inv => QueueSafe
  BY InvQueueSafe
<1> QED BY <1>1, <1>2, <1>3, PTL DEF SpoolSpec
=============================================================================
