--------------------------- MODULE GPacketProofs ---------------------------
(***************************************************************************)
(* Proofs about GPacket.tla, for every window size up to MAXSEQ - 1, every *)
(* number of packets and every bound on errors and faults.  The invariant  *)
(* is GPacketInv's: TypeOK /\ ReceivedInOrder.  Each action has a lemma    *)
(* that it keeps it; the actions that are an iteration of gmachine's loop  *)
(* share EndOfLoopStep (what it sends and where it leaves the host) and    *)
(* Kept (the invariant when no packet is accepted or handed over).         *)
(***************************************************************************)
EXTENDS GPacketInv, TLAPS

(***************************************************************************)
(* Arithmetic of sequence numbers                                          *)
(***************************************************************************)
\* nextpkt steps a number modulo MAXSEQ to the next one.
LEMMA SeqNo ==
    ASSUME NEW n \in Nat
    PROVE  /\ n % MAXSEQ \in Slots
           /\ nextpkt(n % MAXSEQ) = (n + 1) % MAXSEQ
<1>. USE WindowAssumption DEF Slots, nextpkt
<1>1. CASE MAXSEQ = 2 BY <1>1
<1>2. CASE MAXSEQ = 3 BY <1>2
<1>3. CASE MAXSEQ = 4 BY <1>3
<1>4. CASE MAXSEQ = 5 BY <1>4
<1>5. CASE MAXSEQ = 6 BY <1>5
<1>6. CASE MAXSEQ = 7 BY <1>6
<1>7. CASE MAXSEQ = 8 BY <1>7
<1>. QED BY <1>1, <1>2, <1>3, <1>4, <1>5, <1>6, <1>7

\* Counts less than MAXSEQ apart with the same number are the same count.
LEMMA SeqNoUnique ==
    ASSUME NEW a \in Nat, NEW b \in Nat,
           a % MAXSEQ = b % MAXSEQ, a - b < MAXSEQ, b - a < MAXSEQ
    PROVE  a = b
<1>. USE WindowAssumption DEF Slots, nextpkt
<1>1. CASE MAXSEQ = 2 BY <1>1
<1>2. CASE MAXSEQ = 3 BY <1>2
<1>3. CASE MAXSEQ = 4 BY <1>3
<1>4. CASE MAXSEQ = 5 BY <1>4
<1>5. CASE MAXSEQ = 6 BY <1>5
<1>6. CASE MAXSEQ = 7 BY <1>6
<1>7. CASE MAXSEQ = 8 BY <1>7
<1>. QED BY <1>1, <1>2, <1>3, <1>4, <1>5, <1>6, <1>7

\* The distance between two numbers is the distance between the counts.
LEMMA SeqNoDiff ==
    ASSUME NEW a \in Nat, NEW b \in Nat, a <= b, b - a < MAXSEQ
    PROVE  ((b % MAXSEQ) - (a % MAXSEQ)) % MAXSEQ = b - a
<1>. USE WindowAssumption DEF Slots, nextpkt
<1>1. CASE MAXSEQ = 2 BY <1>1
<1>2. CASE MAXSEQ = 3 BY <1>2
<1>3. CASE MAXSEQ = 4 BY <1>3
<1>4. CASE MAXSEQ = 5 BY <1>4
<1>5. CASE MAXSEQ = 6 BY <1>5
<1>6. CASE MAXSEQ = 7 BY <1>6
<1>7. CASE MAXSEQ = 8 BY <1>7
<1>. QED BY <1>1, <1>2, <1>3, <1>4, <1>5, <1>6, <1>7

\* The macro between of dcpgpkt.c, on numbers in a window, compares the counts
\* they stand for: yyy acknowledges something new iff its count is above a.
LEMMA BetweenCounts ==
    ASSUME NEW a \in Nat, NEW u \in Nat, NEW n \in Nat,
           a <= u, u <= n, n - a < MAXSEQ
    PROVE  between((a + 1) % MAXSEQ, u % MAXSEQ, (n + 1) % MAXSEQ) <=> a < u
<1>. USE WindowAssumption DEF between
<1>1. CASE MAXSEQ = 2 BY <1>1
<1>2. CASE MAXSEQ = 3 BY <1>2
<1>3. CASE MAXSEQ = 4 BY <1>3
<1>4. CASE MAXSEQ = 5 BY <1>4
<1>5. CASE MAXSEQ = 6 BY <1>5
<1>6. CASE MAXSEQ = 7 BY <1>6
<1>7. CASE MAXSEQ = 8 BY <1>7
<1>. QED BY <1>1, <1>2, <1>3, <1>4, <1>5, <1>6, <1>7

\* The agreed window leaves at least one sequence number unused.
LEMMA WindowRange == /\ nwindows \in 1..(MAXSEQ - 1)
                     /\ MAXSEQ \in 2..8
BY WindowAssumption DEF nwindows, Hosts

(***************************************************************************)
(* Packets on a line                                                       *)
(***************************************************************************)

\* A packet that a host with s sent, a of it acknowledged, and up accepted
\* may put on the line.
Fresh(m, s, a, up) ==
    /\ m.type # "CLOSE" => m.upto = up /\ m.yyy = up % MAXSEQ
    /\ m.type = "DATA" =>
          /\ m.data.id \in (a + 1)..Len(s)
          /\ m.data = s[m.data.id]
          /\ m.xxx = m.data.id % MAXSEQ

\* The types of a packet's fields.
LEMMA MessageFields ==
    ASSUME NEW m \in Message
    PROVE  /\ m.upto \in Nat /\ m.yyy \in Slots /\ m.xxx \in Slots
           /\ m.type \in {"DATA", "ACK", "NAK", "CLOSE"}
           /\ m.data \in Payload /\ m.data.id \in Nat
<1>. MaxPkts[Caller] \in Nat /\ MaxPkts[Answerer] \in Nat
  BY BoundsAssumption DEF Hosts
<1>. QED BY DEF Message, Payload

\* A line keeps what it holds and takes a prefix of what is written to it.
LEMMA PutElements ==
    ASSUME NEW c \in Seq(Message), NEW ms \in Seq(Message)
    PROVE  /\ Put(c, ms) \in Seq(Message)
           /\ Len(Put(c, ms)) >= Len(c)
           /\ Len(Put(c, ms)) <= Len(c) + Len(ms)
           /\ \A i \in 1..Len(c) : Put(c, ms)[i] = c[i]
           /\ \A i \in (Len(c) + 1)..Len(Put(c, ms)) :
                 Put(c, ms)[i] = ms[i - Len(c)]
<1>. DEFINE room == LineCap - Len(c)
<1>. LineCap \in Nat BY BoundsAssumption
<1>1. CASE Len(ms) <= room
  BY <1>1 DEF Put
<1>2. CASE ~(Len(ms) <= room)
  <2>. DEFINE part == SubSeq(ms, 1, room)
  <2>1. Put(c, ms) = c \o part
    BY <1>2 DEF Put
  <2>2. /\ part \in Seq(Message)
        /\ Len(part) = IF room >= 1 THEN room ELSE 0
        /\ \A i \in 1..Len(part) : part[i] = ms[i]
    BY <1>2
  <2>3. Len(part) <= Len(ms) BY <1>2, <2>2
  <2>. HIDE DEF part
  <2>4. /\ c \o part \in Seq(Message)
        /\ Len(c \o part) = Len(c) + Len(part)
        /\ \A i \in 1..(Len(c) + Len(part)) :
              (c \o part)[i] = IF i <= Len(c) THEN c[i] ELSE part[i - Len(c)]
    BY <2>2
  <2>5. ASSUME NEW i \in (Len(c) + 1)..(Len(c) + Len(part))
        PROVE  (c \o part)[i] = ms[i - Len(c)]
    <3>1. i - Len(c) \in 1..Len(part) /\ ~(i <= Len(c)) BY <2>2
    <3>. QED BY <2>2, <2>4, <3>1
  <2>. QED BY <2>1, <2>2, <2>3, <2>4, <2>5
<1>. QED BY <1>1, <1>2

\* Writing nothing leaves a line as it is.
LEMMA PutNothing ==
    ASSUME NEW c \in Seq(Message)
    PROVE  Put(c, <<>>) = c
<1>1. LineCap \in Nat /\ Len(c) \in Nat BY BoundsAssumption
<1>2. CASE 0 <= LineCap - Len(c) BY <1>2 DEF Put
<1>3. CASE ~(0 <= LineCap - Len(c))
  <2>1. SubSeq(<<>>, 1, LineCap - Len(c)) = <<>> BY <1>1, <1>3
  <2>2. Len(<<>>) = 0 OBVIOUS
  <2>3. Put(c, <<>>) = c \o <<>> BY <1>3, <2>1, <2>2 DEF Put
  <2>. QED BY <2>3
<1>. QED BY <1>2, <1>3

\* What Append does to the history of packets sent or got.
LEMMA AppendElements ==
    ASSUME NEW c \in Seq(Payload), NEW d \in Payload
    PROVE  /\ Append(c, d) \in Seq(Payload)
           /\ Len(Append(c, d)) = Len(c) + 1
           /\ Append(c, d)[Len(c) + 1] = d
           /\ \A i \in 1..Len(c) : Append(c, d)[i] = c[i]
OBVIOUS

\* A line stays in order when its sender sends or accepts more.
LEMMA LineGrow ==
    ASSUME NEW c \in Seq(Message), NEW s \in Seq(Payload),
           NEW t \in Seq(Payload), NEW acc \in Nat, NEW up \in Nat,
           NEW up2 \in Nat, NEW r \in Nat,
           LineOK(c, s, acc, up, r),
           Len(s) <= Len(t), \A i \in 1..Len(s) : t[i] = s[i], up <= up2
    PROVE  LineOK(c, t, acc, up2, r)
<1>1. ASSUME NEW i \in 1..Len(c) PROVE PacketOK(c[i], t, acc, up2, r)
  <2>1. PacketOK(c[i], s, acc, up, r) BY DEF LineOK
  <2>2. c[i] \in Message OBVIOUS
  <2>. QED BY <2>1, <2>2, MessageFields DEF PacketOK
<1>. QED BY <1>1 DEF LineOK

\* It stays in order when its receiver takes the first packet off and counts
\* what that packet acknowledges and, if it accepts it, the packet.
LEMMA LineTail ==
    ASSUME NEW c \in Seq(Message), c # <<>>, NEW s \in Seq(Payload),
           NEW acc \in Nat, NEW up \in Nat, NEW r \in Nat,
           LineOK(c, s, acc, up, r),
           NEW acc2 \in Nat, NEW r2 \in Nat,
           acc2 = acc \/ (Head(c).type # "CLOSE" /\ acc2 = Head(c).upto),
           r2 = r \/ (Head(c).type = "DATA" /\ r2 = Head(c).data.id)
    PROVE  Tail(c) \in Seq(Message) /\ LineOK(Tail(c), s, acc2, up, r2)
<1>. DEFINE d == Tail(c)
<1>1. /\ d \in Seq(Message)
      /\ Len(d) = Len(c) - 1
      /\ \A i \in 1..Len(d) : d[i] = c[i + 1] /\ i + 1 \in 1..Len(c)
      /\ Head(c) = c[1] /\ 1 \in 1..Len(c)
  OBVIOUS
<1>2. ASSUME NEW i \in 1..Len(d) PROVE PacketOK(d[i], s, acc2, up, r2)
  <2>1. PacketOK(c[i + 1], s, acc, up, r) BY <1>1 DEF LineOK
  <2>2. /\ c[1].type # "CLOSE" /\ c[i + 1].type # "CLOSE" =>
              c[1].upto <= c[i + 1].upto
        /\ c[1].type = "DATA" /\ c[i + 1].type = "DATA" =>
              c[1].data.id < c[i + 1].data.id + nwindows
    BY <1>1 DEF LineOK
  <2>. QED BY <1>1, <2>1, <2>2 DEF PacketOK
<1>3. ASSUME NEW i \in 1..Len(d), NEW j \in 1..Len(d), i < j
      PROVE  /\ d[i].type # "CLOSE" /\ d[j].type # "CLOSE" =>
                   d[i].upto <= d[j].upto
             /\ d[i].type = "DATA" /\ d[j].type = "DATA" =>
                   d[i].data.id < d[j].data.id + nwindows
  <2>1. i + 1 < j + 1 BY <1>1, <1>3
  <2>. QED BY <1>1, <1>3, <2>1 DEF LineOK
<1>. QED BY <1>1, <1>2, <1>3 DEF LineOK

\* It stays in order when its sender puts fresh packets on it.
LEMMA LinePut ==
    ASSUME NEW c \in Seq(Message), NEW ms \in Seq(Message),
           NEW s \in Seq(Payload), NEW a \in Nat,
           NEW acc \in Nat, NEW up \in Nat, NEW r \in Nat,
           LineOK(c, s, acc, up, r),
           \A i \in 1..Len(ms) : Fresh(ms[i], s, a, up),
           Len(s) <= a + nwindows, r <= Len(s), acc <= up
    PROVE  Put(c, ms) \in Seq(Message) /\ LineOK(Put(c, ms), s, acc, up, r)
<1>. DEFINE d == Put(c, ms)
<1>. nwindows \in Nat /\ Len(s) \in Nat BY WindowRange
<1>1. /\ d \in Seq(Message)
      /\ Len(d) >= Len(c)
      /\ Len(d) <= Len(c) + Len(ms)
      /\ \A i \in 1..Len(c) : d[i] = c[i]
      /\ \A i \in (Len(c) + 1)..Len(d) : d[i] = ms[i - Len(c)]
  BY PutElements
<1>2. ASSUME NEW i \in 1..Len(d), ~(i <= Len(c)) PROVE Fresh(d[i], s, a, up)
  <2>1. i \in (Len(c) + 1)..Len(d) BY <1>1, <1>2
  <2>2. i - Len(c) \in 1..Len(ms) BY <1>1, <2>1
  <2>. QED BY <1>1, <2>1, <2>2
<1>3. ASSUME NEW i \in 1..Len(d), i <= Len(c)
      PROVE  d[i] = c[i] /\ PacketOK(d[i], s, acc, up, r)
  BY <1>1, <1>3 DEF LineOK
<1>. HIDE DEF d
<1>4. ASSUME NEW i \in 1..Len(d) PROVE PacketOK(d[i], s, acc, up, r)
  <2>1. d[i] \in Message BY <1>1
  <2>2. CASE i <= Len(c) BY <1>3, <2>2
  <2>3. CASE ~(i <= Len(c))
    <3>1. Fresh(d[i], s, a, up) BY <1>2, <2>3
    <3>3. ASSUME d[i].type = "DATA"
          PROVE  /\ d[i].data.id \in 1..Len(s)
                 /\ r < d[i].data.id + nwindows
      <4>1. d[i].data.id \in (a + 1)..Len(s) BY <3>1, <3>3 DEF Fresh
      <4>. QED BY <4>1
    <3>. QED BY <3>1, <3>3 DEF Fresh, PacketOK
  <2>. QED BY <2>2, <2>3
<1>5. ASSUME NEW i \in 1..Len(d), NEW j \in 1..Len(d), i < j
      PROVE  /\ d[i].type # "CLOSE" /\ d[j].type # "CLOSE" =>
                   d[i].upto <= d[j].upto
             /\ d[i].type = "DATA" /\ d[j].type = "DATA" =>
                   d[i].data.id < d[j].data.id + nwindows
  <2>0. /\ d[i].upto \in Nat /\ d[i].data.id \in Nat
        /\ d[j].upto \in Nat /\ d[j].data.id \in Nat
    <3>1. d[i] \in Message /\ d[j] \in Message BY <1>1
    <3>. QED BY <3>1, MessageFields
  <2>1. CASE j <= Len(c)
    <3>1. i \in 1..Len(c) /\ j \in 1..Len(c) BY <1>1, <1>5, <2>1
    <3>. QED BY <1>1, <1>3, <1>5, <3>1, <2>1 DEF LineOK
  <2>2. CASE ~(j <= Len(c))
    <3>1. Fresh(d[j], s, a, up) BY <1>2, <2>2
    <3>2. PacketOK(d[i], s, acc, up, r) BY <1>4
    <3>3. /\ d[i].type # "CLOSE" => d[i].upto <= up
          /\ d[j].type # "CLOSE" => d[j].upto = up
      BY <3>1, <3>2 DEF Fresh, PacketOK
    <3>4. ASSUME d[i].type = "DATA", d[j].type = "DATA"
          PROVE  d[i].data.id < d[j].data.id + nwindows
      <4>. DEFINE x == d[i].data.id
                  y == d[j].data.id
      <4>1. x \in 1..Len(s) BY <3>2, <3>4 DEF PacketOK
      <4>2. y \in (a + 1)..Len(s) BY <3>1, <3>4 DEF Fresh
      <4>. HIDE DEF x, y
      <4>3. x < y + nwindows BY <4>1, <4>2
      <4>. QED BY <4>3 DEF x, y
    <3>. QED BY <3>3, <3>4
  <2>. QED BY <2>1, <2>2
<1>6. LineOK(d, s, acc, up, r)
  BY <1>4, <1>5 DEF LineOK
<1>. QED BY <1>1, <1>6 DEF d

(***************************************************************************)
(* Windows and acknowledgements                                            *)
(***************************************************************************)
\* There are two hosts, each the other's other.
LEMMA TwoHosts ==
    ASSUME NEW h \in Hosts
    PROVE  /\ Other(h) \in Hosts /\ Other(h) # h /\ Other(Other(h)) = h
           /\ \A g \in Hosts : g = h \/ g = Other(h)
BY HostsAssumption DEF Hosts, Other

\* Adding to a number is adding to its count.
LEMMA SeqNoPlus ==
    ASSUME NEW n \in Nat, NEW k \in Nat
    PROVE  ((n % MAXSEQ) + k) % MAXSEQ = (n + k) % MAXSEQ
<1>. USE WindowAssumption
<1>1. CASE MAXSEQ = 2 BY <1>1
<1>2. CASE MAXSEQ = 3 BY <1>2
<1>3. CASE MAXSEQ = 4 BY <1>3
<1>4. CASE MAXSEQ = 5 BY <1>4
<1>5. CASE MAXSEQ = 6 BY <1>5
<1>6. CASE MAXSEQ = 7 BY <1>6
<1>7. CASE MAXSEQ = 8 BY <1>7
<1>. QED BY <1>1, <1>2, <1>3, <1>4, <1>5, <1>6, <1>7

\* The counts are natural numbers, at most a window apart.
LEMMA Counts ==
    ASSUME TypeOK, ReceivedInOrder, NEW h \in Hosts
    PROVE  /\ Len(sent[h]) \in Nat /\ AckedCount(h) \in Nat
           /\ rcvd[h] \in Nat /\ rcvd[Other(h)] \in Nat
           /\ nbuffers[h] \in 0..nwindows
           /\ nbuffers[h] = Len(sent[h]) - AckedCount(h)
           /\ AckedCount(h) <= rcvd[Other(h)]
           /\ rcvd[Other(h)] <= Len(sent[h])
           /\ Len(sent[h]) <= AckedCount(h) + nwindows
           /\ swl[h] = (AckedCount(h) + 1) % MAXSEQ
           /\ swu[h] = (Len(sent[h]) + 1) % MAXSEQ
           /\ rwl[h] = rcvd[h] % MAXSEQ
           /\ nwindows \in 1..(MAXSEQ - 1) /\ MAXSEQ \in 2..8
<1>1. WindowInv(h) /\ CountInv(h) BY DEF ReceivedInOrder
<1>2. Other(h) \in Hosts BY TwoHosts
<1>3. /\ sent[h] \in Seq(Payload) /\ rcvd[h] \in Nat
      /\ rcvd[Other(h)] \in Nat
  BY <1>2 DEF TypeOK
<1>4. /\ nbuffers[h] \in 0..nwindows /\ nbuffers[h] <= Len(sent[h])
      /\ swl[h] = (AckedCount(h) + 1) % MAXSEQ
      /\ swu[h] = (Len(sent[h]) + 1) % MAXSEQ
  BY <1>1 DEF WindowInv
<1>5. /\ Len(sent[h]) \in Nat /\ AckedCount(h) \in Nat
      /\ nbuffers[h] = Len(sent[h]) - AckedCount(h)
      /\ Len(sent[h]) <= AckedCount(h) + nwindows
  <2>1. Len(sent[h]) \in Nat BY <1>3
  <2>. QED BY <1>4, <2>1, WindowRange DEF AckedCount
<1>. QED BY <1>1, <1>3, <1>4, <1>5, WindowRange DEF CountInv

\* gmachine's loop frees exactly the packets an acknowledgement stands for.
LEMMA AckedCounts ==
    ASSUME TypeOK, ReceivedInOrder, NEW h \in Hosts, NEW u \in Nat,
           AckedCount(h) <= u, u <= Len(sent[h])
    PROVE  Acked(h, u % MAXSEQ) = u - AckedCount(h)
<1>. DEFINE a == AckedCount(h)
            n == Len(sent[h])
<1>1. /\ a \in Nat /\ n \in Nat /\ n - a < MAXSEQ
      /\ swl[h] = (a + 1) % MAXSEQ /\ swu[h] = (n + 1) % MAXSEQ
      /\ MAXSEQ \in 2..8
  <2>. HIDE DEF a, n
  <2>1. /\ a \in Nat /\ n \in Nat /\ n <= a + nwindows
        /\ swl[h] = (a + 1) % MAXSEQ /\ swu[h] = (n + 1) % MAXSEQ
        /\ nwindows \in 1..(MAXSEQ - 1) /\ MAXSEQ \in 2..8
    BY Counts DEF a, n
  <2>2. n - a < MAXSEQ BY <2>1
  <2>. QED BY <2>1, <2>2
<1>. HIDE DEF a, n
<1>2. between(swl[h], u % MAXSEQ, swu[h]) <=> a < u
  BY <1>1, BetweenCounts DEF a, n
<1>3. ASSUME a < u
      PROVE  ((u % MAXSEQ) - swl[h]) % MAXSEQ = u - (a + 1)
  <2>1. a + 1 \in Nat /\ a + 1 <= u /\ u - (a + 1) < MAXSEQ
    <3>1. u <= n BY DEF n
    <3>. QED BY <1>1, <1>3, <3>1
  <2>2. ASSUME NEW x \in Int, x = (a + 1) % MAXSEQ
        PROVE  ((u % MAXSEQ) - x) % MAXSEQ = u - (a + 1)
    <3>1. ((u % MAXSEQ) - ((a + 1) % MAXSEQ)) % MAXSEQ = u - (a + 1)
      BY <2>1, SeqNoDiff
    <3>. QED BY <1>1, <2>1, <2>2, <3>1
  <2>3. swl[h] \in Int BY DEF TypeOK, Slots
  <2>. QED BY <1>1, <2>2, <2>3
<1>4. CASE a < u
  BY <1>1, <1>2, <1>3, <1>4 DEF Acked, a
<1>5. CASE ~(a < u)
  BY <1>1, <1>2, <1>5 DEF Acked, a
<1>. QED BY <1>4, <1>5

\* What is resent after packet a is what was sent after packet a.
LEMMA WindowFresh ==
    ASSUME TypeOK, ReceivedInOrder, NEW h \in Hosts, NEW a \in Nat,
           AckedCount(h) <= a, a <= Len(sent[h])
    PROVE  LET out == Window(h, (a + 1) % MAXSEQ, Len(sent[h]) - a)
           IN  /\ out \in Seq(Message)
               /\ \A i \in 1..Len(out) :
                     Fresh(out[i], sent[h], AckedCount(h), rcvd[h])
<1>. DEFINE n == Len(sent[h]) - a
            out == Window(h, (a + 1) % MAXSEQ, n)
            slot(i) == (a + i) % MAXSEQ
<1>1. /\ n \in Nat /\ a + n = Len(sent[h])
      /\ rcvd[h] \in Nat /\ rwl[h] = rcvd[h] % MAXSEQ
      /\ MAXSEQ \in 2..8
  BY Counts
<1>2. BufferInv(h) BY DEF ReceivedInOrder
<1>3. ASSUME NEW i \in 1..n
      PROVE  /\ (((a + 1) % MAXSEQ) + i - 1) % MAXSEQ = slot(i)
             /\ slot(i) \in Slots
             /\ outbuf[h][slot(i)] = sent[h][a + i]
             /\ sent[h][a + i] \in Payload
             /\ sent[h][a + i].id = a + i
             /\ a + i \in (a + 1)..Len(sent[h])
  <2>1. i - 1 \in Nat /\ a + i \in Nat /\ a + 1 \in Nat BY <1>1
  <2>2. (((a + 1) % MAXSEQ) + (i - 1)) % MAXSEQ = ((a + 1) + (i - 1)) % MAXSEQ
    BY <2>1, SeqNoPlus
  <2>3. (((a + 1) % MAXSEQ) + i - 1) % MAXSEQ = slot(i)
    <3>1. (a + 1) % MAXSEQ \in Nat BY <2>1, SeqNo DEF Slots
    <3>2. ((a + 1) % MAXSEQ) + i - 1 = ((a + 1) % MAXSEQ) + (i - 1) BY <2>1, <3>1
    <3>3. (a + 1) + (i - 1) = a + i OBVIOUS
    <3>. QED BY <2>2, <3>2, <3>3
  <2>4. slot(i) \in Slots BY <2>1, SeqNo
  <2>5. a + i \in (AckedCount(h) + 1)..Len(sent[h]) /\ a + i \in 1..Len(sent[h])
    <3>1. AckedCount(h) \in Nat BY Counts
    <3>. QED BY <1>1, <3>1
  <2>6. sent[h] \in Seq(Payload) BY DEF TypeOK
  <2>. QED BY <1>1, <1>2, <2>3, <2>4, <2>5, <2>6 DEF BufferInv
<1>4. out = [i \in 1..n |-> Data(slot(i), sent[h][a + i], rwl[h], rcvd[h])]
  <2>. HIDE DEF slot
  <2>. QED BY <1>3 DEF Window
<1>. HIDE DEF slot, n
<1>5. rwl[h] \in Slots BY DEF TypeOK
<1>6. ASSUME NEW i \in 1..n
      PROVE  /\ Data(slot(i), sent[h][a + i], rwl[h], rcvd[h]) \in Message
             /\ Fresh(Data(slot(i), sent[h][a + i], rwl[h], rcvd[h]),
                      sent[h], AckedCount(h), rcvd[h])
  <2>1. AckedCount(h) \in Nat /\ a + i \in (AckedCount(h) + 1)..Len(sent[h])
    <3>1. AckedCount(h) \in Nat BY Counts
    <3>2. a + i \in (a + 1)..Len(sent[h]) BY <1>3
    <3>. QED BY <1>1, <3>1, <3>2
  <2>. QED BY <1>1, <1>3, <1>5, <2>1 DEF Data, Message, Fresh, slot
<1>7. out \in Seq(Message) /\ Len(out) = n
  <2>1. n \in Nat BY <1>1
  <2>2. out \in [1..n -> Message] BY <1>4, <1>6
  <2>. HIDE DEF out
  <2>. QED BY <2>1, <2>2
<1>8. ASSUME NEW i \in 1..Len(out) 
      PROVE  Fresh(out[i], sent[h], AckedCount(h), rcvd[h])
  BY <1>4, <1>6, <1>7
<1>. QED BY <1>7, <1>8 DEF n

(***************************************************************************)
(* Sliding the send window                                                 *)
(***************************************************************************)

\* The timers left running are those of the smaller window.
LEMMA SlotDistance ==
    ASSUME NEW s \in Slots, NEW l \in Slots, NEW k \in Nat, NEW b \in Nat,
           k <= b, b < MAXSEQ
    PROVE  ((s - l) % MAXSEQ < b /\ (s - l) % MAXSEQ >= k)
              <=> (s - ((l + k) % MAXSEQ)) % MAXSEQ < b - k
<1>. USE WindowAssumption DEF Slots
<1>1. CASE MAXSEQ = 2 BY <1>1
<1>2. CASE MAXSEQ = 3 BY <1>2
<1>3. CASE MAXSEQ = 4 BY <1>3
<1>4. CASE MAXSEQ = 5 BY <1>4
<1>5. CASE MAXSEQ = 6 BY <1>5
<1>6. CASE MAXSEQ = 7 BY <1>6
<1>7. CASE MAXSEQ = 8 BY <1>7
<1>. QED BY <1>1, <1>2, <1>3, <1>4, <1>5, <1>6, <1>7

\* The slot a new packet goes to is the one after the window.
LEMMA SlotNext ==
    ASSUME NEW s \in Slots, NEW l \in Slots, NEW u \in Slots, NEW b \in Nat,
           b < MAXSEQ, (u - l) % MAXSEQ = b
    PROVE  (s - l) % MAXSEQ < b + 1 <=> (s = u \/ (s - l) % MAXSEQ < b)
<1>. USE WindowAssumption DEF Slots
<1>1. CASE MAXSEQ = 2 BY <1>1
<1>2. CASE MAXSEQ = 3 BY <1>2
<1>3. CASE MAXSEQ = 4 BY <1>3
<1>4. CASE MAXSEQ = 5 BY <1>4
<1>5. CASE MAXSEQ = 6 BY <1>5
<1>6. CASE MAXSEQ = 7 BY <1>6
<1>7. CASE MAXSEQ = 8 BY <1>7
<1>. QED BY <1>1, <1>2, <1>3, <1>4, <1>5, <1>6, <1>7

\* Freeing the buffers up to count u leaves the windows right.
LEMMA SlideInv ==
    ASSUME TypeOK, ReceivedInOrder, NEW h \in Hosts, NEW u \in Nat,
           AckedCount(h) <= u, u <= Len(sent[h]),
           Slide(h, u - AckedCount(h)), sent' = sent
    PROVE  /\ swl' \in [Hosts -> Slots] /\ swu' \in [Hosts -> Slots]
           /\ nbuffers' \in [Hosts -> Nat]
           /\ outbuf' \in [Hosts -> [Slots -> Payload]]
           /\ ftimer' \in [Hosts -> [Slots -> BOOLEAN]]
           /\ AckedCount(h)' = u
           /\ AckedCount(Other(h))' = AckedCount(Other(h))
           /\ \A g \in Hosts : WindowInv(g)' /\ BufferInv(g)' /\ TimerInv(g)'
<1>. DEFINE a == AckedCount(h)
            k == u - a
<1>1. /\ a \in Nat /\ k \in Nat /\ a + k = u /\ k <= nbuffers[h]
      /\ nbuffers[h] \in Nat /\ nbuffers[h] <= nwindows
      /\ nbuffers[h] = Len(sent[h]) - a /\ Len(sent[h]) \in Nat
      /\ swl[h] = (a + 1) % MAXSEQ /\ nbuffers[h] < MAXSEQ
      /\ nwindows \in 1..(MAXSEQ - 1) /\ MAXSEQ \in 2..8
  <2>. HIDE DEF a, k
  <2>1. /\ a \in Nat /\ nbuffers[h] \in 0..nwindows
        /\ nbuffers[h] = Len(sent[h]) - a /\ Len(sent[h]) \in Nat
        /\ swl[h] = (a + 1) % MAXSEQ
        /\ nwindows \in 1..(MAXSEQ - 1) /\ MAXSEQ \in 2..8
    BY Counts DEF a
  <2>2. a <= u BY DEF a
  <2>3. k \in Nat /\ a + k = u BY <2>1, <2>2 DEF k
  <2>4. k <= nbuffers[h] BY <2>1, <2>3
  <2>. QED BY <2>1, <2>3, <2>4
<1>2. /\ swl' = [swl EXCEPT ![h] = (swl[h] + k) % MAXSEQ]
      /\ nbuffers' = [nbuffers EXCEPT ![h] = nbuffers[h] - k]
      /\ ftimer' = [ftimer EXCEPT ![h] = [s \in Slots |->
                       ftimer[h][s] /\ (s - swl[h]) % MAXSEQ >= k]]
      /\ swu' = swu /\ outbuf' = outbuf
  BY DEF Slide
<1>3. \A g \in Hosts : WindowInv(g) /\ BufferInv(g) /\ TimerInv(g)
  BY DEF ReceivedInOrder
<1>4. /\ swl \in [Hosts -> Slots] /\ nbuffers \in [Hosts -> Nat]
      /\ swu \in [Hosts -> Slots]
      /\ outbuf \in [Hosts -> [Slots -> Payload]]
      /\ ftimer \in [Hosts -> [Slots -> BOOLEAN]]
  BY DEF TypeOK
<1>5. (swl[h] + k) % MAXSEQ \in Slots /\ (swl[h] + k) % MAXSEQ = (u + 1) % MAXSEQ
  <2>. HIDE DEF a, k
  <2>1. (((a + 1) % MAXSEQ) + k) % MAXSEQ = ((a + 1) + k) % MAXSEQ
    <3>1. a + 1 \in Nat /\ k \in Nat BY <1>1
    <3>. QED BY <3>1, SeqNoPlus
  <2>2. (a + 1) + k = u + 1 BY <1>1
  <2>3. (u + 1) % MAXSEQ \in Slots BY SeqNo
  <2>. QED BY <1>1, <2>1, <2>2, <2>3
<1>. HIDE DEF k, a
<1>6. /\ swl' \in [Hosts -> Slots] /\ swu' \in [Hosts -> Slots]
      /\ nbuffers' \in [Hosts -> Nat]
      /\ outbuf' \in [Hosts -> [Slots -> Payload]]
  BY <1>1, <1>2, <1>4, <1>5
<1>7. ftimer' \in [Hosts -> [Slots -> BOOLEAN]]
  <2>. DEFINE f == [s \in Slots |->
                       ftimer[h][s] /\ (s - swl[h]) % MAXSEQ >= k]
  <2>1. f \in [Slots -> BOOLEAN] BY <1>4, Zenon
  <2>. HIDE DEF f
  <2>2. ftimer' = [ftimer EXCEPT ![h] = f] BY <1>2 DEF f
  <2>. QED BY <1>4, <2>1, <2>2
<1>8. /\ nbuffers'[h] = nbuffers[h] - k /\ swl'[h] = (u + 1) % MAXSEQ
      /\ swu'[h] = swu[h]
  BY <1>2, <1>4, <1>5
<1>9. AckedCount(h)' = u
  <2>1. AckedCount(h)' = Len(sent[h]) - nbuffers'[h] BY DEF AckedCount
  <2>. QED BY <1>1, <1>8, <2>1
<1>10. WindowInv(h)'
  <2>1. WindowInv(h) BY <1>3
  <2>2. nbuffers'[h] \in 0..nwindows /\ nbuffers'[h] <= Len(sent[h])
    <3>1. /\ k \in Nat /\ k <= nbuffers[h] /\ nbuffers[h] <= nwindows
          /\ nbuffers[h] \in Nat /\ nwindows \in Nat
          /\ Len(sent[h]) \in Nat /\ nbuffers[h] <= Len(sent[h])
      BY <1>1
    <3>. QED BY <1>8, <3>1
  <2>. QED BY <1>8, <1>9, <2>1, <2>2 DEF WindowInv
<1>11. BufferInv(h)'
  <2>1. ASSUME NEW i \in (u + 1)..Len(sent[h])
        PROVE  i \in (a + 1)..Len(sent[h])
    BY <1>1
  <2>. QED BY <1>2, <1>3, <1>9, <2>1 DEF BufferInv, a
<1>12. TimerInv(h)'
  <2>1. ASSUME NEW s \in Slots
        PROVE  ftimer'[h][s] <=> (s - swl'[h]) % MAXSEQ < nbuffers'[h]
    <3>1. ftimer'[h][s] = (ftimer[h][s] /\ (s - swl[h]) % MAXSEQ >= k)
      BY <1>2, <1>4, Zenon
    <3>2. ftimer[h][s] <=> (s - swl[h]) % MAXSEQ < nbuffers[h]
      BY <1>3 DEF TimerInv
    <3>3. ((s - swl[h]) % MAXSEQ < nbuffers[h] /\ (s - swl[h]) % MAXSEQ >= k)
            <=> (s - ((swl[h] + k) % MAXSEQ)) % MAXSEQ < nbuffers[h] - k
      <4>1. swl[h] \in Slots BY <1>4
      <4>. QED BY <1>1, <4>1, SlotDistance DEF a, k
    <3>4. (s - swl'[h]) % MAXSEQ < nbuffers'[h]
            <=> (s - ((swl[h] + k) % MAXSEQ)) % MAXSEQ < nbuffers[h] - k
      BY <1>5, <1>8, Zenon
    <3>. QED BY <3>1, <3>2, <3>3, <3>4, Zenon
  <2>. QED BY <2>1 DEF TimerInv
<1>13. ASSUME NEW g \in Hosts, g # h
       PROVE  /\ AckedCount(g)' = AckedCount(g)
              /\ WindowInv(g)' /\ BufferInv(g)' /\ TimerInv(g)'
  <2>1. /\ swl'[g] = swl[g] /\ nbuffers'[g] = nbuffers[g]
        /\ ftimer'[g] = ftimer[g]
    BY <1>2, <1>4, <1>13
  <2>2. AckedCount(g)' = AckedCount(g) BY <2>1 DEF AckedCount
  <2>. QED BY <1>2, <1>3, <2>1, <2>2 DEF WindowInv, BufferInv, TimerInv
<1>. QED BY <1>6, <1>7, <1>9, <1>10, <1>11, <1>12, <1>13, TwoHosts

(***************************************************************************)
(* What an iteration of gmachine sends and where it leaves the host        *)
(***************************************************************************)
AllFresh(ms, h, up) ==
    \A i \in 1..Len(ms) : Fresh(ms[i], sent[h], AckedCount(h), up)

\* The host h goes on, or stops sending and getting.
Stays(h) ==
    /\ call'[h] # call[h] => call'[h] \in {"close"} \cup Over
    /\ call'[Other(h)] = call[Other(h)]
    /\ retry'[Other(h)] = retry[Other(h)]
    /\ call'[h] = "get" => retry'[h] > 0

\* The line is in order after everything one iteration sends.
LEMMA LineSend ==
    ASSUME TypeOK, ReceivedInOrder, NEW h \in Hosts,
           NEW up \in Nat, rcvd[h] <= up,
           NEW m1 \in Seq(Message), AllFresh(m1, h, up),
           NEW m2 \in Seq(Message), AllFresh(m2, h, up),
           NEW m3 \in Seq(Message), AllFresh(m3, h, up)
    PROVE  LET c == Put(Put(Put(line[Other(h)], m1), m2), m3)
           IN  /\ c \in Seq(Message)
               /\ LineOK(c, sent[h], AckedCount(Other(h)), up,
                         rcvd[Other(h)])
<1>. DEFINE s   == sent[h]
            a   == AckedCount(h)
            acc == AckedCount(Other(h))
            r   == rcvd[Other(h)]
            c0  == line[Other(h)]
<1>1. /\ s \in Seq(Payload) /\ a \in Nat /\ acc \in Nat /\ r \in Nat
      /\ c0 \in Seq(Message) /\ rcvd[h] \in Nat
      /\ Len(s) <= a + nwindows /\ r <= Len(s) /\ acc <= rcvd[h]
      /\ Len(s) \in Nat
  <2>1. Other(h) \in Hosts /\ Other(Other(h)) = h BY TwoHosts
  <2>2. s \in Seq(Payload) /\ c0 \in Seq(Message) BY <2>1 DEF TypeOK
  <2>3. acc \in Nat /\ acc <= rcvd[h] BY <2>1, Counts
  <2>. QED BY <2>2, <2>3, Counts
<1>2. LineOK(c0, s, acc, rcvd[h], r) BY DEF ReceivedInOrder, LineInv
<1>. HIDE DEF s, a, acc, r, c0
<1>3. acc <= up BY <1>1
<1>4. LineOK(c0, s, acc, up, r) BY <1>1, <1>2, LineGrow
<1>5. /\ \A i \in 1..Len(m1) : Fresh(m1[i], s, a, up)
      /\ \A i \in 1..Len(m2) : Fresh(m2[i], s, a, up)
      /\ \A i \in 1..Len(m3) : Fresh(m3[i], s, a, up)
  BY DEF AllFresh, s, a
<1>. DEFINE c1 == Put(c0, m1)
            c2 == Put(c1, m2)
            c3 == Put(c2, m3)
<1>6. c1 \in Seq(Message) /\ LineOK(c1, s, acc, up, r)
  BY <1>1, <1>3, <1>4, <1>5, LinePut
<1>. HIDE DEF c1
<1>7. c2 \in Seq(Message) /\ LineOK(c2, s, acc, up, r)
  BY <1>1, <1>3, <1>6, <1>5, LinePut
<1>. HIDE DEF c2
<1>8. c3 \in Seq(Message) /\ LineOK(c3, s, acc, up, r)
  BY <1>1, <1>3, <1>7, <1>5, LinePut
<1>. QED BY <1>8 DEF s, acc, r, c0, c1, c2

\* Sending nothing is sending fresh packets.
LEMMA EmptyFresh ==
    ASSUME NEW h \in Hosts, NEW up
    PROVE  <<>> \in Seq(Message) /\ AllFresh(<<>>, h, up)
BY DEF AllFresh

\* Control packets are fresh when they carry the sender's current count.
LEMMA ControlFresh ==
    ASSUME TypeOK, NEW h \in Hosts, NEW up \in Nat
    PROVE  /\ AllFresh(<<CLOSE>>, h, up) /\ <<CLOSE>> \in Seq(Message)
           /\ \A type \in {"ACK", "NAK"} :
                 LET m == Control(type, up % MAXSEQ, up)
                 IN  AllFresh(<<m>>, h, up) /\ <<m>> \in Seq(Message)
<1>1. NoData \in Payload
  <2>1. MaxPkts[Caller] \in Nat /\ MaxPkts[Answerer] \in Nat
    BY BoundsAssumption DEF Hosts
  <2>. QED BY <2>1 DEF NoData, Payload, Kinds
<1>2. up % MAXSEQ \in Slots /\ 0 \in Slots
  BY SeqNo, WindowAssumption DEF Slots
<1>3. CLOSE \in Message BY <1>1, <1>2 DEF CLOSE, Control, Message
<1>4. ASSUME NEW type \in {"ACK", "NAK"}
      PROVE  Control(type, up % MAXSEQ, up) \in Message
  BY <1>1, <1>2 DEF Control, Message
<1>5. Fresh(CLOSE, sent[h], AckedCount(h), up)
  BY DEF CLOSE, Control, Fresh
<1>6. ASSUME NEW type \in {"ACK", "NAK"}
      PROVE  Fresh(Control(type, up % MAXSEQ, up), sent[h], AckedCount(h), up)
  BY DEF Control, Fresh
<1>7. ASSUME NEW m \in Message, Fresh(m, sent[h], AckedCount(h), up)
      PROVE  AllFresh(<<m>>, h, up) /\ <<m>> \in Seq(Message)
  BY <1>7 DEF AllFresh
<1>. QED BY <1>3, <1>4, <1>5, <1>6, <1>7

\* What EndOfLoop sends is in order, and it ends a call or goes on with it.
LEMMA EndOfLoopStep ==
    ASSUME TypeOK, ReceivedInOrder, NEW h \in Hosts,
           NEW in \in Seq(Message), NEW out \in Seq(Message), NEW n \in Nat,
           NEW progress, NEW done, NEW late, NEW up \in Nat,
           rcvd[h] <= up, AllFresh(out, h, up),
           late => call[h] = "get" /\ up = rcvd[h],
           NEW a \in Nat, AckedCount(h) <= a, a <= Len(sent[h]),
           late => swl'[h] = (a + 1) % MAXSEQ /\ nbuffers'[h] = Len(sent[h]) - a,
           EndOfLoop(h, in, out, n, progress, done, late)
    PROVE  /\ call' \in [Hosts -> {"send", "get", "close"} \cup Over]
           /\ nerr' \in [Hosts -> 0..(MaxErr - 1)]
           /\ retry' \in [Hosts -> 0..MaxErr]
           /\ tries' \in [Hosts -> 0..MaxTry]
           /\ line' \in [Hosts -> Seq(Message)]
           /\ Stays(h)
           /\ line'[h] = in
           /\ LineOK(line'[Other(h)], sent[h], AckedCount(Other(h)), up,
                     rcvd[Other(h)])
<1>. DEFINE giveUp  == ~progress /\ n >= MaxErr
            returns == done /\ ~giveUp
            closing == returns /\ call[h] = "close"
            expired == returns /\ late
            last    == expired /\ retry[h] = 1
            window  == IF expired THEN Window(h, swl'[h], nbuffers'[h]) ELSE <<>>
            again   == closing /\ tries[h] < MaxTry
            stop    == (closing /\ ~again) \/ (giveUp /\ call[h] = "close")
            close   == IF giveUp \/ again \/ last THEN <<CLOSE>> ELSE <<>>
            sends   == Put(Put(Put(line[Other(h)], out), window), close)
<1>1. /\ nerr' = [nerr EXCEPT ![h] = IF progress \/ giveUp THEN 0 ELSE n]
      /\ line' = [line EXCEPT ![h] = in, ![Other(h)] = sends]
      /\ call' = [call EXCEPT ![h] =
                    IF stop THEN "shut" ELSE IF giveUp THEN "failed"
                    ELSE IF last THEN "close" ELSE call[h]]
      /\ tries' = [tries EXCEPT ![h] =
                     IF last THEN 1 ELSE IF again THEN tries[h] + 1
                     ELSE tries[h]]
      /\ retry' = [retry EXCEPT ![h] = IF expired THEN retry[h] - 1
                                                  ELSE retry[h]]
  <2>1. Other(h) # h BY TwoHosts
  <2>. QED BY <2>1 DEF EndOfLoop, TypeOK
<1>2. /\ call \in [Hosts -> {"send", "get", "close"} \cup Over]
      /\ nerr \in [Hosts -> 0..(MaxErr - 1)]
      /\ retry \in [Hosts -> 0..MaxErr] /\ tries \in [Hosts -> 0..MaxTry]
      /\ line \in [Hosts -> Seq(Message)]
      /\ MaxErr \in Nat \ {0} /\ MaxTry \in Nat \ {0}
  BY BoundsAssumption DEF TypeOK
<1>3. Other(h) \in Hosts /\ Other(h) # h BY TwoHosts
<1>4. call[h] = "get" => retry[h] > 0 BY DEF ReceivedInOrder, CallInv
<1>5. window \in Seq(Message) /\ AllFresh(window, h, up)
  <2>1. CASE expired
    <3>1. window = Window(h, (a + 1) % MAXSEQ, Len(sent[h]) - a) BY <2>1
    <3>2. up = rcvd[h] BY <2>1
    <3>. HIDE DEF window
    <3>. QED BY <3>1, <3>2, WindowFresh DEF AllFresh
  <2>2. CASE ~expired BY <2>2, EmptyFresh
  <2>. QED BY <2>1, <2>2
<1>6. close \in Seq(Message) /\ AllFresh(close, h, up)
  BY EmptyFresh, ControlFresh
<1>. HIDE DEF window, close
<1>7. /\ sends \in Seq(Message)
      /\ LineOK(sends, sent[h], AckedCount(Other(h)), up, rcvd[Other(h)])
  BY <1>5, <1>6, LineSend
<1>. HIDE DEF sends
<1>8. /\ line' \in [Hosts -> Seq(Message)]
      /\ line'[h] = in /\ line'[Other(h)] = sends
  BY <1>1, <1>2, <1>3, <1>7
<1>9. nerr' \in [Hosts -> 0..(MaxErr - 1)]
  <2>1. (IF progress \/ giveUp THEN 0 ELSE n) \in 0..(MaxErr - 1)
    BY <1>2
  <2>. QED BY <1>1, <1>2, <2>1
<1>10. tries' \in [Hosts -> 0..MaxTry]
  <2>1. (IF last THEN 1 ELSE IF again THEN tries[h] + 1 ELSE tries[h])
           \in 0..MaxTry
    BY <1>2
  <2>. QED BY <1>1, <1>2, <2>1
<1>11. retry' \in [Hosts -> 0..MaxErr]
  <2>1. (IF expired THEN retry[h] - 1 ELSE retry[h]) \in 0..MaxErr
    BY <1>2, <1>4
  <2>. QED BY <1>1, <1>2, <2>1
<1>12. call' \in [Hosts -> {"send", "get", "close"} \cup Over]
  BY <1>1, <1>2 DEF Over
<1>13. Stays(h)
  <2>1. call'[h] # call[h] => call'[h] \in {"close"} \cup Over
    BY <1>1, <1>2 DEF Over
  <2>2. call'[Other(h)] = call[Other(h)] /\ retry'[Other(h)] = retry[Other(h)]
    BY <1>1, <1>2, <1>3
  <2>3. call'[h] = "get" => retry'[h] > 0
    <3>1. /\ call'[h] = "get" => ~last /\ call[h] = "get"
      BY <1>1, <1>2
    <3>2. retry'[h] = IF expired THEN retry[h] - 1 ELSE retry[h]
      BY <1>1, <1>2
    <3>3. retry[h] \in 0..MaxErr BY <1>2
    <3>. QED BY <1>4, <3>1, <3>2, <3>3
  <2>. QED BY <2>1, <2>2, <2>3 DEF Stays
<1>. QED BY <1>7, <1>8, <1>9, <1>10, <1>11, <1>12, <1>13

(***************************************************************************)
(* Steps that accept no packet and hand none over                          *)
(***************************************************************************)
\* What the first packet on h's line says about the other host and h's window.
LEMMA HeadFacts ==
    ASSUME TypeOK, ReceivedInOrder, NEW h \in Hosts, line[h] # <<>>
    PROVE  LET m == Head(line[h])
           IN  /\ m \in Message /\ Tail(line[h]) \in Seq(Message)
               /\ PacketOK(m, sent[Other(h)], AckedCount(h), rcvd[Other(h)],
                           rcvd[h])
               /\ LineOK(line[h], sent[Other(h)], AckedCount(h),
                         rcvd[Other(h)], rcvd[h])
               /\ m.type # "CLOSE" =>
                     /\ AckedCount(h) <= m.upto /\ m.upto <= rcvd[Other(h)]
                     /\ m.upto <= Len(sent[h]) /\ m.upto \in Nat
                     /\ Acked(h, m.yyy) = m.upto - AckedCount(h)
<1>. DEFINE m == Head(line[h])
<1>1. Other(h) \in Hosts /\ Other(Other(h)) = h BY TwoHosts
<1>2. LineOK(line[h], sent[Other(h)], AckedCount(h), rcvd[Other(h)], rcvd[h])
  BY <1>1 DEF ReceivedInOrder, LineInv
<1>3. line[h] \in Seq(Message) BY DEF TypeOK
<1>4. m \in Message /\ Tail(line[h]) \in Seq(Message) BY <1>3
<1>5. PacketOK(m, sent[Other(h)], AckedCount(h), rcvd[Other(h)], rcvd[h])
  <2>1. m = line[h][1] /\ 1 \in 1..Len(line[h]) BY <1>3
  <2>. QED BY <1>2, <2>1 DEF LineOK
<1>. HIDE DEF m
<1>6. m.upto \in Nat BY <1>4, MessageFields
<1>7. m.type # "CLOSE" =>
         /\ AckedCount(h) <= m.upto /\ m.upto <= rcvd[Other(h)]
         /\ m.yyy = m.upto % MAXSEQ
  BY <1>5 DEF PacketOK
<1>8. m.type # "CLOSE" => m.upto <= Len(sent[h])
  <2>1. rcvd[Other(h)] <= Len(sent[h]) /\ rcvd[Other(h)] \in Nat
        /\ Len(sent[h]) \in Nat
    BY Counts
  <2>. QED BY <1>6, <1>7, <2>1
<1>9. m.type # "CLOSE" => Acked(h, m.yyy) = m.upto - AckedCount(h)
  BY <1>6, <1>7, <1>8, AckedCounts
<1>. QED BY <1>2, <1>4, <1>5, <1>6, <1>7, <1>8, <1>9 DEF m

\* Nothing changes in the send windows.
LEMMA Unslid ==
    ASSUME TypeOK, ReceivedInOrder, UNCHANGED sndVars, sent' = sent
    PROVE  /\ swl' \in [Hosts -> Slots] /\ swu' \in [Hosts -> Slots]
           /\ nbuffers' \in [Hosts -> Nat]
           /\ outbuf' \in [Hosts -> [Slots -> Payload]]
           /\ ftimer' \in [Hosts -> [Slots -> BOOLEAN]]
           /\ \A g \in Hosts : AckedCount(g)' = AckedCount(g)
           /\ \A g \in Hosts : WindowInv(g)' /\ BufferInv(g)' /\ TimerInv(g)'
<1>1. \A g \in Hosts : WindowInv(g) /\ BufferInv(g) /\ TimerInv(g)
  BY DEF ReceivedInOrder
<1>2. swl' = swl /\ swu' = swu /\ nbuffers' = nbuffers /\ outbuf' = outbuf
      /\ ftimer' = ftimer
  BY DEF sndVars
<1>3. \A g \in Hosts : AckedCount(g)' = AckedCount(g)
  BY <1>2 DEF AckedCount
<1>. QED BY <1>1, <1>2, <1>3 DEF TypeOK, WindowInv, BufferInv, TimerInv

\* No packet is accepted or handed over; u packets are now acknowledged.
LEMMA Kept ==
    ASSUME TypeOK, ReceivedInOrder, NEW h \in Hosts, NEW u \in Nat,
           AckedCount(h) <= u, u <= rcvd[Other(h)],
           UNCHANGED rcvVars, UNCHANGED hisVars,
           \/ Slide(h, u - AckedCount(h))
           \/ u = AckedCount(h) /\ UNCHANGED sndVars,
           Stays(h),
           LineOK(line'[Other(h)], sent[h], AckedCount(Other(h)), rcvd[h],
                  rcvd[Other(h)]),
           LineOK(line'[h], sent[Other(h)], u, rcvd[Other(h)], rcvd[h])
    PROVE  /\ swl' \in [Hosts -> Slots] /\ swu' \in [Hosts -> Slots]
           /\ nbuffers' \in [Hosts -> Nat]
           /\ outbuf' \in [Hosts -> [Slots -> Payload]]
           /\ ftimer' \in [Hosts -> [Slots -> BOOLEAN]]
           /\ ReceivedInOrder'
<1>. DEFINE o == Other(h)
<1>1. /\ o \in Hosts /\ o # h /\ Other(o) = h
      /\ \A g \in Hosts : g = h \/ g = o
  BY TwoHosts
<1>2. /\ rwl' = rwl /\ inbuf' = inbuf /\ arrived' = arrived
      /\ rcvd' = rcvd /\ sent' = sent /\ got' = got
  BY DEF rcvVars, hisVars
<1>3. u <= Len(sent[h])
  <2>1. rcvd[o] \in Nat /\ rcvd[o] <= Len(sent[h]) /\ Len(sent[h]) \in Nat
    BY Counts
  <2>. QED BY <2>1
<1>4. /\ swl' \in [Hosts -> Slots] /\ swu' \in [Hosts -> Slots]
      /\ nbuffers' \in [Hosts -> Nat]
      /\ outbuf' \in [Hosts -> [Slots -> Payload]]
      /\ ftimer' \in [Hosts -> [Slots -> BOOLEAN]]
      /\ AckedCount(h)' = u /\ AckedCount(o)' = AckedCount(o)
      /\ \A g \in Hosts : WindowInv(g)' /\ BufferInv(g)' /\ TimerInv(g)'
  BY <1>1, <1>2, <1>3, SlideInv, Unslid
<1>5. \A g \in Hosts : CountInv(g)'
  <2>1. \A g \in Hosts : CountInv(g) BY DEF ReceivedInOrder
  <2>. QED BY <1>1, <1>2, <1>4, <2>1 DEF CountInv
<1>6. \A g \in Hosts : LineInv(g)'
  <2>1. LineInv(h)' BY <1>2, <1>4 DEF LineInv
  <2>2. LineInv(o)' BY <1>1, <1>2, <1>4 DEF LineInv
  <2>. QED BY <1>1, <2>1, <2>2
<1>7. /\ call'[h] \in {"send", "get"} => call'[h] = call[h]
      /\ call'[o] = call[o] /\ retry'[o] = retry[o]
      /\ call'[h] = "get" => retry'[h] > 0
  BY DEF Stays, Over
<1>. HIDE DEF o
<1>8. \A g \in Hosts : DeliveryInv(g)'
  <2>1. \A g \in Hosts : DeliveryInv(g) BY DEF ReceivedInOrder
  <2>2. \A g \in Hosts : InCalls(g)' => InCalls(g)
    BY <1>1, <1>7 DEF InCalls
  <2>. QED BY <1>2, <2>1, <2>2 DEF DeliveryInv
<1>9. \A g \in Hosts : TurnInv(g)'
  <2>1. \A g \in Hosts : TurnInv(g) BY DEF ReceivedInOrder
  <2>2. \A g \in Hosts : Pending(g)' = Pending(g) BY <1>2 DEF Pending
  <2>3. \A g \in Hosts : call'[g] = "send" => call[g] = "send"
    BY <1>1, <1>7
  <2>4. \A g \in Hosts : Other(g) \in Hosts BY TwoHosts
  <2>. QED BY <1>2, <2>1, <2>2, <2>3, <2>4 DEF TurnInv
<1>10. \A g \in Hosts : CallInv(g)'
  <2>1. \A g \in Hosts : CallInv(g) BY DEF ReceivedInOrder
  <2>. QED BY <1>1, <1>2, <1>7, <2>1 DEF CallInv
<1>. QED BY <1>4, <1>5, <1>6, <1>8, <1>9, <1>10 DEF ReceivedInOrder

\* What is left on h's line once its first packet has been taken off.
LEMMA TailOK ==
    ASSUME TypeOK, ReceivedInOrder, NEW h \in Hosts, line[h] # <<>>,
           NEW u \in Nat,
           \/ u = AckedCount(h)
           \/ Head(line[h]).type # "CLOSE" /\ u = Head(line[h]).upto
    PROVE  LineOK(Tail(line[h]), sent[Other(h)], u, rcvd[Other(h)], rcvd[h])
<1>1. /\ line[h] \in Seq(Message) /\ sent[Other(h)] \in Seq(Payload)
      /\ rcvd[h] \in Nat /\ rcvd[Other(h)] \in Nat /\ AckedCount(h) \in Nat
  BY TwoHosts, Counts DEF TypeOK
<1>2. LineOK(line[h], sent[Other(h)], AckedCount(h), rcvd[Other(h)], rcvd[h])
  BY HeadFacts
<1>. QED BY <1>1, <1>2, LineTail

\* The acknowledgements and NAKs of h as it is.
LEMMA NakFresh ==
    ASSUME TypeOK, ReceivedInOrder, NEW h \in Hosts
    PROVE  AllFresh(<<NAK(h)>>, h, rcvd[h]) /\ <<NAK(h)>> \in Seq(Message)
<1>1. rcvd[h] \in Nat /\ rwl[h] = rcvd[h] % MAXSEQ BY Counts
<1>. QED BY <1>1, ControlFresh DEF NAK


\* The send window with u packets acknowledged.
LEMMA WindowNow ==
    ASSUME TypeOK, ReceivedInOrder, NEW h \in Hosts, NEW u \in Nat,
           AckedCount(h) <= u, u <= rcvd[Other(h)], sent' = sent,
           \/ Slide(h, u - AckedCount(h))
           \/ u = AckedCount(h) /\ UNCHANGED sndVars
    PROVE  /\ u <= Len(sent[h])
           /\ swl'[h] = (u + 1) % MAXSEQ
           /\ nbuffers'[h] = Len(sent[h]) - u
<1>1. rcvd[Other(h)] \in Nat /\ rcvd[Other(h)] <= Len(sent[h])
      /\ Len(sent[h]) \in Nat
  BY Counts
<1>2. u <= Len(sent[h]) BY <1>1
<1>3. /\ nbuffers' \in [Hosts -> Nat]
      /\ AckedCount(h)' = u /\ WindowInv(h)'
  BY <1>2, SlideInv, Unslid
<1>4. swl'[h] = (u + 1) % MAXSEQ BY <1>3 DEF WindowInv
<1>5. nbuffers'[h] \in Nat /\ Len(sent[h]) - nbuffers'[h] = u
  BY <1>3 DEF AckedCount
<1>. QED BY <1>1, <1>2, <1>4, <1>5

\* An iteration of gmachine that takes in off the line, sends out and leaves
\* u of h's packets acknowledged.
LEMMA LoopStep ==
    ASSUME TypeOK, ReceivedInOrder, NEW h \in Hosts,
           NEW in \in Seq(Message), NEW out \in Seq(Message), NEW n \in Nat,
           NEW progress, NEW done, NEW late, NEW u \in Nat,
           AckedCount(h) <= u, u <= rcvd[Other(h)],
           UNCHANGED rcvVars, UNCHANGED hisVars,
           \/ Slide(h, u - AckedCount(h))
           \/ u = AckedCount(h) /\ UNCHANGED sndVars,
           AllFresh(out, h, rcvd[h]), late => call[h] = "get",
           LineOK(in, sent[Other(h)], u, rcvd[Other(h)], rcvd[h]),
           EndOfLoop(h, in, out, n, progress, done, late),
           lazynak' \in [Hosts -> 0..(nwindows + 1)],
           inseq' \in [Hosts -> BOOLEAN], quiet' \in [Hosts -> BOOLEAN],
           noise' \in Noises
    PROVE  TypeOK' /\ ReceivedInOrder'
<1>1. rcvd[h] \in Nat /\ rcvd[h] <= rcvd[h] BY Counts
<1>2. /\ call' \in [Hosts -> {"send", "get", "close"} \cup Over]
      /\ nerr' \in [Hosts -> 0..(MaxErr - 1)]
      /\ retry' \in [Hosts -> 0..MaxErr]
      /\ tries' \in [Hosts -> 0..MaxTry]
      /\ line' \in [Hosts -> Seq(Message)]
      /\ Stays(h)
      /\ line'[h] = in
      /\ LineOK(line'[Other(h)], sent[h], AckedCount(Other(h)), rcvd[h],
                rcvd[Other(h)])
  <2>1. sent' = sent BY DEF hisVars
  <2>2. /\ u <= Len(sent[h]) /\ swl'[h] = (u + 1) % MAXSEQ
        /\ nbuffers'[h] = Len(sent[h]) - u
    BY <2>1, WindowNow
  <2>. QED BY <1>1, <2>2, EndOfLoopStep, Zenon
<1>3. /\ swl' \in [Hosts -> Slots] /\ swu' \in [Hosts -> Slots]
      /\ nbuffers' \in [Hosts -> Nat]
      /\ outbuf' \in [Hosts -> [Slots -> Payload]]
      /\ ftimer' \in [Hosts -> [Slots -> BOOLEAN]]
      /\ ReceivedInOrder'
  BY <1>2, Kept
<1>4. TypeOK'
  BY <1>2, <1>3 DEF TypeOK, rcvVars, hisVars
<1>. QED BY <1>3, <1>4

\* How the error bookkeeping of an iteration changes.
LEMMA ErrTypes ==
    ASSUME TypeOK, NEW h \in Hosts
    PROVE  /\ \A x \in BOOLEAN :
                 Idle(h, x) \/ Elapse(h, x) => quiet' \in [Hosts -> BOOLEAN]
           /\ \A x \in BOOLEAN : inseq' = [inseq EXCEPT ![h] = x]
                 => inseq' \in [Hosts -> BOOLEAN]
           /\ \A x \in {0, nwindows + 1, lazynak[h], lazynak[h] - 1} :
                 lazynak' = [lazynak EXCEPT ![h] = x] /\ x >= 0
                 => lazynak' \in [Hosts -> 0..(nwindows + 1)]
           /\ \A kind : Fault(kind) => noise' \in Noises
           /\ TimePasses => noise' \in Noises
           /\ \A done, late : LateAfter(h, done, late)
                 => noise' \in Noises /\ (late => call[h] = "get")
           /\ nerr[h] \in Nat /\ nerr[h] + 1 \in Nat
           /\ lazynak \in [Hosts -> 0..(nwindows + 1)]
           /\ inseq \in [Hosts -> BOOLEAN] /\ quiet \in [Hosts -> BOOLEAN]
           /\ noise \in Noises
<1>1. /\ nerr[h] \in 0..(MaxErr - 1) /\ noise \in Noises
      /\ lazynak \in [Hosts -> 0..(nwindows + 1)] /\ lazynak[h] \in Int
      /\ inseq \in [Hosts -> BOOLEAN] /\ quiet \in [Hosts -> BOOLEAN]
      /\ nwindows \in Nat /\ MaxErr \in Nat
  BY BoundsAssumption, WindowRange DEF TypeOK
<1>2. ASSUME NEW x \in BOOLEAN, Idle(h, x) \/ Elapse(h, x)
      PROVE  quiet' \in [Hosts -> BOOLEAN]
  <2>1. CASE Idle(h, x) BY <1>1, <2>1 DEF Idle
  <2>2. CASE Elapse(h, x)
    <3>1. PICK past \in BOOLEAN :
             quiet' = [g \in Hosts |-> IF g = h THEN ~x
                                       ELSE (past /\ Silent) \/ quiet[g]]
      BY <2>2 DEF Elapse
    <3>2. ASSUME NEW g \in Hosts
          PROVE  (IF g = h THEN ~x ELSE (past /\ Silent) \/ quiet[g]) \in BOOLEAN
      BY <1>1, Zenon
    <3>. QED BY <3>1, <3>2, Zenon
  <2>. QED BY <1>2, <2>1, <2>2
<1>3. ASSUME NEW kind, Fault(kind) PROVE noise' \in Noises
  <2>1. /\ kind \in Faults /\ noise[kind] > 0
        /\ noise' = [noise EXCEPT ![kind] = @ - 1]
    BY <1>3 DEF Fault
  <2>2. /\ noise \in [Faults -> Nat] /\ MaxNoise \in [Faults -> Nat]
        /\ \A k \in Faults : noise[k] <= MaxNoise[k]
    BY <1>1, BoundsAssumption DEF Noises
  <2>3. noise' \in [Faults -> Nat]
    BY <2>1, <2>2
  <2>4. ASSUME NEW k \in Faults PROVE noise'[k] <= MaxNoise[k]
    BY <2>1, <2>2
  <2>. QED BY <2>3, <2>4 DEF Noises
<1>4. TimePasses => noise' \in Noises
  BY <1>1, <1>3 DEF TimePasses
<1>6. ASSUME NEW done, NEW late, LateAfter(h, done, late)
      PROVE  noise' \in Noises /\ (late => call[h] = "get")
  BY <1>1, <1>3, <1>6 DEF LateAfter, Late
<1>5. ASSUME NEW x \in {0, nwindows + 1, lazynak[h], lazynak[h] - 1}, x >= 0,
             lazynak' = [lazynak EXCEPT ![h] = x]
      PROVE  lazynak' \in [Hosts -> 0..(nwindows + 1)]
  <2>1. x \in 0..(nwindows + 1) BY <1>1, <1>5
  <2>. QED BY <1>1, <1>5, <2>1
<1>. QED BY <1>1, <1>2, <1>3, <1>4, <1>5, <1>6

\* DATA out of sequence keeps the invariant.
LEMMA UnexpectedStep ==
    ASSUME TypeOK, ReceivedInOrder, NEW h \in Hosts, Unexpected(h)
    PROVE  TypeOK' /\ ReceivedInOrder'
<1>. DEFINE m     == Head(line[h])
            k     == Acked(h, m.yyy)
            donak == (inseq[h] /\ MAXWINDOW[h] <= 3) \/ quiet[h]
            nak   == donak /\ (lazynak[h] < 1 \/ (quiet[h] /\ k = 0))
            out   == IF nak THEN <<NAK(h)>> ELSE <<>>
            n     == IF donak THEN nerr[h] + 1 ELSE nerr[h]
            u     == m.upto
<1>1. /\ line[h] # <<>> /\ m.type = "DATA"
      /\ lazynak' = [lazynak EXCEPT ![h] = IF nak THEN nwindows + 1 ELSE @]
      /\ inseq' = [inseq EXCEPT ![h] = k > 0]
      /\ Idle(h, nak \/ k > 0)
      /\ Slide(h, k)
      /\ UNCHANGED rcvVars /\ UNCHANGED hisVars
  BY DEF Unexpected, Packet
<1>0. PICK late \in BOOLEAN :
         /\ LateAfter(h, k > 0, late)
         /\ EndOfLoop(h, Tail(line[h]), out, n, k > 0, k > 0, late)
  BY DEF Unexpected
<1>2. /\ u \in Nat /\ AckedCount(h) <= u /\ u <= rcvd[Other(h)]
      /\ k = u - AckedCount(h) /\ Tail(line[h]) \in Seq(Message)
  BY <1>1, HeadFacts
<1>3. out \in Seq(Message) /\ AllFresh(out, h, rcvd[h])
  BY NakFresh, EmptyFresh
<1>4. n \in Nat BY ErrTypes
<1>5. LineOK(Tail(line[h]), sent[Other(h)], u, rcvd[Other(h)], rcvd[h])
  BY <1>1, <1>2, TailOK
<1>. HIDE DEF k, out, n, u, m, donak, nak
<1>6. /\ lazynak' \in [Hosts -> 0..(nwindows + 1)]
      /\ inseq' \in [Hosts -> BOOLEAN] /\ quiet' \in [Hosts -> BOOLEAN]
      /\ noise' \in Noises /\ (late => call[h] = "get")
  <2>1. nak \in BOOLEAN /\ (k > 0) \in BOOLEAN /\ (nak \/ k > 0) \in BOOLEAN
    BY DEF nak
  <2>2. (IF nak THEN nwindows + 1 ELSE lazynak[h]) \in 0..(nwindows + 1)
    BY WindowRange, ErrTypes
  <2>3. lazynak' \in [Hosts -> 0..(nwindows + 1)]
    BY <1>1, <2>2, ErrTypes
  <2>4. noise' \in Noises /\ (late => call[h] = "get") BY <1>0, ErrTypes
  <2>5. inseq' \in [Hosts -> BOOLEAN] /\ quiet' \in [Hosts -> BOOLEAN]
    BY <1>1, <2>1, ErrTypes, Zenon
  <2>. QED BY <2>3, <2>4, <2>5
<1>. QED BY <1>0, <1>1, <1>2, <1>3, <1>4, <1>5, <1>6, LoopStep, Zenon

\* An ACK keeps the invariant.
LEMMA GotACKStep ==
    ASSUME TypeOK, ReceivedInOrder, NEW h \in Hosts, GotACK(h)
    PROVE  TypeOK' /\ ReceivedInOrder'
<1>. DEFINE m == Head(line[h])
            k == Acked(h, m.yyy)
            u == m.upto
<1>1. /\ line[h] # <<>> /\ m.type = "ACK"
      /\ inseq' = [inseq EXCEPT ![h] = inseq[h] \/ k > 0]
      /\ Idle(h, k > 0)
      /\ Slide(h, k)
      /\ UNCHANGED rcvVars /\ UNCHANGED hisVars
      /\ lazynak' = lazynak
  BY DEF GotACK, Packet
<1>0. PICK late \in BOOLEAN :
         /\ LateAfter(h, k > 0, late)
         /\ EndOfLoop(h, Tail(line[h]), <<>>, nerr[h], k > 0, k > 0, late)
  BY DEF GotACK
<1>2. /\ u \in Nat /\ AckedCount(h) <= u /\ u <= rcvd[Other(h)]
      /\ k = u - AckedCount(h) /\ Tail(line[h]) \in Seq(Message)
  BY <1>1, HeadFacts
<1>3. LineOK(Tail(line[h]), sent[Other(h)], u, rcvd[Other(h)], rcvd[h])
  BY <1>1, <1>2, TailOK
<1>. HIDE DEF k, u, m
<1>4. /\ lazynak' \in [Hosts -> 0..(nwindows + 1)]
      /\ inseq' \in [Hosts -> BOOLEAN] /\ quiet' \in [Hosts -> BOOLEAN]
      /\ noise' \in Noises /\ (late => call[h] = "get")
  <2>1. (k > 0) \in BOOLEAN /\ (inseq[h] \/ k > 0) \in BOOLEAN OBVIOUS
  <2>. QED BY <1>0, <1>1, <2>1, ErrTypes, Zenon
<1>. QED BY <1>0, <1>1, <1>2, <1>3, <1>4, ErrTypes, EmptyFresh, LoopStep, Zenon

\* A NAK keeps the invariant.
LEMMA GotNAKStep ==
    ASSUME TypeOK, ReceivedInOrder, NEW h \in Hosts, GotNAK(h)
    PROVE  TypeOK' /\ ReceivedInOrder'
<1>. DEFINE m    == Head(line[h])
            k    == Acked(h, m.yyy)
            u    == m.upto
            done == k > 0 \/ between(swl[h], nextpkt(m.yyy), swu[h])
            lo   == (swl[h] + k) % MAXSEQ
            out  == IF done THEN Window(h, lo, nbuffers[h] - k) ELSE <<>>
<1>1. /\ line[h] # <<>> /\ m.type = "NAK"
      /\ inseq' = [inseq EXCEPT ![h] = inseq[h] \/ done]
      /\ Idle(h, done)
      /\ Slide(h, k)
      /\ UNCHANGED rcvVars /\ UNCHANGED hisVars
      /\ lazynak' = lazynak
  BY DEF GotNAK, Packet
<1>0. PICK late \in BOOLEAN :
         /\ LateAfter(h, done, late)
         /\ EndOfLoop(h, Tail(line[h]), out, nerr[h], done, done, late)
  BY DEF GotNAK
<1>2. /\ u \in Nat /\ AckedCount(h) <= u /\ u <= rcvd[Other(h)]
      /\ k = u - AckedCount(h) /\ Tail(line[h]) \in Seq(Message)
      /\ u <= Len(sent[h])
  BY <1>1, HeadFacts
<1>3. LineOK(Tail(line[h]), sent[Other(h)], u, rcvd[Other(h)], rcvd[h])
  BY <1>1, <1>2, TailOK
<1>4. (done \in BOOLEAN) /\ (inseq[h] \/ done) \in BOOLEAN OBVIOUS
<1>. HIDE DEF k, u, m, done
<1>5. out \in Seq(Message) /\ AllFresh(out, h, rcvd[h])
  <2>1. /\ AckedCount(h) \in Nat /\ Len(sent[h]) \in Nat
        /\ swl[h] = (AckedCount(h) + 1) % MAXSEQ
        /\ nbuffers[h] = Len(sent[h]) - AckedCount(h)
    BY Counts
  <2>2. k \in Nat /\ AckedCount(h) + 1 \in Nat /\ (AckedCount(h) + 1) + k = u + 1
    BY <1>2, <2>1
  <2>3. lo = ((AckedCount(h) + 1) + k) % MAXSEQ
    BY <2>1, <2>2, SeqNoPlus
  <2>4. lo = (u + 1) % MAXSEQ /\ nbuffers[h] - k = Len(sent[h]) - u
    BY <1>2, <2>1, <2>2, <2>3
  <2>. HIDE DEF lo
  <2>5. /\ Window(h, lo, nbuffers[h] - k) \in Seq(Message)
        /\ AllFresh(Window(h, lo, nbuffers[h] - k), h, rcvd[h])
    BY <1>2, <2>4, WindowFresh DEF AllFresh
  <2>. QED BY <2>5, EmptyFresh
<1>. HIDE DEF out
<1>6. /\ lazynak' \in [Hosts -> 0..(nwindows + 1)]
      /\ inseq' \in [Hosts -> BOOLEAN] /\ quiet' \in [Hosts -> BOOLEAN]
      /\ noise' \in Noises /\ (late => call[h] = "get")
  BY <1>0, <1>1, <1>4, ErrTypes, Zenon
<1>. QED BY <1>0, <1>1, <1>2, <1>3, <1>5, <1>6, ErrTypes, LoopStep, Zenon

\* Iterations that touch neither the windows nor the first packet's contents.
LEMMA ClockStep ==
    ASSUME TypeOK, ReceivedInOrder, NEW h \in Hosts,
           Clock(h) \/ BadChecksum(h)
    PROVE  TypeOK' /\ ReceivedInOrder'
<1>1. /\ AckedCount(h) \in Nat /\ AckedCount(h) <= rcvd[Other(h)]
      /\ AckedCount(h) <= AckedCount(h)
      /\ nwindows + 1 \in {0, nwindows + 1, lazynak[h], lazynak[h] - 1}
      /\ nwindows + 1 >= 0
  BY Counts
<1>2. LineOK(line[h], sent[Other(h)], AckedCount(h), rcvd[Other(h)], rcvd[h])
      /\ line[h] \in Seq(Message)
  BY TwoHosts DEF ReceivedInOrder, LineInv, TypeOK
<1>3. \A late \in Late(h) : late => call[h] = "get"
  BY DEF Late
<1>4. CASE BadChecksum(h)
  <2>1. /\ line[h] # <<>>
        /\ Fault("checksum") /\ Idle(h, TRUE)
        /\ lazynak' = [lazynak EXCEPT ![h] = nwindows + 1]
        /\ EndOfLoop(h, Tail(line[h]), <<NAK(h)>>, nerr[h] + 1, FALSE, FALSE,
                     FALSE)
        /\ UNCHANGED sndVars /\ UNCHANGED rcvVars /\ UNCHANGED hisVars
        /\ inseq' = inseq
    BY <1>4 DEF BadChecksum, Packet
  <2>2. /\ Tail(line[h]) \in Seq(Message)
        /\ LineOK(Tail(line[h]), sent[Other(h)], AckedCount(h),
                  rcvd[Other(h)], rcvd[h])
    BY <1>1, <2>1, HeadFacts, TailOK
  <2>3. /\ lazynak' \in [Hosts -> 0..(nwindows + 1)]
        /\ inseq' \in [Hosts -> BOOLEAN] /\ quiet' \in [Hosts -> BOOLEAN]
        /\ noise' \in Noises
    BY <1>1, <2>1, ErrTypes, Zenon
  <2>. QED
    BY <1>1, <2>1, <2>2, <2>3, ErrTypes, NakFresh, LoopStep, Zenon
<1>5. CASE TimedOut(h)
  <2>. DEFINE out == Window(h, swl[h], nbuffers[h])
  <2>1. PICK late \in Late(h) :
           EndOfLoop(h, line[h], out, nerr[h] + 1, FALSE, TRUE, late)
    BY <1>5 DEF TimedOut
  <2>2. /\ TimePasses /\ Elapse(h, TRUE)
        /\ inseq' = [inseq EXCEPT ![h] = TRUE] /\ lazynak' = lazynak
        /\ UNCHANGED sndVars /\ UNCHANGED rcvVars /\ UNCHANGED hisVars
    BY <1>5 DEF TimedOut
  <2>3. out \in Seq(Message) /\ AllFresh(out, h, rcvd[h])
    <3>1. /\ swl[h] = (AckedCount(h) + 1) % MAXSEQ
          /\ nbuffers[h] = Len(sent[h]) - AckedCount(h)
          /\ AckedCount(h) <= Len(sent[h])
      BY Counts
    <3>. QED BY <1>1, <3>1, WindowFresh DEF AllFresh
  <2>4. /\ lazynak' \in [Hosts -> 0..(nwindows + 1)]
        /\ inseq' \in [Hosts -> BOOLEAN] /\ quiet' \in [Hosts -> BOOLEAN]
        /\ noise' \in Noises
    BY <2>2, ErrTypes, Zenon
  <2>. HIDE DEF out
  <2>. QED
    BY <1>1, <1>2, <1>3, <2>1, <2>2, <2>3, <2>4, ErrTypes, LoopStep, Zenon
<1>6. CASE Bored(h)
  <2>1. PICK past \in {quiet[h], TRUE}, late \in Late(h) :
           LET nak == lazynak[h] < 1 \/ past
           IN  /\ lazynak' = [lazynak EXCEPT ![h] = IF nak THEN nwindows + 1
                                                    ELSE lazynak[h]]
               /\ Elapse(h, nak)
               /\ EndOfLoop(h, line[h], IF nak THEN <<NAK(h)>> ELSE <<>>,
                            nerr[h] + 1, FALSE, TRUE, late)
    BY <1>6 DEF Bored
  <2>. DEFINE nak == lazynak[h] < 1 \/ past
              out == IF nak THEN <<NAK(h)>> ELSE <<>>
  <2>2. /\ TimePasses
        /\ inseq' = [inseq EXCEPT ![h] = TRUE]
        /\ UNCHANGED sndVars /\ UNCHANGED rcvVars /\ UNCHANGED hisVars
    BY <1>6 DEF Bored
  <2>3. out \in Seq(Message) /\ AllFresh(out, h, rcvd[h])
    BY NakFresh, EmptyFresh
  <2>4. nak \in BOOLEAN
    <3>1. past \in BOOLEAN BY ErrTypes
    <3>. QED BY <3>1
  <2>5. lazynak' \in [Hosts -> 0..(nwindows + 1)]
    <3>1. (IF nak THEN nwindows + 1 ELSE lazynak[h]) \in 0..(nwindows + 1)
      BY WindowRange, ErrTypes
    <3>. QED BY <2>1, <3>1, ErrTypes
  <2>6. Elapse(h, nak) /\ EndOfLoop(h, line[h], out, nerr[h] + 1, FALSE, TRUE, late)
    BY <2>1
  <2>. HIDE DEF nak, out
  <2>7. /\ inseq' \in [Hosts -> BOOLEAN] /\ quiet' \in [Hosts -> BOOLEAN]
        /\ noise' \in Noises
    BY <2>2, <2>4, <2>6, ErrTypes, Zenon
  <2>. QED
    BY <1>1, <1>2, <1>3, <2>2, <2>3, <2>5, <2>6, <2>7, ErrTypes, LoopStep, Zenon
<1>7. CASE Nothing(h)
  <2>1. PICK late \in Late(h) :
           /\ Idle(h, late /\ nbuffers[h] > 0)
           /\ EndOfLoop(h, line[h], <<>>, nerr[h], FALSE, TRUE, late)
    BY <1>7 DEF Nothing
  <2>2. /\ Fault("slow")
        /\ inseq' = [inseq EXCEPT ![h] = TRUE] /\ lazynak' = lazynak
        /\ UNCHANGED sndVars /\ UNCHANGED rcvVars /\ UNCHANGED hisVars
    BY <1>7 DEF Nothing
  <2>3. /\ lazynak' \in [Hosts -> 0..(nwindows + 1)]
        /\ inseq' \in [Hosts -> BOOLEAN] /\ quiet' \in [Hosts -> BOOLEAN]
        /\ noise' \in Noises
    <3>1. (late /\ nbuffers[h] > 0) \in BOOLEAN OBVIOUS
    <3>. QED BY <2>1, <2>2, <3>1, ErrTypes, Zenon
  <2>. QED
    BY <1>1, <1>2, <1>3, <2>1, <2>2, <2>3, ErrTypes, EmptyFresh, LoopStep,
       Zenon
<1>. QED BY <1>4, <1>5, <1>6, <1>7 DEF Clock

\* Steps outside gmachine's loop that end a call.
LEMMA StopStep ==
    ASSUME TypeOK, ReceivedInOrder, NEW h \in Hosts,
           GotCLOSE(h) \/ BadHeader(h) \/ LoseCarrier(h) \/ CloseFailed(h)
    PROVE  TypeOK' /\ ReceivedInOrder'
<1>. DEFINE o == Other(h)
            put == Put(Put(Put(line[o], <<CLOSE>>), <<>>), <<>>)
<1>1. o \in Hosts /\ o # h BY TwoHosts
<1>2. /\ call \in [Hosts -> {"send", "get", "close"} \cup Over]
      /\ nerr \in [Hosts -> 0..(MaxErr - 1)]
      /\ tries \in [Hosts -> 0..MaxTry] /\ line \in [Hosts -> Seq(Message)]
      /\ MaxErr \in Nat \ {0} /\ MaxTry \in Nat \ {0}
  BY BoundsAssumption DEF TypeOK
<1>3. /\ rcvd[h] \in Nat /\ rcvd[h] <= rcvd[h]
      /\ AckedCount(h) \in Nat /\ AckedCount(h) <= AckedCount(h)
      /\ AckedCount(h) <= rcvd[o]
  BY Counts
<1>4. /\ put \in Seq(Message)
      /\ LineOK(put, sent[h], AckedCount(o), rcvd[h], rcvd[o])
  BY <1>3, LineSend, ControlFresh, EmptyFresh
<1>5. Put(line[o], <<CLOSE>>) = put
  <2>2. Put(line[o], <<CLOSE>>) \in Seq(Message)
    BY <1>1, <1>2, ControlFresh, <1>3, PutElements
  <2>. QED BY <2>2, PutNothing
<1>6. /\ LineOK(line[o], sent[h], AckedCount(o), rcvd[h], rcvd[o])
      /\ LineOK(line[h], sent[o], AckedCount(h), rcvd[o], rcvd[h])
  BY TwoHosts DEF ReceivedInOrder, LineInv
<1>7. line[h] # <<>> =>
         /\ Tail(line[h]) \in Seq(Message)
         /\ LineOK(Tail(line[h]), sent[o], AckedCount(h), rcvd[o], rcvd[h])
  BY <1>3, HeadFacts, TailOK
<1>. HIDE DEF put
<1>8. /\ UNCHANGED sndVars /\ UNCHANGED rcvVars /\ UNCHANGED hisVars
      /\ retry' = retry /\ quiet' = quiet /\ lazynak' = lazynak
      /\ inseq' = inseq
  BY DEF GotCLOSE, BadHeader, LoseCarrier, CloseFailed, errVars
<1>9. call[h] = "get" => retry[h] > 0
  BY DEF ReceivedInOrder, CallInv
<1>10. /\ call' \in [Hosts -> {"send", "get", "close"} \cup Over]
       /\ nerr' \in [Hosts -> 0..(MaxErr - 1)]
       /\ tries' \in [Hosts -> 0..MaxTry] /\ line' \in [Hosts -> Seq(Message)]
       /\ noise' \in Noises
       /\ Stays(h)
       /\ line'[h] = line[h] \/ (line[h] # <<>> /\ line'[h] = Tail(line[h]))
       /\ line'[o] = line[o] \/ line'[o] = put
  <2>1. CASE GotCLOSE(h)
    <3>1. /\ line[h] # <<>>
          /\ line' = [line EXCEPT ![h] = Tail(line[h]), ![o] = put]
          /\ call' = [call EXCEPT ![h] = IF call[h] = "close" THEN "shut"
                                                             ELSE "failed"]
          /\ nerr' = [nerr EXCEPT ![h] = 0]
          /\ tries' = tries /\ noise' = noise
      BY <1>1, <1>2, <1>5, <2>1 DEF GotCLOSE, Packet
    <3>2. noise' \in Noises BY <3>1, ErrTypes
    <3>3. Stays(h) BY <1>1, <1>2, <1>8, <3>1 DEF Stays, Over
    <3>4. /\ call' \in [Hosts -> {"send", "get", "close"} \cup Over]
          /\ nerr' \in [Hosts -> 0..(MaxErr - 1)]
      BY <1>2, <3>1 DEF Over
    <3>5. /\ line' \in [Hosts -> Seq(Message)]
          /\ line'[h] = Tail(line[h]) /\ line'[o] = put
      BY <1>1, <1>2, <1>4, <1>7, <3>1
    <3>. QED BY <1>2, <3>1, <3>2, <3>3, <3>4, <3>5
  <2>2. CASE BadHeader(h)
    <3>1. /\ line[h] # <<>> /\ Fault("header")
          /\ line' = [line EXCEPT ![h] = Tail(line[h])]
          /\ call' = call /\ nerr' = nerr /\ tries' = tries
      BY <2>2 DEF BadHeader, errVars
    <3>2. noise' \in Noises BY <3>1, ErrTypes
    <3>3. Stays(h) BY <1>8, <1>9, <3>1 DEF Stays
    <3>. QED BY <1>1, <1>2, <1>7, <3>1, <3>2, <3>3
  <2>3. CASE LoseCarrier(h)
    <3>1. /\ line' = line /\ nerr' = nerr /\ tries' = tries
          /\ call' = [call EXCEPT ![h] = "lost"]
          /\ noise' = noise \/ Fault("carrier")
      BY <2>3 DEF LoseCarrier, errVars
    <3>2. noise' \in Noises BY <3>1, ErrTypes
    <3>3. Stays(h) BY <1>1, <1>2, <1>8, <3>1 DEF Stays, Over
    <3>. QED BY <1>1, <1>2, <3>1, <3>2, <3>3 DEF Over
  <2>4. CASE CloseFailed(h)
    <3>1. /\ line' = [line EXCEPT ![o] = put] /\ Fault("abort")
          /\ call' = [call EXCEPT ![h] = "close"]
          /\ tries' = [tries EXCEPT ![h] = 1] /\ nerr' = nerr
      BY <1>1, <1>2, <1>5, <2>4 DEF CloseFailed, errVars
    <3>2. noise' \in Noises BY <3>1, ErrTypes
    <3>3. Stays(h) BY <1>1, <1>2, <1>8, <3>1 DEF Stays, Over
    <3>. QED BY <1>1, <1>2, <1>4, <3>1, <3>2, <3>3
  <2>. QED BY <2>1, <2>2, <2>3, <2>4
<1>11. /\ LineOK(line'[h], sent[o], AckedCount(h), rcvd[o], rcvd[h])
       /\ LineOK(line'[o], sent[h], AckedCount(o), rcvd[h], rcvd[o])
  BY <1>4, <1>6, <1>7, <1>10
<1>12. /\ swl' \in [Hosts -> Slots] /\ swu' \in [Hosts -> Slots]
       /\ nbuffers' \in [Hosts -> Nat]
       /\ outbuf' \in [Hosts -> [Slots -> Payload]]
       /\ ftimer' \in [Hosts -> [Slots -> BOOLEAN]]
       /\ ReceivedInOrder'
  BY <1>3, <1>8, <1>10, <1>11, Kept, Zenon
<1>13. TypeOK'
  BY <1>8, <1>10, <1>12 DEF TypeOK, rcvVars, hisVars
<1>. QED BY <1>12, <1>13

(***************************************************************************)
(* The step that accepts a packet                                          *)
(***************************************************************************)

\* The next number names the next packet: no stale or early one carries it.
LEMMA NextIsNext ==
    ASSUME TypeOK, ReceivedInOrder, NEW h \in Hosts, line[h] # <<>>,
           Head(line[h]).type = "DATA",
           Head(line[h]).xxx = nextpkt(rwl[h])
    PROVE  /\ Head(line[h]).data.id = rcvd[h] + 1
           /\ rcvd[h] + 1 \in 1..Len(sent[Other(h)])
           /\ Head(line[h]).data = sent[Other(h)][rcvd[h] + 1]
           /\ nextpkt(rwl[h]) = (rcvd[h] + 1) % MAXSEQ
<1>. DEFINE m == Head(line[h])
            i == m.data.id
            r == rcvd[h]
<1>1. /\ m \in Message
      /\ PacketOK(m, sent[Other(h)], AckedCount(h), rcvd[Other(h)], r)
  BY HeadFacts
<1>2. /\ r \in Nat /\ rwl[h] = r % MAXSEQ
      /\ Len(sent[Other(h)]) <= r + nwindows /\ Len(sent[Other(h)]) \in Nat
      /\ nwindows \in 1..(MAXSEQ - 1) /\ MAXSEQ \in 2..8
  <2>1. Other(h) \in Hosts /\ Other(Other(h)) = h BY TwoHosts
  <2>2. /\ AckedCount(Other(h)) \in Nat /\ AckedCount(Other(h)) <= r
        /\ Len(sent[Other(h)]) <= AckedCount(Other(h)) + nwindows
        /\ Len(sent[Other(h)]) \in Nat
    BY <2>1, Counts
  <2>3. /\ r \in Nat /\ rwl[h] = r % MAXSEQ
        /\ nwindows \in 1..(MAXSEQ - 1) /\ MAXSEQ \in 2..8
    BY Counts
  <2>. HIDE DEF r
  <2>. QED BY <2>2, <2>3
<1>. HIDE DEF m, r
<1>3. /\ i \in 1..Len(sent[Other(h)]) /\ m.data = sent[Other(h)][i]
      /\ m.xxx = i % MAXSEQ /\ r < i + nwindows
  BY <1>1 DEF PacketOK, m
<1>4. nextpkt(rwl[h]) = (r + 1) % MAXSEQ BY <1>2, SeqNo
<1>. HIDE DEF i
<1>5. i \in Nat /\ r + 1 \in Nat /\ i - (r + 1) < MAXSEQ /\ (r + 1) - i < MAXSEQ
  <2>1. /\ r \in Nat /\ nwindows \in Int /\ MAXSEQ \in Int
        /\ nwindows <= MAXSEQ - 1
    BY <1>2
  <2>2. i \in Nat /\ i <= r + nwindows /\ r < i + nwindows
    <3>1. i \in 1..Len(sent[Other(h)]) /\ r < i + nwindows BY <1>3
    <3>. QED BY <1>2, <3>1
  <2>. QED BY <2>1, <2>2
<1>6. i % MAXSEQ = (r + 1) % MAXSEQ BY <1>3, <1>4 DEF m
<1>7. i = r + 1 BY <1>5, <1>6, SeqNoUnique
<1>. QED BY <1>3, <1>4, <1>7 DEF i, m, r

\* Accepting a packet keeps the invariant.
LEMMA GotDataStep ==
    ASSUME TypeOK, ReceivedInOrder, NEW h \in Hosts, GotData(h)
    PROVE  TypeOK' /\ ReceivedInOrder'
<1>. DEFINE m   == Head(line[h])
            o   == Other(h)
            s   == nextpkt(rwl[h])
            r   == rcvd[h] + 1
            out == <<Control("ACK", s, r)>>
            k   == Acked(h, m.yyy)
            u   == m.upto
<1>1. /\ InMachine(h) /\ line[h] # <<>> /\ m.type = "DATA" /\ m.xxx = s
      /\ rwl' = [rwl EXCEPT ![h] = s]
      /\ inbuf' = [inbuf EXCEPT ![h][s] = m.data]
      /\ arrived' = [arrived EXCEPT ![h][s] = TRUE]
      /\ rcvd' = [rcvd EXCEPT ![h] = r]
      /\ lazynak' = [lazynak EXCEPT ![h] = IF lazynak[h] > 0
                                           THEN lazynak[h] - 1 ELSE 0]
      /\ inseq' = [inseq EXCEPT ![h] = TRUE]
      /\ Idle(h, TRUE)
      /\ Slide(h, k)
      /\ EndOfLoop(h, Tail(line[h]), out, 0, TRUE, TRUE, FALSE)
      /\ sent' = sent /\ got' = got /\ noise' = noise
  BY DEF GotData, Packet, hisVars
<1>2. /\ m.data.id = r /\ r \in 1..Len(sent[o]) /\ m.data = sent[o][r]
      /\ s = r % MAXSEQ
  BY <1>1, NextIsNext
<1>3. /\ m \in Message /\ Tail(line[h]) \in Seq(Message)
      /\ u \in Nat /\ AckedCount(h) <= u /\ u <= rcvd[o]
      /\ k = u - AckedCount(h) /\ u <= Len(sent[h])
  BY <1>1, HeadFacts
<1>4. /\ o \in Hosts /\ o # h /\ Other(o) = h
      /\ \A g \in Hosts : g = h \/ g = o
  BY TwoHosts
<1>5. /\ rcvd[h] \in Nat /\ rcvd[o] \in Nat /\ AckedCount(h) \in Nat
      /\ rcvd[h] <= r /\ r \in Nat
      /\ AckedCount(o) \in Nat /\ AckedCount(o) <= rcvd[h]
      /\ Len(sent[o]) \in Nat
  <2>1. rcvd[h] \in Nat /\ rcvd[o] \in Nat /\ AckedCount(h) \in Nat
    BY Counts
  <2>2. /\ AckedCount(o) \in Nat /\ AckedCount(o) <= rcvd[h]
        /\ Len(sent[o]) \in Nat
    BY <1>4, Counts
  <2>. QED BY <2>1, <2>2
<1>6. s \in Slots /\ m.data \in Payload
  BY <1>2, <1>3, <1>5, SeqNo, MessageFields
<1>7. LineOK(Tail(line[h]), sent[o], u, rcvd[o], r)
  <2>1. LineOK(line[h], sent[o], AckedCount(h), rcvd[o], rcvd[h])
    BY <1>1, HeadFacts
  <2>2. line[h] \in Seq(Message) /\ sent[o] \in Seq(Payload)
    BY <1>4 DEF TypeOK
  <2>. QED BY <1>1, <1>2, <1>5, <1>3, <2>1, <2>2, LineTail
<1>8. out \in Seq(Message) /\ AllFresh(out, h, r)
  BY <1>2, <1>5, ControlFresh
<1>. HIDE DEF k, u, s, m, out, r, o
<1>9. /\ call' \in [Hosts -> {"send", "get", "close"} \cup Over]
      /\ nerr' \in [Hosts -> 0..(MaxErr - 1)]
      /\ retry' \in [Hosts -> 0..MaxErr]
      /\ tries' \in [Hosts -> 0..MaxTry]
      /\ line' \in [Hosts -> Seq(Message)]
      /\ Stays(h)
      /\ line'[h] = Tail(line[h])
      /\ LineOK(line'[o], sent[h], AckedCount(o), r, rcvd[o])
  BY <1>1, <1>3, <1>5, <1>8, EndOfLoopStep, Zenon DEF o
<1>10. /\ swl' \in [Hosts -> Slots] /\ swu' \in [Hosts -> Slots]
       /\ nbuffers' \in [Hosts -> Nat]
       /\ outbuf' \in [Hosts -> [Slots -> Payload]]
       /\ ftimer' \in [Hosts -> [Slots -> BOOLEAN]]
       /\ AckedCount(h)' = u /\ AckedCount(o)' = AckedCount(o)
       /\ \A g \in Hosts : WindowInv(g)' /\ BufferInv(g)' /\ TimerInv(g)'
  BY <1>1, <1>3, SlideInv DEF o
<1>11. /\ rwl \in [Hosts -> Slots] /\ rcvd \in [Hosts -> Nat]
       /\ inbuf \in [Hosts -> [Slots -> Payload]]
       /\ arrived \in [Hosts -> [Slots -> BOOLEAN]]
  BY DEF TypeOK
<1>12. /\ rwl'[h] = s /\ rwl'[o] = rwl[o]
       /\ rcvd'[h] = r /\ rcvd'[o] = rcvd[o]
       /\ inbuf'[h][s] = m.data /\ inbuf'[o] = inbuf[o]
       /\ arrived'[h][s] = TRUE /\ arrived'[o] = arrived[o]
       /\ rwl' \in [Hosts -> Slots] /\ rcvd' \in [Hosts -> Nat]
       /\ inbuf' \in [Hosts -> [Slots -> Payload]]
       /\ arrived' \in [Hosts -> [Slots -> BOOLEAN]]
  BY <1>1, <1>4, <1>5, <1>6, <1>11
<1>13. TypeOK'
  <2>1. /\ lazynak' \in [Hosts -> 0..(nwindows + 1)]
        /\ inseq' \in [Hosts -> BOOLEAN] /\ quiet' \in [Hosts -> BOOLEAN]
        /\ noise' \in Noises
    <3>1. lazynak[h] \in 0..(nwindows + 1) BY ErrTypes
    <3>2. (IF lazynak[h] > 0 THEN lazynak[h] - 1 ELSE 0) \in 0..(nwindows + 1)
      BY <3>1, WindowRange
    <3>3. lazynak' \in [Hosts -> 0..(nwindows + 1)] BY <1>1, <3>2, ErrTypes
    <3>. QED BY <1>1, <3>3, ErrTypes, Zenon
  <2>. QED BY <1>1, <1>9, <1>10, <1>12, <2>1 DEF TypeOK
<1>14. \A g \in Hosts : CountInv(g)'
  <2>1. CountInv(h) /\ CountInv(o) BY <1>4 DEF ReceivedInOrder
  <2>2. CountInv(h)'
    BY <1>1, <1>2, <1>3, <1>10, <1>12, <2>1 DEF CountInv, o
  <2>3. CountInv(o)'
    <3>1. /\ rwl'[o] = rcvd'[o] % MAXSEQ BY <1>12, <2>1 DEF CountInv
    <3>2. AckedCount(o)' <= rcvd'[h] BY <1>5, <1>10, <1>12 DEF r
    <3>3. rcvd'[h] <= Len(sent'[o]) BY <1>1, <1>2, <1>5, <1>12
    <3>. QED BY <1>4, <3>1, <3>2, <3>3 DEF CountInv
  <2>. QED BY <1>4, <2>2, <2>3
<1>15. \A g \in Hosts : LineInv(g)'
  <2>1. LineInv(h)' BY <1>1, <1>9, <1>10, <1>12 DEF LineInv, o
  <2>2. LineInv(o)' BY <1>1, <1>4, <1>7, <1>9, <1>10, <1>12 DEF LineInv
  <2>. QED BY <1>4, <2>1, <2>2
<1>16. /\ call'[h] \in {"send", "get"} => call'[h] = call[h]
       /\ call'[o] = call[o] /\ retry'[o] = retry[o]
       /\ call'[h] = "get" => retry'[h] > 0
  BY <1>9 DEF Stays, Over, o
<1>17. \A g \in Hosts : DeliveryInv(g)'
  <2>1. DeliveryInv(h) /\ DeliveryInv(o) BY <1>4 DEF ReceivedInOrder
  <2>2. DeliveryInv(o)'
    <3>1. sent' = sent /\ got' = got BY <1>1
    <3>2. InCalls(o)' => InCalls(o) BY <1>16 DEF InCalls
    <3>. QED BY <1>4, <1>12, <2>1, <3>1, <3>2 DEF DeliveryInv
  <2>3. Len(got[h]) \in Nat BY DEF TypeOK
  <2>4. ASSUME InCalls(h)' PROVE rcvd[h] = Len(got[h])
    <3>1. call[h] \in {"send", "get"} BY <1>16, <2>4 DEF InCalls
    <3>2. CASE call[h] = "get"
      <4>1. ~arrived[h][rwl[h]] BY <1>1, <3>2 DEF InMachine
      <4>. QED BY <1>5, <2>1, <2>3, <3>1, <4>1 DEF DeliveryInv, InCalls
    <3>3. CASE call[h] = "send"
      <4>1. ~(Len(got[h]) < Len(sent[o]))
        <5>1. TurnInv(h) BY DEF ReceivedInOrder
        <5>. QED BY <1>4, <3>3, <5>1 DEF TurnInv, Pending, o
      <4>2. Len(got[h]) <= rcvd[h] BY <2>1 DEF DeliveryInv
      <4>. QED BY <1>2, <1>5, <2>3, <4>1, <4>2 DEF r
    <3>. QED BY <3>1, <3>2, <3>3
  <2>5. DeliveryInv(h)'
    <3>1. Len(got[h]) <= r /\ (InCalls(h)' => r = Len(got[h]) + 1)
      BY <1>5, <2>1, <2>3, <2>4 DEF r, DeliveryInv
    <3>2. \A i \in 1..Len(got[h]) : got[h][i] = sent[o][i]
      BY <2>1 DEF DeliveryInv, o
    <3>. QED BY <1>1, <1>2, <1>12, <3>1, <3>2 DEF DeliveryInv, o
  <2>. QED BY <1>4, <2>2, <2>5
<1>18. \A g \in Hosts : TurnInv(g)'
  <2>1. \A g \in Hosts : TurnInv(g) BY DEF ReceivedInOrder
  <2>2. \A g \in Hosts : Pending(g)' = Pending(g) BY <1>1 DEF Pending
  <2>3. \A g \in Hosts : call'[g] = "send" => call[g] = "send"
    BY <1>4, <1>16
  <2>4. \A g \in Hosts : Other(g) \in Hosts BY TwoHosts
  <2>. QED BY <1>1, <2>1, <2>2, <2>3, <2>4 DEF TurnInv
<1>19. \A g \in Hosts : CallInv(g)'
  <2>1. \A g \in Hosts : CallInv(g) BY DEF ReceivedInOrder
  <2>. QED BY <1>1, <1>4, <1>16, <2>1 DEF CallInv
<1>. QED BY <1>10, <1>13, <1>14, <1>15, <1>17, <1>18, <1>19
         DEF ReceivedInOrder

(***************************************************************************)
(* gsendpkt and ggetpkt                                                    *)
(***************************************************************************)
\* What the layer above does after gsendpkt or ggetpkt.
LEMMA ProceedFacts ==
    ASSUME TypeOK, NEW h \in Hosts, NEW next \in {"send", "get", "close"},
           NEW out \in Seq(Message), Proceed(h, next, out)
    PROVE  /\ call' \in [Hosts -> {"send", "get", "close"} \cup Over]
           /\ retry' \in [Hosts -> 0..MaxErr] /\ retry'[h] > 0
           /\ tries' \in [Hosts -> 0..MaxTry] /\ noise' \in Noises
           /\ line' \in [Hosts -> Seq(Message)] /\ line'[h] = line[h]
           /\ \E c \in {<<>>, <<CLOSE>>} :
                 line'[Other(h)] = Put(Put(line[Other(h)], out), c)
           /\ call'[h] \in {next, "close"}
           /\ call'[Other(h)] = call[Other(h)]
           /\ retry'[Other(h)] = retry[Other(h)]
<1>1. Other(h) \in Hosts /\ Other(h) # h BY TwoHosts
<1>2. /\ call \in [Hosts -> {"send", "get", "close"} \cup Over]
      /\ retry \in [Hosts -> 0..MaxErr] /\ tries \in [Hosts -> 0..MaxTry]
      /\ line \in [Hosts -> Seq(Message)]
      /\ MaxErr \in Nat \ {0} /\ MaxTry \in Nat \ {0}
  BY BoundsAssumption DEF TypeOK
<1>3. PICK abort \in BOOLEAN :
         LET close == abort \/ next = "close"
         IN  /\ IF abort THEN Fault("abort") ELSE UNCHANGED noise
             /\ call' = [call EXCEPT ![h] = IF close THEN "close" ELSE next]
             /\ tries' = [tries EXCEPT ![h] = IF close THEN 1 ELSE 0]
             /\ line' = [line EXCEPT ![Other(h)] =
                           Put(Put(line[Other(h)], out),
                               IF close THEN <<CLOSE>> ELSE <<>>)]
  BY DEF Proceed
<1>4. retry' = [retry EXCEPT ![h] = MaxErr] BY DEF Proceed
<1>. DEFINE c == IF abort \/ next = "close" THEN <<CLOSE>> ELSE <<>>
            new == Put(Put(line[Other(h)], out), c)
<1>5. new \in Seq(Message)
  <2>1. 0 \in Nat OBVIOUS
  <2>2. c \in Seq(Message) BY <2>1, ControlFresh, EmptyFresh
  <2>. HIDE DEF c
  <2>3. Put(line[Other(h)], out) \in Seq(Message) BY <1>1, <1>2, PutElements
  <2>. QED BY <2>2, <2>3, PutElements
<1>6. line' = [line EXCEPT ![Other(h)] = new] BY <1>3
<1>. HIDE DEF new
<1>7. /\ line' \in [Hosts -> Seq(Message)] /\ line'[h] = line[h]
      /\ line'[Other(h)] = new
  BY <1>1, <1>2, <1>5, <1>6
<1>8. noise' \in Noises BY <1>3, ErrTypes
<1>9. /\ call' \in [Hosts -> {"send", "get", "close"} \cup Over]
      /\ tries' \in [Hosts -> 0..MaxTry]
      /\ retry' \in [Hosts -> 0..MaxErr] /\ retry'[h] > 0
      /\ call'[h] \in {next, "close"} /\ call'[Other(h)] = call[Other(h)]
      /\ retry'[Other(h)] = retry[Other(h)]
  BY <1>1, <1>2, <1>3, <1>4
<1>. QED BY <1>7, <1>8, <1>9 DEF new

\* Handing a packet over keeps the invariant.
LEMMA ggetpktStep ==
    ASSUME TypeOK, ReceivedInOrder, NEW h \in Hosts, ggetpkt(h)
    PROVE  TypeOK' /\ ReceivedInOrder'
<1>. DEFINE o == Other(h)
            d == inbuf[h][rwl[h]]
            r == rcvd[h]
            n == Len(got[h])
<1>1. /\ call[h] = "get" /\ arrived[h][rwl[h]]
      /\ got' = [got EXCEPT ![h] = Append(got[h], d)]
      /\ arrived' = [arrived EXCEPT ![h][rwl[h]] = FALSE]
      /\ Proceed(h, AfterGetting[d.kind], <<>>)
      /\ UNCHANGED sndVars /\ UNCHANGED errVars
      /\ rwl' = rwl /\ inbuf' = inbuf /\ rcvd' = rcvd /\ sent' = sent
  BY DEF ggetpkt
<1>2. /\ o \in Hosts /\ o # h /\ Other(o) = h
      /\ \A g \in Hosts : g = h \/ g = o
  BY TwoHosts
<1>3. /\ rwl \in [Hosts -> Slots] /\ rcvd \in [Hosts -> Nat]
      /\ inbuf \in [Hosts -> [Slots -> Payload]]
      /\ arrived \in [Hosts -> [Slots -> BOOLEAN]]
      /\ got \in [Hosts -> Seq(Payload)] /\ sent \in [Hosts -> Seq(Payload)]
      /\ d \in Payload /\ d.kind \in {"more", "turn", "bye"}
      /\ r \in Nat /\ n \in Nat /\ Len(sent[o]) \in Nat
  <2>1. /\ rwl \in [Hosts -> Slots] /\ rcvd \in [Hosts -> Nat]
        /\ inbuf \in [Hosts -> [Slots -> Payload]]
        /\ arrived \in [Hosts -> [Slots -> BOOLEAN]]
        /\ got \in [Hosts -> Seq(Payload)] /\ sent \in [Hosts -> Seq(Payload)]
    BY DEF TypeOK
  <2>2. d \in Payload /\ r \in Nat BY <2>1
  <2>3. n \in Nat /\ Len(sent[o]) \in Nat BY <1>2, <2>1
  <2>. HIDE DEF d
  <2>4. d.kind \in {"more", "turn", "bye"} BY <2>2 DEF Payload, Kinds
  <2>. QED BY <2>1, <2>2, <2>3, <2>4
<1>4. AfterGetting[d.kind] \in {"send", "get", "close"}
      /\ (AfterGetting[d.kind] = "send" => d.kind = "turn")
  BY <1>3 DEF AfterGetting
<1>5. r = n + 1 /\ d = sent[o][r] /\ r <= Len(sent[o])
  <2>1. DeliveryInv(h) /\ CountInv(o) BY <1>2 DEF ReceivedInOrder
  <2>. QED BY <1>1, <1>2, <1>3, <2>1 DEF DeliveryInv, InCalls, CountInv
<1>. HIDE DEF d, r, n, o
<1>6. <<>> \in Seq(Message) OBVIOUS
<1>7. /\ call' \in [Hosts -> {"send", "get", "close"} \cup Over]
      /\ retry' \in [Hosts -> 0..MaxErr] /\ retry'[h] > 0
      /\ tries' \in [Hosts -> 0..MaxTry] /\ noise' \in Noises
      /\ line' \in [Hosts -> Seq(Message)] /\ line'[h] = line[h]
      /\ \E c \in {<<>>, <<CLOSE>>} : line'[o] = Put(Put(line[o], <<>>), c)
      /\ call'[h] \in {AfterGetting[d.kind], "close"} /\ call'[o] = call[o]
      /\ retry'[o] = retry[o]
  BY <1>1, <1>4, <1>6, ProceedFacts DEF o
<1>8. /\ got' \in [Hosts -> Seq(Payload)] /\ got'[o] = got[o]
      /\ got'[h] = Append(got[h], d) /\ Len(got'[h]) = n + 1
      /\ got'[h][n + 1] = d /\ \A i \in 1..n : got'[h][i] = got[h][i]
      /\ arrived' \in [Hosts -> [Slots -> BOOLEAN]]
      /\ ~arrived'[h][rwl[h]] /\ arrived'[o] = arrived[o]
  <2>1. got' \in [Hosts -> Seq(Payload)] /\ got'[o] = got[o]
        /\ got'[h] = Append(got[h], d)
    BY <1>1, <1>2, <1>3
  <2>2. /\ arrived' \in [Hosts -> [Slots -> BOOLEAN]]
        /\ ~arrived'[h][rwl[h]] /\ arrived'[o] = arrived[o]
    BY <1>1, <1>2, <1>3
  <2>3. got[h] \in Seq(Payload) /\ Len(got[h]) = n BY <1>3 DEF n
  <2>4. /\ Len(Append(got[h], d)) = n + 1 /\ Append(got[h], d)[n + 1] = d
        /\ \A i \in 1..n : Append(got[h], d)[i] = got[h][i]
    BY <1>3, <2>3, AppendElements
  <2>. QED BY <2>1, <2>2, <2>4
<1>9. /\ swl' \in [Hosts -> Slots] /\ swu' \in [Hosts -> Slots]
      /\ nbuffers' \in [Hosts -> Nat]
      /\ outbuf' \in [Hosts -> [Slots -> Payload]]
      /\ ftimer' \in [Hosts -> [Slots -> BOOLEAN]]
      /\ \A g \in Hosts : AckedCount(g)' = AckedCount(g)
      /\ \A g \in Hosts : WindowInv(g)' /\ BufferInv(g)' /\ TimerInv(g)'
  BY <1>1, Unslid
<1>10. TypeOK'
  BY <1>1, <1>7, <1>8, <1>9 DEF TypeOK, errVars
<1>11. \A g \in Hosts : CountInv(g)'
  <2>1. \A g \in Hosts : CountInv(g) BY DEF ReceivedInOrder
  <2>. QED BY <1>1, <1>9, <2>1 DEF CountInv
<1>12. \A g \in Hosts : LineInv(g)'
  <2>1. PICK c \in {<<>>, <<CLOSE>>} :
           line'[o] = Put(Put(line[o], <<>>), c)
    BY <1>7
  <2>2. c \in Seq(Message) /\ AllFresh(c, h, r) /\ AllFresh(<<>>, h, r)
        /\ r <= r
    <3>1. r \in Nat /\ r <= r BY <1>3
    <3>2. <<CLOSE>> \in Seq(Message) /\ AllFresh(<<CLOSE>>, h, r)
      BY <3>1, ControlFresh
    <3>3. <<>> \in Seq(Message) /\ AllFresh(<<>>, h, r) BY EmptyFresh
    <3>. QED BY <3>1, <3>2, <3>3
  <2>3. Put(Put(line[o], <<>>), c) = Put(Put(Put(line[o], <<>>), <<>>), c)
    <3>1. Put(line[o], <<>>) \in Seq(Message)
      BY <1>2, <1>6, PutElements DEF TypeOK
    <3>. QED BY <3>1, PutNothing
  <2>4. LineOK(line'[o], sent[h], AckedCount(o), r, rcvd[o])
    BY <1>3, <1>6, <2>1, <2>2, <2>3, LineSend DEF o, r
  <2>5. LineInv(h)' BY <1>1, <1>2, <1>9, <2>4 DEF LineInv, o, r
  <2>6. LineInv(o) BY <1>2 DEF ReceivedInOrder
  <2>7. LineInv(o)' BY <1>1, <1>2, <1>7, <1>9, <2>6 DEF LineInv
  <2>. QED BY <1>2, <2>5, <2>7
<1>13. \A g \in Hosts : DeliveryInv(g)'
  <2>1. DeliveryInv(h) /\ DeliveryInv(o) BY <1>2 DEF ReceivedInOrder
  <2>2. DeliveryInv(o)'
    BY <1>1, <1>2, <1>7, <1>8, <2>1 DEF DeliveryInv, InCalls
  <2>3. \A i \in 1..(n + 1) : got'[h][i] = sent[o][i]
    BY <1>3, <1>5, <1>8, <2>1 DEF DeliveryInv, n, o
  <2>4. DeliveryInv(h)'
    BY <1>1, <1>3, <1>5, <1>8, <2>3 DEF DeliveryInv, r, o
  <2>. QED BY <1>2, <2>2, <2>4
<1>14. TurnInv(h)' /\ TurnInv(o)'
  <2>1. TurnInv(h) /\ TurnInv(o) BY <1>2 DEF ReceivedInOrder
  <2>2. Pending(o) /\ (Pending(o)' <=> n + 1 < Len(sent[o]))
        /\ (Pending(h)' <=> Pending(h))
    BY <1>1, <1>2, <1>3, <1>5, <1>8 DEF Pending, n, o
  <2>3. ~Pending(h) BY <1>2, <2>1, <2>2 DEF TurnInv
  <2>4. \A i \in (n + 1)..(Len(sent[o]) - 1) : sent[o][i].kind = "more"
    BY <1>2, <2>1, <2>2 DEF TurnInv, n
  <2>5. call'[h] = "send" => ~Pending(o)' /\ call[o] # "send"
    <3>1. SUFFICES ASSUME call'[h] = "send"
                   PROVE  ~Pending(o)' /\ call[o] # "send"
      OBVIOUS
    <3>2. d.kind = "turn" BY <1>4, <1>7, <3>1
    <3>3. ~(n + 1 < Len(sent[o]))
      <4>1. SUFFICES ASSUME n + 1 < Len(sent[o]) PROVE FALSE OBVIOUS
      <4>2. n + 1 \in (n + 1)..(Len(sent[o]) - 1) BY <1>3, <4>1
      <4>. QED BY <1>5, <2>4, <3>2, <4>2
    <3>4. r = Len(sent[o]) BY <1>3, <1>5, <3>3
    <3>5. call[o] # "send"
      BY <1>5, <2>1, <2>2, <3>2, <3>4 DEF TurnInv
    <3>. QED BY <2>2, <3>3, <3>5
  <2>6. TurnInv(h)'
    BY <1>1, <1>2, <1>7, <1>8, <2>2, <2>3, <2>5 DEF TurnInv, o
  <2>7. TurnInv(o)'
    <3>1. call'[o] = "send" => /\ ~Pending(h)' /\ call'[h] # "send"
                               /\ Pending(o)' =>
                                     sent[o][Len(sent[o])].kind = "more"
      BY <1>7, <2>1, <2>2, <2>3, <2>5 DEF TurnInv
    <3>2. Pending(o)' =>
             /\ ~Pending(h)'
             /\ \A i \in (n + 2)..(Len(sent[o]) - 1) : sent[o][i].kind = "more"
      BY <1>3, <2>2, <2>3, <2>4
    <3>3. Len(got'[h]) + 1 = n + 2 BY <1>3, <1>8
    <3>. QED BY <1>1, <1>2, <3>1, <3>2, <3>3 DEF TurnInv
  <2>. QED BY <2>6, <2>7
<1>15. \A g \in Hosts : CallInv(g)'
  <2>1. \A g \in Hosts : CallInv(g) BY DEF ReceivedInOrder
  <2>. QED BY <1>1, <1>2, <1>7, <2>1 DEF CallInv
<1>. QED BY <1>2, <1>9, <1>10, <1>11, <1>12, <1>13, <1>14, <1>15
         DEF ReceivedInOrder

\* Taking a packet from the layer above keeps the invariant.
LEMMA gsendpktStep ==
    ASSUME TypeOK, ReceivedInOrder, NEW h \in Hosts, NEW kind \in Kinds,
           gsendpkt(h, kind)
    PROVE  TypeOK' /\ ReceivedInOrder'
<1>. DEFINE o   == Other(h)
            s   == swu[h]
            n   == Len(sent[h])
            d   == [id |-> n + 1, kind |-> kind]
            a   == AckedCount(h)
            t   == Append(sent[h], d)
            out == <<Data(s, d, rwl[h], rcvd[h])>>
<1>1. /\ call[h] = "send" /\ nbuffers[h] < nwindows /\ n < MaxPkts[h]
      /\ outbuf' = [outbuf EXCEPT ![h][s] = d]
      /\ ftimer' = [ftimer EXCEPT ![h][s] = TRUE]
      /\ nbuffers' = [nbuffers EXCEPT ![h] = nbuffers[h] + 1]
      /\ swu' = [swu EXCEPT ![h] = nextpkt(s)]
      /\ sent' = [sent EXCEPT ![h] = t]
      /\ Proceed(h, AfterSending[kind], out)
      /\ UNCHANGED rcvVars /\ UNCHANGED errVars /\ swl' = swl /\ got' = got
  BY DEF gsendpkt
<1>2. /\ o \in Hosts /\ o # h /\ Other(o) = h
      /\ \A g \in Hosts : g = h \/ g = o
  BY TwoHosts
<1>3. /\ swu \in [Hosts -> Slots] /\ swl \in [Hosts -> Slots]
      /\ nbuffers \in [Hosts -> Nat]
      /\ outbuf \in [Hosts -> [Slots -> Payload]]
      /\ ftimer \in [Hosts -> [Slots -> BOOLEAN]]
      /\ sent \in [Hosts -> Seq(Payload)] /\ sent[h] \in Seq(Payload)
      /\ n \in Nat /\ s \in Slots /\ swl[h] \in Slots /\ rwl[h] \in Slots
  BY DEF TypeOK
<1>4. d \in Payload /\ d.id = n + 1 /\ d.kind = kind
  <2>1. MaxPkts[Caller] \in Nat /\ MaxPkts[Answerer] \in Nat
    BY BoundsAssumption DEF Hosts
  <2>2. n + 1 \in 0..(MaxPkts[Caller] + MaxPkts[Answerer])
    <3>1. n < MaxPkts[h] /\ n \in Nat BY <1>1, <1>3
    <3>. QED BY <2>1, <3>1 DEF Hosts
  <2>. QED BY <2>2 DEF Payload
<1>5. /\ a \in Nat /\ nbuffers[h] = n - a /\ a <= rcvd[o] /\ rcvd[o] <= n
      /\ rcvd[h] \in Nat /\ rcvd[o] \in Nat /\ rwl[h] = rcvd[h] % MAXSEQ
      /\ swl[h] = (a + 1) % MAXSEQ /\ s = (n + 1) % MAXSEQ
      /\ nwindows \in 1..(MAXSEQ - 1) /\ MAXSEQ \in 2..8
  <2>. HIDE DEF n, a, s
  <2>. QED BY Counts DEF n, a, s, o
<1>6. /\ t \in Seq(Payload) /\ Len(t) = n + 1 /\ t[n + 1] = d
      /\ \A i \in 1..n : t[i] = sent[h][i]
  <2>. HIDE DEF d
  <2>. QED BY <1>3, <1>4, AppendElements
<1>. HIDE DEF o, s, n, d, a, t
<1>7. out \in Seq(Message) /\ Fresh(out[1], t, a, rcvd[h]) /\ Len(out) = 1
  <2>. DEFINE m == Data(s, d, rwl[h], rcvd[h])
  <2>1. m \in Message BY <1>3, <1>4, <1>5 DEF Data, Message
  <2>2. d.id \in (a + 1)..Len(t)
    BY <1>1, <1>4, <1>5, <1>3, <1>6
  <2>3. Fresh(m, t, a, rcvd[h])
    BY <1>4, <1>5, <1>6, <2>2 DEF Fresh, Data
  <2>. HIDE DEF m
  <2>. QED BY <2>1, <2>3 DEF m
<1>8. AfterSending[kind] \in {"send", "get", "close"}
      /\ (AfterSending[kind] = "send" => kind = "more")
  BY DEF AfterSending, Kinds
<1>. HIDE DEF out
<1>9. /\ call' \in [Hosts -> {"send", "get", "close"} \cup Over]
      /\ retry' \in [Hosts -> 0..MaxErr] /\ retry'[h] > 0
      /\ tries' \in [Hosts -> 0..MaxTry] /\ noise' \in Noises
      /\ line' \in [Hosts -> Seq(Message)] /\ line'[h] = line[h]
      /\ \E c \in {<<>>, <<CLOSE>>} : line'[o] = Put(Put(line[o], out), c)
      /\ call'[h] \in {AfterSending[kind], "close"} /\ call'[o] = call[o]
      /\ retry'[o] = retry[o]
  BY <1>1, <1>7, <1>8, ProceedFacts DEF o
<1>10. /\ sent' \in [Hosts -> Seq(Payload)] /\ sent'[h] = t /\ sent'[o] = sent[o]
       /\ nbuffers' \in [Hosts -> Nat] /\ nbuffers'[h] = nbuffers[h] + 1
       /\ nbuffers'[o] = nbuffers[o]
       /\ swu' \in [Hosts -> Slots] /\ swu'[h] = (n + 2) % MAXSEQ
       /\ swu'[o] = swu[o]
  <2>1. nextpkt(s) \in Slots /\ nextpkt(s) = (n + 2) % MAXSEQ
    <3>1. n + 1 \in Nat /\ n + 2 \in Nat /\ (n + 1) + 1 = n + 2 BY <1>3
    <3>2. nextpkt((n + 1) % MAXSEQ) = ((n + 1) + 1) % MAXSEQ BY <3>1, SeqNo
    <3>3. (n + 2) % MAXSEQ \in Slots BY <3>1, SeqNo
    <3>. QED BY <1>5, <3>1, <3>2, <3>3
  <2>. QED BY <1>1, <1>2, <1>3, <1>6, <2>1
<1>11. /\ outbuf' \in [Hosts -> [Slots -> Payload]]
       /\ outbuf'[h][s] = d /\ outbuf'[o] = outbuf[o]
       /\ \A x \in Slots : x # s => outbuf'[h][x] = outbuf[h][x]
       /\ ftimer' \in [Hosts -> [Slots -> BOOLEAN]]
       /\ ftimer'[h][s] = TRUE /\ ftimer'[o] = ftimer[o]
       /\ \A x \in Slots : x # s => ftimer'[h][x] = ftimer[h][x]
  BY <1>1, <1>2, <1>3, <1>4
<1>12. TypeOK'
  BY <1>1, <1>9, <1>10, <1>11 DEF TypeOK, rcvVars, errVars
<1>13. /\ AckedCount(h)' = a /\ AckedCount(o)' = AckedCount(o)
  BY <1>3, <1>5, <1>6, <1>10 DEF AckedCount
<1>14. \A g \in Hosts : WindowInv(g) /\ BufferInv(g) /\ TimerInv(g)
                        /\ CountInv(g) /\ DeliveryInv(g) /\ TurnInv(g)
                        /\ CallInv(g) /\ LineInv(g)
  BY DEF ReceivedInOrder
<1>15. WindowInv(h)'
  <2>1. nbuffers'[h] \in 0..nwindows /\ nbuffers'[h] <= n + 1
    <3>1. nbuffers[h] < nwindows BY <1>1
    <3>2. nbuffers[h] = n - a /\ a \in Nat /\ n \in Nat /\ nwindows \in Nat
      BY <1>3, <1>5
    <3>3. nbuffers'[h] = nbuffers[h] + 1 BY <1>10
    <3>4. nbuffers[h] \in Nat BY <1>3
    <3>. QED BY <3>1, <3>2, <3>3, <3>4
  <2>2. (n + 1) + 1 = n + 2 BY <1>3
  <2>. QED BY <1>1, <1>5, <1>6, <1>10, <1>13, <2>1, <2>2 DEF WindowInv
<1>16. BufferInv(h)'
  <2>1. ASSUME NEW i \in 1..(n + 1) PROVE t[i].id = i
    <3>1. CASE i = n + 1 BY <1>4, <1>6, <3>1
    <3>2. CASE i # n + 1
      <4>1. i \in 1..n BY <1>3, <3>2
      <4>. QED BY <1>6, <1>14, <4>1 DEF BufferInv, n
    <3>. QED BY <3>1, <3>2
  <2>2. ASSUME NEW i \in (a + 1)..(n + 1) PROVE outbuf'[h][i % MAXSEQ] = t[i]
    <3>1. CASE i = n + 1 BY <1>5, <1>6, <1>11, <3>1
    <3>2. CASE i # n + 1
      <4>1. i \in (a + 1)..n /\ i \in 1..n /\ i \in Nat /\ n + 1 \in Nat
        <5>1. n \in Nat /\ a \in Nat BY <1>3, <1>5
        <5>. QED BY <3>2, <5>1
      <4>2. i - (n + 1) < MAXSEQ /\ (n + 1) - i < MAXSEQ
        <5>1. n < a + nwindows BY <1>1, <1>3, <1>5
        <5>. QED BY <1>3, <1>5, <4>1, <5>1
      <4>3. i % MAXSEQ # s
        <5>1. SUFFICES ASSUME i % MAXSEQ = s PROVE FALSE OBVIOUS
        <5>2. i % MAXSEQ = (n + 1) % MAXSEQ BY <1>5, <5>1
        <5>3. i = n + 1 BY <4>1, <4>2, <5>2, SeqNoUnique
        <5>. QED BY <3>2, <5>3
      <4>4. i % MAXSEQ \in Slots BY <4>1, SeqNo
      <4>5. outbuf[h][i % MAXSEQ] = sent[h][i]
        BY <1>14, <4>1 DEF BufferInv, n, a
      <4>. QED BY <1>6, <1>11, <4>1, <4>3, <4>4, <4>5
    <3>. QED BY <3>1, <3>2
  <2>. QED BY <1>6, <1>10, <1>13, <2>1, <2>2 DEF BufferInv
<1>17. TimerInv(h)'
  <2>1. (s - swl[h]) % MAXSEQ = nbuffers[h] /\ nbuffers[h] < MAXSEQ
        /\ nbuffers[h] \in Nat
    <3>1. a + 1 \in Nat /\ n + 1 \in Nat /\ a + 1 <= n + 1
          /\ (n + 1) - (a + 1) = n - a /\ n - a < MAXSEQ /\ n - a \in Nat
      BY <1>1, <1>3, <1>5
    <3>2. (((n + 1) % MAXSEQ) - ((a + 1) % MAXSEQ)) % MAXSEQ = n - a
      BY <3>1, SeqNoDiff
    <3>3. (s - swl[h]) % MAXSEQ = n - a BY <1>5, <3>2, Zenon
    <3>. QED BY <1>5, <3>1, <3>3
  <2>2. ASSUME NEW x \in Slots
        PROVE  ftimer'[h][x] <=> (x - swl[h]) % MAXSEQ < nbuffers[h] + 1
    <3>1. (x - swl[h]) % MAXSEQ < nbuffers[h] + 1
             <=> (x = s \/ (x - swl[h]) % MAXSEQ < nbuffers[h])
      BY <1>3, <2>1, SlotNext
    <3>2. ftimer[h][x] <=> (x - swl[h]) % MAXSEQ < nbuffers[h]
      BY <1>14 DEF TimerInv
    <3>3. CASE x = s BY <1>11, <3>1, <3>3
    <3>4. CASE x # s
      <4>1. ftimer'[h][x] = ftimer[h][x] BY <1>11, <3>4
      <4>. QED BY <3>1, <3>2, <3>4, <4>1, Zenon
    <3>. QED BY <3>3, <3>4
  <2>. QED BY <1>1, <1>10, <2>2 DEF TimerInv
<1>18. WindowInv(o)' /\ BufferInv(o)' /\ TimerInv(o)'
  BY <1>1, <1>2, <1>10, <1>11, <1>13, <1>14 DEF WindowInv, BufferInv, TimerInv
<1>19. rcvd' = rcvd /\ rwl' = rwl /\ arrived' = arrived /\ inbuf' = inbuf
  BY <1>1 DEF rcvVars
<1>20. CountInv(h)' /\ CountInv(o)'
  <2>1. CountInv(h)'
    <3>1. rcvd[o] <= n + 1 BY <1>3, <1>5
    <3>2. rwl'[h] = rcvd'[h] % MAXSEQ BY <1>5, <1>19
    <3>3. AckedCount(h)' <= rcvd'[o] BY <1>5, <1>13, <1>19
    <3>4. rcvd'[o] <= Len(sent'[h]) BY <3>1, <1>6, <1>10, <1>19
    <3>. QED BY <3>2, <3>3, <3>4 DEF CountInv, o
  <2>2. CountInv(o)'
    <3>1. rcvd[h] <= Len(sent[o]) BY <1>2, <1>14 DEF CountInv
    <3>. QED BY <1>2, <1>10, <1>13, <1>14, <1>19, <3>1 DEF CountInv
  <2>. QED BY <2>1, <2>2
<1>21. LineInv(h)' /\ LineInv(o)'
  <2>. DEFINE acc == AckedCount(o)
  <2>1. /\ line[o] \in Seq(Message) /\ acc \in Nat /\ acc <= rcvd[h]
    BY <1>2, Counts DEF TypeOK
  <2>. HIDE DEF acc
  <2>2. LineOK(line[o], sent[h], acc, rcvd[h], rcvd[o])
    BY <1>14 DEF LineInv, o, acc
  <2>3. LineOK(line[o], t, acc, rcvd[h], rcvd[o])
    <3>1. Len(sent[h]) <= Len(t) /\ rcvd[h] <= rcvd[h]
          /\ \A i \in 1..Len(sent[h]) : t[i] = sent[h][i]
      BY <1>3, <1>5, <1>6 DEF n
    <3>. QED BY <1>3, <1>5, <1>6, <2>1, <2>2, <3>1, LineGrow
  <2>4. Len(t) <= a + nwindows /\ rcvd[o] <= Len(t)
    BY <1>1, <1>3, <1>5, <1>6
  <2>. DEFINE c1 == Put(line[o], out)
  <2>5. c1 \in Seq(Message) /\ LineOK(c1, t, acc, rcvd[h], rcvd[o])
    <3>1. \A i \in 1..Len(out) : Fresh(out[i], t, a, rcvd[h]) BY <1>7
    <3>. QED BY <1>5, <1>6, <1>7, <2>1, <2>3, <2>4, <3>1, LinePut
  <2>. HIDE DEF c1
  <2>6. ASSUME NEW c \in Seq(Message),
               \A i \in 1..Len(c) : Fresh(c[i], t, a, rcvd[h])
        PROVE  LineOK(Put(c1, c), t, acc, rcvd[h], rcvd[o])
    BY <1>5, <1>6, <2>1, <2>4, <2>5, <2>6, LinePut
  <2>7. /\ LineOK(Put(c1, <<>>), t, acc, rcvd[h], rcvd[o])
        /\ LineOK(Put(c1, <<CLOSE>>), t, acc, rcvd[h], rcvd[o])
    <3>1. <<CLOSE>> \in Seq(Message) BY <1>5, ControlFresh
    <3>2. Fresh(CLOSE, t, a, rcvd[h]) BY DEF Fresh, CLOSE, Control
    <3>3. \A i \in 1..Len(<<CLOSE>>) : Fresh(<<CLOSE>>[i], t, a, rcvd[h])
      BY <3>2
    <3>4. <<>> \in Seq(Message)
          /\ \A i \in 1..Len(<<>>) : Fresh(<<>>[i], t, a, rcvd[h])
      OBVIOUS
    <3>. QED BY <2>6, <3>1, <3>3, <3>4
  <2>8. LineOK(line'[o], t, acc, rcvd[h], rcvd[o])
    BY <1>9, <2>7 DEF c1
  <2>9. LineInv(h)'
    BY <1>10, <1>13, <1>19, <2>8 DEF LineInv, o, acc
  <2>10. LineInv(o)'
    BY <1>2, <1>9, <1>10, <1>13, <1>14, <1>19 DEF LineInv, a
  <2>. QED BY <2>9, <2>10
<1>22. /\ call'[h] \in {"send", "get", "close"}
       /\ call'[h] = "send" => kind = "more"
  BY <1>8, <1>9
<1>23. DeliveryInv(h)' /\ DeliveryInv(o)'
  <2>1. DeliveryInv(h)'
    BY <1>1, <1>2, <1>10, <1>14, <1>19 DEF DeliveryInv, InCalls, o
  <2>2. Len(got[o]) \in Nat /\ Len(got[o]) <= rcvd[o]
    BY <1>2, <1>14 DEF DeliveryInv, TypeOK
  <2>3. /\ \A i \in 1..Len(got[o]) : t[i] = sent[h][i]
        /\ rcvd[o] > 0 => t[rcvd[o]] = sent[h][rcvd[o]]
    <3>1. rcvd[o] <= n /\ n \in Nat /\ rcvd[o] \in Nat BY <1>3, <1>5
    <3>2. Len(got[o]) <= n BY <2>2, <3>1
    <3>. QED BY <1>6, <2>2, <3>1, <3>2
  <2>4. DeliveryInv(o)
    BY <1>2, <1>14
  <2>5. InCalls(o)' => InCalls(o) BY <1>9 DEF InCalls
  <2>6. InCalls(o) /\ arrived[o][rwl[o]] => rcvd[o] > 0
    BY <1>5, <2>2, <2>4 DEF DeliveryInv
  <2>7. \A i \in 1..Len(got[o]) : got[o][i] = t[i]
    BY <1>2, <2>3, <2>4 DEF DeliveryInv
  <2>8. InCalls(o)' =>
           /\ rcvd[o] = Len(got[o]) + (IF arrived[o][rwl[o]] THEN 1 ELSE 0)
           /\ arrived[o][rwl[o]] => inbuf[o][rwl[o]] = t[rcvd[o]]
    BY <1>2, <2>3, <2>4, <2>5, <2>6 DEF DeliveryInv
  <2>9. DeliveryInv(o)'
    BY <1>1, <1>2, <1>10, <1>19, <2>2, <2>7, <2>8 DEF DeliveryInv
  <2>. QED BY <2>1, <2>9
<1>24. TurnInv(h)' /\ TurnInv(o)'
  <2>1. TurnInv(h) /\ TurnInv(o) BY <1>2, <1>14
  <2>2. ~Pending(o) /\ call[o] # "send" BY <1>1, <2>1 DEF TurnInv, o
  <2>3. ~Pending(o)' BY <1>1, <1>2, <1>10, <2>2 DEF Pending
  <2>4. Len(got[o]) \in Nat BY <1>2 DEF TypeOK
  <2>5. ASSUME NEW i \in (Len(got[o]) + 1)..n PROVE t[i].kind = "more"
    <3>1. i \in 1..n /\ Len(got[o]) < n BY <1>3, <2>4
    <3>2. Pending(h) BY <3>1 DEF Pending, n, o
    <3>3. sent[h][i].kind = "more"
      <4>1. CASE i = n BY <1>1, <2>1, <3>2, <4>1 DEF TurnInv, n
      <4>2. CASE i # n
        <5>1. i \in (Len(got[o]) + 1)..(n - 1) BY <1>3, <2>4, <4>2
        <5>. QED BY <2>1, <3>2, <5>1 DEF TurnInv, n, o
      <4>. QED BY <4>1, <4>2
    <3>. QED BY <1>6, <3>1, <3>3
  <2>6. TurnInv(h)'
    <3>1. \A i \in (Len(got[o]) + 1)..((n + 1) - 1) : t[i].kind = "more"
      BY <1>3, <2>4, <2>5
    <3>2. call'[h] = "send" => t[n + 1].kind = "more"
      BY <1>4, <1>6, <1>22
    <3>. QED BY <1>1, <1>2, <1>6, <1>9, <1>10, <2>2, <2>3, <3>1, <3>2
             DEF TurnInv, o
  <2>7. TurnInv(o)' BY <1>9, <2>2, <2>3 DEF TurnInv
  <2>. QED BY <2>6, <2>7
<1>25. CallInv(h)' /\ CallInv(o)'
  <2>1. n + 1 <= MaxPkts[h]
    <3>1. MaxPkts[h] \in Nat BY BoundsAssumption
    <3>. QED BY <1>1, <1>3, <3>1
  <2>. QED BY <1>2, <1>6, <1>9, <1>10, <1>14, <2>1 DEF CallInv
<1>. QED BY <1>2, <1>12, <1>15, <1>16, <1>17, <1>18, <1>20, <1>21, <1>23,
            <1>24, <1>25 DEF ReceivedInOrder

(***************************************************************************)
(* The invariant                                                           *)
(***************************************************************************)
\* The state after the handshake satisfies the invariant.
LEMMA InitInv ==
    Init => TypeOK /\ ReceivedInOrder
<1>. SUFFICES ASSUME Init PROVE TypeOK /\ ReceivedInOrder
  OBVIOUS
<1>1. /\ MAXSEQ \in 2..8 /\ nwindows \in 1..(MAXSEQ - 1)
      /\ MaxErr \in Nat \ {0} /\ MaxTry \in Nat \ {0}
      /\ MaxNoise \in Noises
      /\ MaxPkts \in [Hosts -> Nat \ {0}]
  BY BoundsAssumption, WindowRange DEF Noises
<1>2. /\ 0 \in Slots /\ 1 \in Slots /\ NoData \in Payload
      /\ 0 % MAXSEQ = 0 /\ 1 % MAXSEQ = 1
  <2>1. MaxPkts[Caller] \in Nat /\ MaxPkts[Answerer] \in Nat
    BY <1>1 DEF Hosts
  <2>2. 0 \in Nat /\ 1 \in Nat /\ 0 + 1 = 1 OBVIOUS
  <2>3. 0 % MAXSEQ = 0 /\ 1 % MAXSEQ = 1 BY <1>1
  <2>. QED BY <1>1, <2>1, <2>3 DEF Slots, NoData, Payload, Kinds
<1>3. TypeOK BY <1>1, <1>2 DEF Init, TypeOK
<1>4. ASSUME NEW h \in Hosts
      PROVE  /\ swl[h] = 1 /\ swu[h] = 1 /\ nbuffers[h] = 0
             /\ ftimer[h] = [s \in Slots |-> FALSE]
             /\ arrived[h] = [s \in Slots |-> FALSE]
             /\ rwl[h] = 0 /\ rcvd[h] = 0 /\ retry[h] = MaxErr
             /\ line[h] = <<>> /\ sent[h] = <<>> /\ got[h] = <<>>
             /\ call[h] = IF h = Caller THEN "send" ELSE "get"
             /\ AckedCount(h) = 0
  BY DEF Init, AckedCount
<1>5. ASSUME NEW h \in Hosts
      PROVE  /\ WindowInv(h) /\ BufferInv(h) /\ TimerInv(h) /\ CountInv(h)
             /\ LineInv(h) /\ DeliveryInv(h) /\ TurnInv(h) /\ CallInv(h)
  <2>1. Other(h) \in Hosts /\ Other(h) # h BY TwoHosts
  <2>2. WindowInv(h)
    <3>1. Len(sent[h]) = 0 /\ 0 \in 0..nwindows /\ 0 + 1 = 1 BY <1>1, <1>4
    <3>. QED BY <1>2, <1>4, <3>1 DEF WindowInv
  <2>3. BufferInv(h) BY <1>4 DEF BufferInv
  <2>4. TimerInv(h)
    <3>1. ASSUME NEW s \in Slots PROVE ~((s - 1) % MAXSEQ < 0)
      BY <1>1 DEF Slots
    <3>. QED BY <1>4, <3>1 DEF TimerInv
  <2>5. CountInv(h) BY <1>2, <1>4, <2>1 DEF CountInv
  <2>6. LineInv(h) BY <1>4, <2>1 DEF LineInv, LineOK
  <2>7. DeliveryInv(h)
    <3>1. Len(got[h]) = 0 /\ ~arrived[h][rwl[h]] BY <1>2, <1>4
    <3>. QED BY <1>4, <3>1 DEF DeliveryInv
  <2>8. TurnInv(h) BY <1>4, <2>1, HostsAssumption DEF TurnInv, Pending, Other, Hosts
  <2>9. CallInv(h) BY <1>1, <1>4 DEF CallInv
  <2>. QED BY <2>2, <2>3, <2>4, <2>5, <2>6, <2>7, <2>8, <2>9
<1>. QED BY <1>3, <1>5 DEF ReceivedInOrder

\* The invariant is a state predicate of vars.
LEMMA StutterInv ==
    ASSUME TypeOK, ReceivedInOrder, UNCHANGED vars
    PROVE  TypeOK' /\ ReceivedInOrder'
<1>1. /\ call' = call /\ UNCHANGED sndVars /\ UNCHANGED rcvVars
      /\ UNCHANGED errVars /\ retry' = retry /\ tries' = tries
      /\ line' = line /\ noise' = noise /\ UNCHANGED hisVars
  BY DEF vars
<1>2. TypeOK' BY <1>1 DEF TypeOK, sndVars, rcvVars, errVars, hisVars
<1>3. ASSUME NEW h \in Hosts
      PROVE  /\ WindowInv(h)' /\ BufferInv(h)' /\ TimerInv(h)' /\ CountInv(h)'
             /\ LineInv(h)' /\ DeliveryInv(h)' /\ TurnInv(h)' /\ CallInv(h)'
  <2>1. /\ WindowInv(h) /\ BufferInv(h) /\ TimerInv(h) /\ CountInv(h)
        /\ LineInv(h) /\ DeliveryInv(h) /\ TurnInv(h) /\ CallInv(h)
    BY DEF ReceivedInOrder
  <2>2. \A g \in Hosts : AckedCount(g)' = AckedCount(g) /\ Pending(g)' = Pending(g)
    BY <1>1 DEF AckedCount, Pending, sndVars, hisVars
  <2>3. WindowInv(h)' /\ BufferInv(h)' /\ TimerInv(h)' /\ CountInv(h)'
    BY <1>1, <2>1, <2>2 DEF WindowInv, BufferInv, TimerInv, CountInv, sndVars,
       hisVars, rcvVars
  <2>4. LineInv(h)' BY <1>1, <2>1, <2>2, TwoHosts DEF LineInv, hisVars, rcvVars
  <2>5. DeliveryInv(h)' /\ CallInv(h)'
    BY <1>1, <2>1 DEF DeliveryInv, CallInv, InCalls, hisVars, rcvVars
  <2>6. TurnInv(h)' BY <1>1, <2>1, <2>2, TwoHosts DEF TurnInv, hisVars
  <2>. QED BY <2>3, <2>4, <2>5, <2>6
<1>. QED BY <1>2, <1>3 DEF ReceivedInOrder

\* Every step keeps the invariant.
LEMMA NextInv ==
    TypeOK /\ ReceivedInOrder /\ [Next]_vars => TypeOK' /\ ReceivedInOrder'
<1>. SUFFICES ASSUME TypeOK, ReceivedInOrder, [Next]_vars
              PROVE  TypeOK' /\ ReceivedInOrder'
  OBVIOUS
<1>1. CASE UNCHANGED vars BY <1>1, StutterInv
<1>2. CASE Terminating BY <1>2, StutterInv DEF Terminating
<1>3. ASSUME NEW h \in Hosts, Receive(h)
      PROVE  TypeOK' /\ ReceivedInOrder'
  BY <1>3, GotDataStep, UnexpectedStep, GotACKStep, GotNAKStep, StopStep
     DEF Receive
<1>4. ASSUME NEW h \in Hosts, Clock(h) PROVE TypeOK' /\ ReceivedInOrder'
  BY <1>4, ClockStep
<1>5. ASSUME NEW h \in Hosts, Calls(h) PROVE TypeOK' /\ ReceivedInOrder'
  BY <1>5, gsendpktStep, ggetpktStep DEF Calls
<1>6. ASSUME NEW h \in Hosts, Noise(h) PROVE TypeOK' /\ ReceivedInOrder'
  BY <1>6, ClockStep, StopStep DEF Noise
<1>. QED BY <1>1, <1>2, <1>3, <1>4, <1>5, <1>6 DEF Next

\* Types are kept, and the bookkeeping of the two ends agrees with what is on
\* the line between them, for every window, packet limit and fault budget.
THEOREM Invariant == Spec => [](TypeOK /\ ReceivedInOrder)
<1>1. Init => TypeOK /\ ReceivedInOrder BY InitInv
<1>2. TypeOK /\ ReceivedInOrder /\ [Next]_vars => (TypeOK /\ ReceivedInOrder)'
  BY NextInv
<1>. QED BY <1>1, <1>2, PTL DEF Spec

\* Every variable keeps its type; in particular a host's error counts stay below
\* the limits at which it gives up.
THEOREM TypeCorrect == Spec => []TypeOK
BY Invariant, PTL

\* gmachine's windows are right however packets and acknowledgements are lost,
\* repeated or delayed.
THEOREM InOrder == Spec => []ReceivedInOrder
BY Invariant, PTL

(***************************************************************************)
(* What follows from it                                                    *)
(***************************************************************************)

\* The send buffers hold exactly the unacknowledged packets, each with its
\* timer running, and never more of them than the agreed window.
THEOREM SendWindowHolds == Spec => []SendWindow
<1>1. TypeOK /\ ReceivedInOrder => SendWindow
  <2>1. SUFFICES ASSUME TypeOK, ReceivedInOrder, NEW h \in Hosts
                 PROVE  /\ nbuffers[h] <= nwindows
                        /\ (swu[h] - swl[h]) % MAXSEQ = nbuffers[h]
                        /\ BufferInv(h) /\ TimerInv(h)
    BY DEF SendWindow, BufferInv, TimerInv
  <2>2. BufferInv(h) /\ TimerInv(h) BY <2>1 DEF ReceivedInOrder
  <2>. DEFINE a == AckedCount(h)
              n == Len(sent[h])
  <2>. HIDE DEF a, n
  <2>3. /\ a \in Nat /\ n \in Nat /\ nbuffers[h] \in 0..nwindows
        /\ nbuffers[h] = n - a /\ nwindows \in 1..(MAXSEQ - 1)
        /\ MAXSEQ \in 2..8
        /\ swl[h] = (a + 1) % MAXSEQ /\ swu[h] = (n + 1) % MAXSEQ
    BY <2>1, Counts DEF a, n
  <2>4. /\ a + 1 \in Nat /\ n + 1 \in Nat /\ a + 1 <= n + 1
        /\ (n + 1) - (a + 1) = n - a /\ (n + 1) - (a + 1) < MAXSEQ
        /\ nbuffers[h] <= nwindows
    BY <2>3
  <2>5. (((n + 1) % MAXSEQ) - ((a + 1) % MAXSEQ)) % MAXSEQ = n - a
    BY <2>4, SeqNoDiff
  <2>6. (swu[h] - swl[h]) % MAXSEQ = nbuffers[h] BY <2>3, <2>5, Zenon
  <2>. QED BY <2>2, <2>4, <2>6
<1>. QED BY <1>1, Invariant, PTL

\* gmachine frees a buffer only once the other host has accepted its packet.
THEOREM AckedWasReceivedHolds == Spec => []AckedWasReceived
<1>1. TypeOK /\ ReceivedInOrder => AckedWasReceived
  BY DEF ReceivedInOrder, CountInv, AckedWasReceived
<1>. QED BY <1>1, Invariant, PTL

\* While a conversation goes on, at most one accepted packet has not been
\* handed over: gmachine overwrites none that ggetpkt has yet to copy out.
THEOREM NothingSkippedHolds == Spec => []NothingSkipped
<1>1. TypeOK /\ ReceivedInOrder => NothingSkipped
  BY DEF ReceivedInOrder, DeliveryInv, InCalls, NothingSkipped
<1>. QED BY <1>1, Invariant, PTL

\* The two hosts never both send.
THEOREM OneSpeakerHolds == Spec => []OneSpeaker
<1>1. TypeOK /\ ReceivedInOrder => OneSpeaker
  BY TwoHosts DEF ReceivedInOrder, TurnInv, OneSpeaker, Hosts
<1>. QED BY <1>1, Invariant, PTL

\* A step of the protocol hands over the next packet sent, takes one more from
\* the layer above, or is not visible to it.
LEMMA StepRefines ==
    TypeOK /\ ReceivedInOrder /\ [Next]_vars => [Link!Next]_(Link!vars)
<1>. SUFFICES ASSUME TypeOK, ReceivedInOrder, [Next]_vars
              PROVE  [Link!Next]_(Link!vars)
  OBVIOUS
<1>1. CASE UNCHANGED hisVars
  BY <1>1 DEF hisVars, Link!vars
<1>2. ASSUME NEW h \in Hosts, NEW kind \in Kinds, gsendpkt(h, kind)
      PROVE  Link!Next
  <2>. DEFINE d == [id |-> Len(sent[h]) + 1, kind |-> kind]
  <2>1. sent' = [sent EXCEPT ![h] = Append(sent[h], d)] /\ got' = got
    BY <1>2 DEF gsendpkt
  <2>2. d \in Payload
    <3>1. MaxPkts[Caller] \in Nat /\ MaxPkts[Answerer] \in Nat
      BY BoundsAssumption DEF Hosts
    <3>2. Len(sent[h]) \in Nat /\ Len(sent[h]) < MaxPkts[h]
      BY <1>2 DEF TypeOK, gsendpkt
    <3>3. Len(sent[h]) + 1 \in 0..(MaxPkts[Caller] + MaxPkts[Answerer])
      BY <3>1, <3>2 DEF Hosts
    <3>. QED BY <3>3 DEF Payload
  <2>. HIDE DEF d
  <2>. QED BY <2>1, <2>2 DEF Link!Next, Link!Send
<1>3. ASSUME NEW h \in Hosts, ggetpkt(h)
      PROVE  Link!Next
  <2>. DEFINE d == inbuf[h][rwl[h]]
              o == Other(h)
  <2>1. /\ got' = [got EXCEPT ![h] = Append(got[h], d)] /\ sent' = sent
        /\ call[h] = "get" /\ arrived[h][rwl[h]]
    BY <1>3 DEF ggetpkt
  <2>2. o \in Hosts /\ h # o /\ Other(o) = h BY TwoHosts
  <2>3. /\ DeliveryInv(h) /\ CountInv(o) BY <2>2 DEF ReceivedInOrder
  <2>. HIDE DEF d, o
  <2>4. /\ Len(got[h]) \in Nat /\ Len(sent[o]) \in Nat /\ rcvd[h] \in Nat
    <3>1. /\ got[h] \in Seq(Payload) /\ sent[o] \in Seq(Payload)
          /\ rcvd[h] \in Nat
      BY <2>2 DEF TypeOK
    <3>. QED BY <3>1
  <2>5. /\ rcvd[h] = Len(got[h]) + 1 /\ d = sent[o][rcvd[h]]
        /\ rcvd[h] <= Len(sent[o])
    BY <2>1, <2>2, <2>3, <2>4 DEF DeliveryInv, InCalls, CountInv, d, o
  <2>6. Len(got[h]) < Len(sent[o]) /\ d = sent[o][Len(got[h]) + 1]
    BY <2>4, <2>5
  <2>. QED BY <2>1, <2>2, <2>6 DEF Link!Next, Link!Deliver
<1>4. ASSUME NEW h \in Hosts, Receive(h) \/ Clock(h) \/ Noise(h)
      PROVE  UNCHANGED hisVars
  <2>1. CASE Receive(h)
    BY <2>1 DEF Receive, GotData, Unexpected, GotACK, GotNAK, GotCLOSE
  <2>2. CASE Clock(h) BY <2>2 DEF Clock, TimedOut, Bored, Nothing
  <2>3. CASE Noise(h)
    BY <2>3 DEF Noise, BadChecksum, BadHeader, LoseCarrier, CloseFailed
  <2>. QED BY <1>4, <2>1, <2>2, <2>3
<1>5. CASE UNCHANGED vars \/ Terminating
  BY <1>5, <1>1 DEF vars, Terminating
<1>. QED BY <1>1, <1>2, <1>3, <1>4, <1>5 DEF Next, Calls

\* The g protocol over a noisy line is a reliable link: what ggetpkt hands over
\* is what gsendpkt was given, in order, once each and unchanged.
THEOREM Implements == Spec => LinkSpec
<1>1. Init => Link!Init BY DEF Init, Link!Init
<1>2. TypeOK /\ ReceivedInOrder /\ [Next]_vars => [Link!Next]_(Link!vars)
  BY StepRefines
<1>. QED BY <1>1, <1>2, Invariant, PTL DEF Spec, LinkSpec, Link!Spec
=============================================================================
