----------------------------- MODULE GPacketInv -----------------------------
(***************************************************************************)
(* The inductive invariant behind GPacket's safety properties.  The proofs *)
(* are in GPacketProofs.tla; MCGPacket extends this module, so that TLC    *)
(* can look for a counterexample before a proof is tried.                  *)
(*                                                                         *)
(* Packets are counted from 1 without wrapping: of h's packets, those up   *)
(* to AckedCount(h) are acknowledged, those up to rcvd[Other(h)] accepted, *)
(* those up to Len(sent[h]) sent.  The counts never drift apart by more    *)
(* than the window, which is less than MAXSEQ, so a number modulo MAXSEQ   *)
(* tells which packet is meant.  That includes packets still on the line,  *)
(* because the line keeps their order: a packet on it is no older than a   *)
(* window before anything the receiver has accepted.                       *)
(***************************************************************************)
EXTENDS GPacket

\* The send window, in terms of the counts.
WindowInv(h) ==
    /\ nbuffers[h] \in 0..nwindows
    /\ nbuffers[h] <= Len(sent[h])
    /\ swl[h] = (AckedCount(h) + 1) % MAXSEQ
    /\ swu[h] = (Len(sent[h]) + 1) % MAXSEQ

\* The buffers hold the packets of the window.
BufferInv(h) ==
    /\ \A i \in 1..Len(sent[h]) : sent[h][i].id = i
    /\ \A i \in (AckedCount(h) + 1)..Len(sent[h]) :
          outbuf[h][i % MAXSEQ] = sent[h][i]

\* Exactly their timers run.
TimerInv(h) ==
    \A s \in Slots : ftimer[h][s] <=> (s - swl[h]) % MAXSEQ < nbuffers[h]

\* The receiver's place, and how the two ends relate.
CountInv(h) ==
    /\ rwl[h] = rcvd[h] % MAXSEQ
    /\ AckedCount(h) <= rcvd[Other(h)]
    /\ rcvd[Other(h)] <= Len(sent[h])

\* One packet of a host that has sent s and accepted up packets, on its way
\* to one that has acc of its packets acknowledged and has accepted r.
PacketOK(m, s, acc, up, r) ==
    /\ m.type # "CLOSE" => /\ acc <= m.upto /\ m.upto <= up
                           /\ m.yyy = m.upto % MAXSEQ
    /\ m.type = "DATA" =>
          /\ m.data.id \in 1..Len(s)
          /\ m.data = s[m.data.id]
          /\ m.xxx = m.data.id % MAXSEQ
          /\ r < m.data.id + nwindows

\* The packets on a line: acknowledgements never go back, and data goes back
\* by less than a window.
LineOK(c, s, acc, up, r) ==
    /\ \A i \in 1..Len(c) : PacketOK(c[i], s, acc, up, r)
    /\ \A i, j \in 1..Len(c) : i < j =>
          /\ c[i].type # "CLOSE" /\ c[j].type # "CLOSE" =>
                c[i].upto <= c[j].upto
          /\ c[i].type = "DATA" /\ c[j].type = "DATA" =>
                c[i].data.id < c[j].data.id + nwindows

LineInv(h) == LineOK(line[Other(h)], sent[h], AckedCount(Other(h)),
                     rcvd[h], rcvd[Other(h)])

\* What ggetpkt has handed to h, and the one packet it may have yet to.
InCalls(h) == call[h] \in {"send", "get"}
DeliveryInv(h) ==
    /\ Len(got[h]) <= rcvd[h]
    /\ \A i \in 1..Len(got[h]) : got[h][i] = sent[Other(h)][i]
    /\ InCalls(h) =>
          /\ rcvd[h] = Len(got[h]) + (IF arrived[h][rwl[h]] THEN 1 ELSE 0)
          /\ arrived[h][rwl[h]] => inbuf[h][rwl[h]] = sent[Other(h)][rcvd[h]]

\* Whose turn it is.  Pending(h): h has sent packets its peer has not got.
Pending(h) == Len(got[Other(h)]) < Len(sent[h])
TurnInv(h) ==
    /\ call[h] = "send" => /\ ~Pending(Other(h))
                           /\ call[Other(h)] # "send"
                           /\ Pending(h) =>
                                 sent[h][Len(sent[h])].kind = "more"
    /\ Pending(h) =>
          /\ ~Pending(Other(h))
          /\ \A i \in (Len(got[Other(h)]) + 1)..(Len(sent[h]) - 1) :
                sent[h][i].kind = "more"

CallInv(h) == /\ call[h] = "get" => retry[h] > 0
              /\ Len(sent[h]) <= MaxPkts[h]

ReceivedInOrder ==
    \A h \in Hosts :
       /\ WindowInv(h) /\ BufferInv(h) /\ TimerInv(h) /\ CountInv(h)
       /\ LineInv(h) /\ DeliveryInv(h) /\ TurnInv(h) /\ CallInv(h)
=============================================================================
