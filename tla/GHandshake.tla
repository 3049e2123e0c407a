---------------------------- MODULE GHandshake ----------------------------
(***************************************************************************)
(* The three-way handshake that opens the "g" protocol (gopenpk).  Each    *)
(* host sends INITA with its window, answers the other's INITA with INITB  *)
(* (its packet size) and the other's INITB with INITC, and is open when it *)
(* gets INITC.  Anything else (a timeout too) starts it over with another  *)
(* INITA, MaxErr times at most.                                            *)
(*                                                                         *)
(* INITC is never repeated: a host that is open treats INITA as an error   *)
(* of gmachine.  So the model follows an open host until the other is open *)
(* too (GPacket.tla goes on from there) or one of them gives up.           *)
(***************************************************************************)
EXTENDS Integers, Sequences

CONSTANTS
    Caller, Answerer,
    MAXWINDOW,      \* window each host is configured with (g_setup: 1..7)
    local_pktsize,  \* packet size each host announces, as log2(size / 32)
    remote_pktsize, \* packet size each host would like the other to take
    force,          \* hosts with force_remote_send_gsize
    MaxErr,         \* consecutive errors before a host gives up (30)
    LineCap,        \* packets a line holds
    Faults,         \* the kinds of fault: "lose", "slow", "carrier"
    MaxNoise        \* bound: how many of each the line commits

Hosts == {Caller, Answerer}
Other(h) == IF h = Caller THEN Answerer ELSE Caller
PKTSIZE == 1        \* 64 bytes
Sizes   == 0..7     \* 32 bytes (MINPKT) to 4096 (MAX_PKTSIZE)

ASSUME HandshakeAssumption ==
    /\ Caller # Answerer
    /\ MAXWINDOW \in [Hosts -> 1..7]
    /\ local_pktsize \in [Hosts -> Sizes]
    /\ remote_pktsize \in [Hosts -> Sizes]
    /\ force \subseteq Hosts
    /\ MaxErr \in Nat \ {0} /\ LineCap \in Nat \ {0}
    /\ Faults \subseteq {"lose", "slow", "carrier"}
    /\ MaxNoise \in [Faults -> Nat]

VARIABLES
    phase,     \* where the host is
    nwindows,  \* the window it will use
    pktsize,   \* the packet size it will send
    nerr,      \* consecutive errors
    got_hdr,   \* grpack has a header and waits for the packet's data
    line,      \* line[h]: packets on their way to h
    noise      \* faults the line may still commit

vars == <<phase, nwindows, pktsize, nerr, got_hdr, line, noise>>

\* "idle": not in gopenpk yet; "talk": open and has sent or heard a packet.
Open == {"open", "talk"}
Over == {"failed", "lost"}

Packet == [type : {"INITA", "INITB", "INITC", "DATA", "NAK", "CLOSE"}, yyy : 0..7]

\* The faults still to come, of each kind.
Noises == {n \in [Faults -> Nat] : \A kind \in Faults : n[kind] <= MaxNoise[kind]}

TypeOK ==
    /\ phase \in [Hosts -> {"idle", "init"} \cup Open \cup Over]
    /\ nwindows \in [Hosts -> 1..7]
    /\ pktsize \in [Hosts -> Sizes]
    /\ nerr \in [Hosts -> 0..MaxErr]
    /\ \A h \in Hosts : phase[h] \notin Over => nerr[h] < MaxErr
    /\ got_hdr \in [Hosts -> BOOLEAN]
    /\ line \in [Hosts -> Seq(Packet)]
    /\ noise \in Noises

\* gspack's packets of the handshake, and what gmachine sends before both ends
\* are open: the caller's first packet, the answerer's NAKs, and CLOSE.
INITA(h) == [type |-> "INITA", yyy |-> MAXWINDOW[h]]
INITB(h) == [type |-> "INITB", yyy |-> local_pktsize[h]]
INITC(h) == [type |-> "INITC", yyy |-> nwindows[h]]
DATA     == [type |-> "DATA", yyy |-> 0]
NAK      == [type |-> "NAK", yyy |-> 0]
CLOSE    == [type |-> "CLOSE", yyy |-> 0]

Put(c, m) == IF Len(c) < LineCap THEN Append(c, m) ELSE c
\* h has sent m.
Sends(h, m) == line' = [line EXCEPT ![Other(h)] = Put(@, m)]
\* h has read the packet at the head of its line and sent m.
Answers(h, m) == line' = [line EXCEPT ![h] = Tail(@),
                                      ![Other(h)] = Put(@, m)]
Reads(h) == line' = [line EXCEPT ![h] = Tail(@)]

Init ==
    /\ phase = [h \in Hosts |-> "idle"]
    /\ nwindows = MAXWINDOW
    /\ pktsize = [h \in Hosts |-> PKTSIZE]
    /\ nerr = [h \in Hosts |-> 0]
    /\ got_hdr = [h \in Hosts |-> FALSE]
    /\ line = [h \in Hosts |-> <<>>]
    /\ noise = MaxNoise

Fault(kind) == /\ kind \in Faults /\ noise[kind] > 0
               /\ noise' = [noise EXCEPT ![kind] = @ - 1]

\* The head of the line to h, which h reads in this phase.
Comes(h, ph, types) ==
    /\ phase[h] \in ph /\ ~got_hdr[h]
    /\ line[h] # <<>> /\ Head(line[h]).type \in types

-----------------------------------------------------------------------------
\* gopenpk is called: the first INITA.
Start(h) ==
    /\ phase[h] = "idle"
    /\ phase' = [phase EXCEPT ![h] = "init"]
    /\ Sends(h, INITA(h))
    /\ UNCHANGED <<nwindows, pktsize, nerr, got_hdr, noise>>

\* Mutant: the other end's window is taken as it is.
GotINITA_AnyWindow(h) ==
    /\ Comes(h, {"init"}, {"INITA"})
    /\ nwindows' = [nwindows EXCEPT ![h] = Head(line[h]).yyy]
    /\ Answers(h, INITB(h))
    /\ UNCHANGED <<phase, pktsize, nerr, got_hdr, noise>>

GotINITA(h) ==
    /\ Comes(h, {"init"}, {"INITA"})
    /\ LET yyy == Head(line[h]).yyy
       IN  nwindows' = [nwindows EXCEPT ![h] =
                          IF yyy > MAXWINDOW[h] THEN MAXWINDOW[h] ELSE yyy]
    /\ Answers(h, INITB(h))
    /\ UNCHANGED <<phase, pktsize, nerr, got_hdr, noise>>

\* Mutant: the answer to INITB tells the host itself that the line is open.
GotINITB_Opens(h) ==
    /\ Comes(h, {"init"}, {"INITB"})
    /\ pktsize' = [pktsize EXCEPT ![h] = Head(line[h]).yyy]
    /\ phase' = [phase EXCEPT ![h] = "open"]
    /\ Answers(h, INITC(h))
    /\ UNCHANGED <<nwindows, nerr, got_hdr, noise>>

\* The size is what the other end announces, unless it is to be forced.
GotINITB(h) ==
    /\ Comes(h, {"init"}, {"INITB"})
    /\ pktsize' = [pktsize EXCEPT ![h] =
                     IF h \in force THEN remote_pktsize[h]
                                    ELSE Head(line[h]).yyy]
    /\ Answers(h, INITC(h))
    /\ UNCHANGED <<phase, nwindows, nerr, got_hdr, noise>>

GotINITC(h) ==
    /\ Comes(h, {"init"}, {"INITC"})
    /\ phase' = [phase EXCEPT ![h] = "open"]
    /\ nerr' = [nerr EXCEPT ![h] = 0]
    /\ Reads(h)
    /\ UNCHANGED <<nwindows, pktsize, got_hdr, noise>>

\* Errors are counted; the last one ends it (gopenpk returns FAILED, gmachine
\* CLOSE), and the count starts again.
LastTry(h) == nerr[h] + 1 >= MaxErr
Count(h) ==
    /\ nerr' = [nerr EXCEPT ![h] = IF LastTry(h) THEN 0 ELSE @ + 1]
    /\ phase' = [phase EXCEPT ![h] = IF LastTry(h) THEN "failed" ELSE @]

\* Everything else: start over with the default packet size.  The last error
\* still sends an INITA before gopenpk fails.
ScrewUp(h) ==
    /\ Count(h)
    /\ pktsize' = [pktsize EXCEPT ![h] = PKTSIZE]
    /\ UNCHANGED nwindows

\* A control packet of gmachine's: the other end is open and impatient, or
\* has given up.
GotControl(h) ==
    /\ Comes(h, {"init"}, {"NAK", "CLOSE"})
    /\ ScrewUp(h) /\ Answers(h, INITA(h))
    /\ UNCHANGED <<got_hdr, noise>>

\* A data packet: grpack keeps its header, but has no buffer for the data.
GotDATA(h) ==
    /\ Comes(h, {"init"}, {"DATA"})
    /\ got_hdr' = [got_hdr EXCEPT ![h] = TRUE]
    /\ ScrewUp(h) /\ Answers(h, INITA(h))
    /\ UNCHANGED noise

\* From then on grpack fails without reading anything.
Stuck(h) ==
    /\ phase[h] = "init" /\ got_hdr[h]
    /\ ScrewUp(h) /\ Sends(h, INITA(h))
    /\ UNCHANGED <<got_hdr, noise>>

\* Nothing is in flight and nobody is about to send.
Silent == \A h \in Hosts :
             \/ phase[h] \in Over
             \/ line[h] = <<>> /\ phase[h] # "idle" /\ ~got_hdr[h]
                   /\ (h = Caller => phase[h] # "open")
TimePasses == Fault("slow") \/ (Silent /\ UNCHANGED noise)

\* PacketTimeout seconds pass in gopenpk.
TimedOut(h) ==
    /\ phase[h] = "init" /\ ~got_hdr[h] /\ TimePasses
    /\ ScrewUp(h) /\ Sends(h, INITA(h))
    /\ UNCHANGED got_hdr

-----------------------------------------------------------------------------
(***************************************************************************)
(* A host that is open, as far as it bears on the other's handshake.       *)
(***************************************************************************)

\* The caller sends first (sinit); the answerer reads.
Speak(h) ==
    /\ h = Caller /\ phase[h] = "open"
    /\ phase' = [phase EXCEPT ![h] = "talk"]
    /\ Sends(h, DATA)
    /\ UNCHANGED <<nwindows, pktsize, nerr, got_hdr, noise>>

\* The caller calls gmachine when it has sent its packet.
InMachine(h) == phase[h] = "talk" \/ (h = Answerer /\ phase[h] = "open")

\* One more error of gmachine: it gives up with a CLOSE at MaxErr.
Error(h, m) ==
    /\ Count(h)
    /\ Sends(h, IF LastTry(h) THEN CLOSE ELSE m)
    /\ UNCHANGED <<nwindows, pktsize, got_hdr>>

\* gmachine waits: it resends its data, or sends a NAK if it has sent none.
Wait(h) ==
    /\ InMachine(h) /\ TimePasses
    /\ Error(h, IF h = Caller THEN DATA ELSE NAK)

\* gmachine gets a packet of the handshake ("SCREW UP").
Stray(h) ==
    /\ InMachine(h) /\ Comes(h, Open, {"INITA", "INITB", "INITC"})
    /\ Count(h)
    /\ IF LastTry(h) THEN Answers(h, CLOSE) ELSE Reads(h)
    /\ UNCHANGED <<nwindows, pktsize, got_hdr, noise>>

\* The answerer gets the caller's packet: the two ends talk.
Hear(h) ==
    /\ h = Answerer /\ Comes(h, Open, {"DATA"})
    /\ phase' = [phase EXCEPT ![h] = "talk"]
    /\ nerr' = [nerr EXCEPT ![h] = 0]
    /\ Reads(h)
    /\ UNCHANGED <<nwindows, pktsize, got_hdr, noise>>

\* The caller has its packet refused and resends it.
Refused(h) ==
    /\ InMachine(h) /\ Comes(h, Open, {"NAK"})
    /\ nerr' = [nerr EXCEPT ![h] = 0]
    /\ Answers(h, DATA)
    /\ UNCHANGED <<phase, nwindows, pktsize, got_hdr, noise>>

\* The other end has given up.
Closed(h) ==
    /\ InMachine(h) /\ Comes(h, Open, {"CLOSE"})
    /\ phase' = [phase EXCEPT ![h] = "failed"]
    /\ nerr' = [nerr EXCEPT ![h] = 0]
    /\ Answers(h, CLOSE)
    /\ UNCHANGED <<nwindows, pktsize, got_hdr, noise>>

\* The line loses a packet, or garbles its header, which is the same.
Lose(h) ==
    /\ Fault("lose")
    /\ line[h] # <<>> /\ phase[h] \notin Over
    /\ Reads(h)
    /\ UNCHANGED <<phase, nwindows, pktsize, nerr, got_hdr>>

\* S_LOST: the carrier dropped, by itself or because the other hung up.
LoseCarrier(h) ==
    /\ phase[h] \in {"init"} \cup Open /\ ~got_hdr[h]
    /\ \/ phase[Other(h)] \in Over /\ UNCHANGED noise
       \/ Fault("carrier")
    /\ phase' = [phase EXCEPT ![h] = "lost"]
    /\ nerr' = [nerr EXCEPT ![h] = @ + 1]
    /\ UNCHANGED <<nwindows, pktsize, got_hdr, line>>

-----------------------------------------------------------------------------
BothOpen == \A h \in Hosts : phase[h] \in Open
AllOver  == \A h \in Hosts : phase[h] \in Over
\* The handshake is over: both ends talk, or both have given up.
Settled  == AllOver \/ \A h \in Hosts : phase[h] = "talk"
Terminating == Settled /\ UNCHANGED vars

\* gopenpk
Opening(h) == \/ Start(h) \/ GotINITA(h) \/ GotINITB(h) \/ GotINITC(h)
              \/ GotControl(h) \/ GotDATA(h) \/ Stuck(h) \/ TimedOut(h)
\* gmachine
Opened(h)  == Speak(h) \/ Wait(h) \/ Stray(h) \/ Hear(h) \/ Refused(h) \/ Closed(h)
HungUp(h)  == LoseCarrier(h) /\ phase[Other(h)] \in Over

Next == \/ /\ ~Settled
           /\ \E h \in Hosts : Opening(h) \/ Opened(h) \/ Lose(h)
                                 \/ LoseCarrier(h)
        \/ Terminating

Spec == Init /\ [][Next]_vars

\* A host keeps running, and a carrier that is gone is noticed.
FairSpec == Spec /\ \A h \in Hosts :
                       WF_vars(~Settled /\ (Opening(h) \/ Opened(h) \/ HungUp(h)))

-----------------------------------------------------------------------------
(***************************************************************************)
(* Properties                                                              *)
(***************************************************************************)
Least(a, b) == IF a <= b THEN a ELSE b

\* When both ends are open they use the same window, the smaller of the two
\* they are configured with, however the handshake went.  An end learns it
\* from INITA alone; INITC proves that it has seen one (gopenpk).
WindowAgreed ==
    BothOpen => \A h \in Hosts :
                   nwindows[h] = Least(MAXWINDOW[Caller], MAXWINDOW[Answerer])

\* The inductive form of it: INITB is sent, and INITC answers it, only when
\* the host that sent INITB has learnt the window from an INITA; it keeps it.
Window == Least(MAXWINDOW[Caller], MAXWINDOW[Answerer])
PacketOK(m, h) ==
    /\ m.type = "INITA" => m.yyy = MAXWINDOW[Other(h)]
    /\ m.type = "INITB" => nwindows[Other(h)] = Window
    /\ m.type = "INITC" => nwindows[h] = Window
LearntWindow ==
    \A h \in Hosts :
       /\ phase[h] \in Open => nwindows[h] = Window
       /\ \A i \in 1..Len(line[h]) : PacketOK(line[h][i], h)

\* The line has lost nothing; it may have been slow.
Lossless == \A kind \in Faults \ {"slow"} : noise[kind] = MaxNoise[kind]

\* A line that loses nothing opens, although the two hosts start at different
\* times, their packets cross in any order, and they may time out while one
\* is under way, fewer than MaxErr times: every timeout starts a handshake
\* more, and what is left of it when the line is open counts as errors.
Opens == <>~Lossless \/ <>(BothOpen /\ Settled)

\* Whatever the line does the handshake ends: a host that waits for an INITC
\* which never comes, or that cannot read DATA, gives up (MaxErr).
Ends == <>Settled
=============================================================================
