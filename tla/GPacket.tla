------------------------------ MODULE GPacket ------------------------------
(***************************************************************************)
(* The "g" packet protocol of dcpgpkt.c after its three-way handshake (see *)
(* GHandshake.tla): a go-back-N window over a line that loses and garbles  *)
(* packets.                                                                *)
(*                                                                         *)
(* Each host is one thread.  It runs the packet machine (gmachine) only    *)
(* from inside gsendpkt, ggetpkt or gclosepk, so a host's state says which *)
(* of the three it is in.  The file transfer layer above is reduced to its *)
(* turn taking: a host sends until it sends a packet that hands the turn   *)
(* over ("turn") or ends the conversation ("bye", the last HY, after which *)
(* the host calls gclosepk); the other host reads until it gets it.        *)
(*                                                                         *)
(* One action is one iteration of gmachine's loop with everything it sends *)
(* and, when it returns, what its caller does before it calls it again.    *)
(* Time is abstract: PacketTimeout seconds pass when nothing is in flight, *)
(* and, as a fault of the line (it is slow), also when something is.       *)
(***************************************************************************)
EXTENDS Integers, Sequences

CONSTANTS
    Caller, Answerer,  \* the two hosts
    MAXSEQ,            \* sequence numbers (8 in the code: a 3 bit field)
    MAXWINDOW,         \* window each host is configured with (g_setup: 1..7)
    MaxErr,            \* consecutive errors before a host gives up (30)
    MaxTry,            \* CLOSE packets gclosepk sends at most (MAXTRY, 4)
    LineCap,           \* packets a line holds; swrite drops the excess
    MaxPkts,           \* bound: packets each host sends in a conversation
    Faults,            \* the kinds of fault the line may commit
    MaxNoise           \* bound: how many of each in a conversation

Hosts == {Caller, Answerer}
Other(h) == IF h = Caller THEN Answerer ELSE Caller

ASSUME HostsAssumption  == Caller # Answerer
ASSUME WindowAssumption ==
    /\ MAXSEQ \in 2..8
    /\ MAXWINDOW \in [Hosts -> 1..(MAXSEQ - 1)]
ASSUME BoundsAssumption ==
    /\ MaxErr \in Nat \ {0} /\ MaxTry \in Nat \ {0}
    /\ LineCap \in Nat \ {0} /\ MaxPkts \in [Hosts -> Nat \ {0}]
    /\ Faults \subseteq {"header", "checksum", "slow", "carrier", "abort"}
    /\ MaxNoise \in [Faults -> Nat]

Slots == 0..(MAXSEQ - 1)

nextpkt(x) == (x + 1) % MAXSEQ

\* Mutant: the packet after the window is taken to be in it.
between_Inclusive(a, b, c) == \/ a <= b /\ b <= c
                              \/ c <= a /\ a <= b
                              \/ b <= c /\ c < a

\* a, b, c in cyclic order, b possibly equal to a
between(a, b, c) == \/ a <= b /\ b < c
                    \/ c < a /\ a <= b
                    \/ b < c /\ c < a

\* The window both ends settle on (gopenpk, on the other end's INITA).
nwindows == IF MAXWINDOW[Caller] <= MAXWINDOW[Answerer]
            THEN MAXWINDOW[Caller] ELSE MAXWINDOW[Answerer]

(***************************************************************************)
(* Packets.  id numbers a host's packets from 1: it stands for the data    *)
(* and is not visible to the protocol, which sees xxx and yyy only.        *)
(***************************************************************************)
Kinds   == {"more", "turn", "bye"}
Payload == [id : 0..(MaxPkts[Caller] + MaxPkts[Answerer]), kind : Kinds]
NoData  == [id |-> 0, kind |-> "more"]

\* type, yyy (last packet received), xxx (packet's own number), as in gspack.
\* upto is a history field: how many packets yyy acknowledges altogether (a
\* CLOSE acknowledges none).
Message == [type : {"DATA", "ACK", "NAK", "CLOSE"},
            yyy : Slots, xxx : Slots, data : Payload, upto : Nat]

VARIABLES
    call,      \* the routine the host is in, or how its session ended
    swl, swu,  \* send window: swl..swu-1 are unacknowledged
    nbuffers,  \* packets in the send window
    outbuf,    \* outbuf[h][s]: packet kept for retransmission
    ftimer,    \* ftimer[h][s]: the retransmission timer of s runs
    rwl,       \* last packet received in sequence
    inbuf,     \* inbuf[h][s]: packet received
    arrived,   \* arrived[h][s]: inbuf[h][s] holds a packet to hand over
    nerr,      \* consecutive errors
    lazynak,   \* packets to go before another NAK (0: send it)
    inseq,     \* gmachine has seen no packet out of sequence in this call
    retry,     \* timeouts ggetpkt still tolerates
    tries,     \* CLOSE packets gclosepk has sent
    quiet,     \* more than PacketTimeout has passed since idletimer was set
    line,      \* line[h]: packets on their way to h
    noise,     \* faults the line may still commit
    sent, got, \* history: packets given to gsendpkt, got from ggetpkt
    rcvd       \* history: packets accepted in sequence

sndVars  == <<swl, swu, nbuffers, outbuf, ftimer>>
rcvVars  == <<rwl, inbuf, arrived, rcvd>>
errVars  == <<nerr, lazynak, inseq, quiet>>
hisVars  == <<sent, got>>
vars     == <<call, sndVars, rcvVars, errVars, retry, tries, line, noise, hisVars>>

Over == {"shut", "failed", "lost"}       \* how a session ends
InMachine(h) == \/ call[h] = "send" /\ nbuffers[h] >= nwindows
                \/ call[h] = "get" /\ ~arrived[h][rwl[h]]
                \/ call[h] = "close"

\* The faults still to come, of each kind.
Noises == {n \in [Faults -> Nat] : \A kind \in Faults : n[kind] <= MaxNoise[kind]}

TypeOK ==
    /\ call \in [Hosts -> {"send", "get", "close"} \cup Over]
    /\ swl \in [Hosts -> Slots] /\ swu \in [Hosts -> Slots]
    /\ nbuffers \in [Hosts -> Nat]
    /\ outbuf \in [Hosts -> [Slots -> Payload]]
    /\ ftimer \in [Hosts -> [Slots -> BOOLEAN]]
    /\ rwl \in [Hosts -> Slots]
    /\ inbuf \in [Hosts -> [Slots -> Payload]]
    /\ arrived \in [Hosts -> [Slots -> BOOLEAN]]
    /\ nerr \in [Hosts -> 0..(MaxErr - 1)]
    /\ lazynak \in [Hosts -> 0..(nwindows + 1)]
    /\ inseq \in [Hosts -> BOOLEAN] /\ quiet \in [Hosts -> BOOLEAN]
    /\ retry \in [Hosts -> 0..MaxErr] /\ tries \in [Hosts -> 0..MaxTry]
    /\ line \in [Hosts -> Seq(Message)]
    /\ noise \in Noises
    /\ sent \in [Hosts -> Seq(Payload)] /\ got \in [Hosts -> Seq(Payload)]
    /\ rcvd \in [Hosts -> Nat]

Init ==
    /\ call = [h \in Hosts |-> IF h = Caller THEN "send" ELSE "get"]
    /\ swl = [h \in Hosts |-> 1] /\ swu = [h \in Hosts |-> 1]
    /\ nbuffers = [h \in Hosts |-> 0]
    /\ outbuf = [h \in Hosts |-> [s \in Slots |-> NoData]]
    /\ ftimer = [h \in Hosts |-> [s \in Slots |-> FALSE]]
    /\ rwl = [h \in Hosts |-> 0]
    /\ inbuf = [h \in Hosts |-> [s \in Slots |-> NoData]]
    /\ arrived = [h \in Hosts |-> [s \in Slots |-> FALSE]]
    /\ nerr = [h \in Hosts |-> 0] /\ lazynak = [h \in Hosts |-> 0]
    /\ inseq = [h \in Hosts |-> TRUE] /\ quiet = [h \in Hosts |-> FALSE]
    /\ retry = [h \in Hosts |-> MaxErr] /\ tries = [h \in Hosts |-> 0]
    /\ line = [h \in Hosts |-> <<>>]
    /\ noise = MaxNoise
    /\ sent = [h \in Hosts |-> <<>>] /\ got = [h \in Hosts |-> <<>>]
    /\ rcvd = [h \in Hosts |-> 0]

-----------------------------------------------------------------------------
(***************************************************************************)
(* What gspack puts on the line.  A line that is full takes no more:       *)
(* swrite then reports S_TIMEOUT, which gspack does not look at.           *)
(***************************************************************************)
Data(s, d, yyy, upto) ==
    [type |-> "DATA", yyy |-> yyy, xxx |-> s, data |-> d, upto |-> upto]
Control(type, yyy, upto) ==
    [type |-> type, yyy |-> yyy, xxx |-> 0, data |-> NoData, upto |-> upto]

ACK(h)   == Control("ACK", rwl[h], rcvd[h])
NAK(h)   == Control("NAK", rwl[h], rcvd[h])
CLOSE  == Control("CLOSE", 0, 0)

Put(c, ms) == LET room == LineCap - Len(c)
              IN  IF Len(ms) <= room THEN c \o ms
                                     ELSE c \o SubSeq(ms, 1, room)

\* Mutant: every packet is resent with the data of the oldest one.
Window_OldestData(h, lo, n) ==
    [i \in 1..n |-> Data((lo + i - 1) % MAXSEQ, outbuf[h][lo], rwl[h], rcvd[h])]

\* Mutant: the oldest packet is left out.
Window_SkipsOldest(h, lo, n) ==
    [i \in 1..(n - 1) |-> LET s == (lo + i) % MAXSEQ
                          IN  Data(s, outbuf[h][s], rwl[h], rcvd[h])]

\* gresend_window: the n packets from slot lo on, each with the current rwl.
Window(h, lo, n) ==
    [i \in 1..n |-> LET s == (lo + i - 1) % MAXSEQ
                    IN  Data(s, outbuf[h][s], rwl[h], rcvd[h])]

\* How many packets of the send window yyy acknowledges (gmachine's while).
Acked(h, yyy) == IF between(swl[h], yyy, swu[h])
                 THEN ((yyy - swl[h]) % MAXSEQ) + 1 ELSE 0

\* Slide the send window over the n packets just acknowledged.
Slide(h, n) ==
    /\ swl' = [swl EXCEPT ![h] = (@ + n) % MAXSEQ]
    /\ nbuffers' = [nbuffers EXCEPT ![h] = @ - n]
    /\ ftimer' = [ftimer EXCEPT ![h] =
                    [s \in Slots |-> @[s] /\ (s - swl[h]) % MAXSEQ >= n]]
    /\ UNCHANGED <<swu, outbuf>>

(***************************************************************************)
(* The end of a gmachine iteration: out is what it has sent so far, n the  *)
(* error count, progress whether remote_stats.packets moved, done whether  *)
(* the loop ends, in what is left on the line to h.  Too many errors end   *)
(* the loop with a CLOSE and a failure.  When it ends otherwise,           *)
(*   - gclosepk sends another CLOSE or, after MaxTry, stops;               *)
(*   - ggetpkt, if its own clock has run out too (late), resends what is   *)
(*     left of the window and, the MaxErr-th time, closes the session.     *)
(***************************************************************************)
EndOfLoop(h, in, out, n, progress, done, late) ==
    LET giveUp  == ~progress /\ n >= MaxErr
        returns == done /\ ~giveUp
        closing == returns /\ call[h] = "close"
        expired == returns /\ late
        last    == expired /\ retry[h] = 1
        window  == IF expired THEN Window(h, swl'[h], nbuffers'[h]) ELSE <<>>
        again   == closing /\ tries[h] < MaxTry
        stop    == (closing /\ ~again) \/ (giveUp /\ call[h] = "close")
        close   == IF giveUp \/ again \/ last THEN <<CLOSE>> ELSE <<>>
    IN  /\ nerr' = [nerr EXCEPT ![h] = IF progress \/ giveUp THEN 0 ELSE n]
        /\ line' = [line EXCEPT ![h] = in,
                                ![Other(h)] = Put(Put(Put(@, out), window),
                                                  close)]
        /\ call' = [call EXCEPT ![h] =
                      IF stop THEN "shut" ELSE IF giveUp THEN "failed"
                      ELSE IF last THEN "close" ELSE @]
        /\ tries' = [tries EXCEPT ![h] =
                       IF last THEN 1 ELSE IF again THEN @ + 1 ELSE @]
        /\ retry' = [retry EXCEPT ![h] = IF expired THEN @ - 1 ELSE @]

\* The line commits a fault of this kind.
Fault(kind) == /\ kind \in Faults /\ noise[kind] > 0
               /\ noise' = [noise EXCEPT ![kind] = @ - 1]

\* Nothing is in flight and nobody is about to send.
Silent == \A h \in Hosts : \/ call[h] \in Over
                           \/ InMachine(h) /\ line[h] = <<>>

\* A PacketTimeout passes while h waits.
TimePasses == Fault("slow") \/ (Silent /\ UNCHANGED noise)

\* What that does to the idle timers; h touches its own or does not.  The other
\* host's reaches PacketTimeout too, and may be past it.
Elapse(h, touched) ==
    \E past \in BOOLEAN :
       quiet' = [g \in Hosts |-> IF g = h THEN ~touched
                                 ELSE (past /\ Silent) \/ quiet[g]]
Idle(h, touched) == quiet' = [quiet EXCEPT ![h] = @ /\ ~touched]

Packet(h, type) == /\ InMachine(h)
                   /\ line[h] # <<>>
                   /\ Head(line[h]).type = type

\* ggetpkt looks at its own clock whenever gmachine has returned without a
\* packet for it; that clock runs from the start of the call on, so it may have
\* run out when gmachine's timers have not.
Late(h) == IF call[h] = "get" THEN BOOLEAN ELSE {FALSE}

\* It may have done so while packets keep coming: the line is slow, unless h's
\* idle timer has run out too.
LateAfter(h, done, late) ==
    /\ late \in Late(h) /\ (late => done)
    /\ IF late /\ ~quiet[h] THEN Fault("slow") ELSE UNCHANGED noise

-----------------------------------------------------------------------------
(***************************************************************************)
(* gmachine, one action per kind of packet that grpack returns.            *)
(***************************************************************************)

\* DATA with the next number: keep it and acknowledge it; the packet
\* acknowledges our own window too.
GotData(h) ==
    LET m == Head(line[h])
        s == nextpkt(rwl[h])
    IN  /\ Packet(h, "DATA")
        /\ m.xxx = s
        /\ rwl' = [rwl EXCEPT ![h] = s]
        /\ inbuf' = [inbuf EXCEPT ![h][s] = m.data]
        /\ arrived' = [arrived EXCEPT ![h][s] = TRUE]
        /\ rcvd' = [rcvd EXCEPT ![h] = @ + 1]
        /\ lazynak' = [lazynak EXCEPT ![h] = IF @ > 0 THEN @ - 1 ELSE 0]
        /\ inseq' = [inseq EXCEPT ![h] = TRUE]
        /\ Idle(h, TRUE)
        /\ Slide(h, Acked(h, m.yyy))
        /\ EndOfLoop(h, Tail(line[h]), <<Control("ACK", s, rcvd[h] + 1)>>,
                     0, TRUE, TRUE, FALSE)
        /\ UNCHANGED <<hisVars, noise>>

\* Any other DATA: only the first one out of sequence is an error, as the
\* ones behind it are bound to be wrong too; a recent NAK is not repeated.
Unexpected(h) ==
    LET m     == Head(line[h])
        k     == Acked(h, m.yyy)
        donak == (inseq[h] /\ MAXWINDOW[h] <= 3) \/ quiet[h]
        nak   == donak /\ (lazynak[h] < 1 \/ (quiet[h] /\ k = 0))
    IN  /\ Packet(h, "DATA")
        /\ m.xxx # nextpkt(rwl[h])
        /\ lazynak' = [lazynak EXCEPT ![h] = IF nak THEN nwindows + 1 ELSE @]
        /\ inseq' = [inseq EXCEPT ![h] = k > 0]
        /\ Idle(h, nak \/ k > 0)
        /\ Slide(h, k)
        /\ \E late \in BOOLEAN :
              /\ LateAfter(h, k > 0, late)
              /\ EndOfLoop(h, Tail(line[h]), IF nak THEN <<NAK(h)>> ELSE <<>>,
                           IF donak THEN nerr[h] + 1 ELSE nerr[h], k > 0, k > 0,
                           late)
        /\ UNCHANGED <<rcvVars, hisVars>>

\* ACK: outside the window it only counts as out of sequence.
GotACK(h) ==
    LET m == Head(line[h])
        k == Acked(h, m.yyy)
    IN  /\ Packet(h, "ACK")
        /\ Slide(h, k)
        /\ inseq' = [inseq EXCEPT ![h] = @ \/ k > 0]
        /\ Idle(h, k > 0)
        /\ \E late \in BOOLEAN :
              /\ LateAfter(h, k > 0, late)
              /\ EndOfLoop(h, Tail(line[h]), <<>>, nerr[h], k > 0, k > 0, late)
        /\ UNCHANGED <<rcvVars, lazynak, hisVars>>

\* NAK: acknowledges like an ACK and has the rest of the window resent; so
\* does one that repeats the last acknowledgement.
GotNAK(h) ==
    LET m    == Head(line[h])
        k    == Acked(h, m.yyy)
        done == k > 0 \/ between(swl[h], nextpkt(m.yyy), swu[h])
        lo   == (swl[h] + k) % MAXSEQ
        out  == IF done THEN Window(h, lo, nbuffers[h] - k) ELSE <<>>
    IN  /\ Packet(h, "NAK")
        /\ Slide(h, k)
        /\ inseq' = [inseq EXCEPT ![h] = @ \/ done]
        /\ Idle(h, done)
        /\ \E late \in BOOLEAN :
              /\ LateAfter(h, done, late)
              /\ EndOfLoop(h, Tail(line[h]), out, nerr[h], done, done, late)
        /\ UNCHANGED <<rcvVars, lazynak, hisVars>>

\* CLOSE: answer it with CLOSE and return CLOSE to the caller.
GotCLOSE(h) ==
    /\ Packet(h, "CLOSE")
    /\ line' = [line EXCEPT ![h] = Tail(@),
                            ![Other(h)] = Put(@, <<CLOSE>>)]
    /\ call' = [call EXCEPT ![h] = IF @ = "close" THEN "shut" ELSE "failed"]
    /\ nerr' = [nerr EXCEPT ![h] = 0]
    /\ UNCHANGED <<sndVars, rcvVars, lazynak, inseq, quiet, retry, tries,
                   hisVars, noise>>

\* A DATA packet whose checksum is wrong: always NAKed.
BadChecksum(h) ==
    /\ Fault("checksum")
    /\ Packet(h, "DATA")
    /\ lazynak' = [lazynak EXCEPT ![h] = nwindows + 1]
    /\ Idle(h, TRUE)
    /\ EndOfLoop(h, Tail(line[h]), <<NAK(h)>>, nerr[h] + 1, FALSE, FALSE,
                 FALSE)
    /\ UNCHANGED <<sndVars, rcvVars, inseq, hisVars>>

\* A packet whose header is wrong: grpack skips it and goes on looking.
BadHeader(h) ==
    /\ Fault("header")
    /\ InMachine(h) /\ line[h] # <<>>
    /\ line' = [line EXCEPT ![h] = Tail(@)]
    /\ UNCHANGED <<call, sndVars, rcvVars, errVars, retry, tries, hisVars>>

\* EMPTY with the oldest packet's timer expired: resend the window.
TimedOut(h) ==
    /\ InMachine(h) /\ TimePasses
    /\ ftimer[h][swl[h]]
    /\ inseq' = [inseq EXCEPT ![h] = TRUE]
    /\ Elapse(h, TRUE)
    /\ UNCHANGED <<sndVars, rcvVars, lazynak, hisVars>>
    /\ \E late \in Late(h) :
          EndOfLoop(h, line[h], Window(h, swl[h], nbuffers[h]),
                    nerr[h] + 1, FALSE, TRUE, late)

\* Mutant: an idle line is not an error.
Bored_NoError(h) ==
    /\ InMachine(h) /\ TimePasses
    /\ ~ftimer[h][swl[h]]
    /\ inseq' = [inseq EXCEPT ![h] = TRUE]
    /\ UNCHANGED <<sndVars, rcvVars, hisVars>>
    /\ \E past \in {quiet[h], TRUE}, late \in Late(h) :
          LET nak == lazynak[h] < 1 \/ past
          IN  /\ lazynak' = [lazynak EXCEPT ![h] = IF nak THEN nwindows + 1 ELSE @]
              /\ Elapse(h, nak)
              /\ EndOfLoop(h, line[h], IF nak THEN <<NAK(h)>> ELSE <<>>,
                           nerr[h], FALSE, TRUE, late)

\* EMPTY, nothing to resend and the line idle too long ("BORED"): an error, and
\* a NAK, unless one was sent lately and PacketTimeout is only just reached.
\* grpack then waits for as long again, so the next time it is past.
Bored(h) ==
    /\ InMachine(h) /\ TimePasses
    /\ ~ftimer[h][swl[h]]
    /\ inseq' = [inseq EXCEPT ![h] = TRUE]
    /\ UNCHANGED <<sndVars, rcvVars, hisVars>>
    /\ \E past \in {quiet[h], TRUE}, late \in Late(h) :
          LET nak == lazynak[h] < 1 \/ past
          IN  /\ lazynak' = [lazynak EXCEPT ![h] = IF nak THEN nwindows + 1 ELSE @]
              /\ Elapse(h, nak)
              /\ EndOfLoop(h, line[h], IF nak THEN <<NAK(h)>> ELSE <<>>,
                           nerr[h] + 1, FALSE, TRUE, late)

\* EMPTY before gmachine's timers expired (grpack does not wait when it looks
\* for the sync character a second time): gmachine just returns.
Nothing(h) ==
    /\ InMachine(h) /\ Fault("slow")
    /\ inseq' = [inseq EXCEPT ![h] = TRUE]
    /\ UNCHANGED <<sndVars, rcvVars, lazynak, hisVars>>
    /\ \E late \in Late(h) :
          /\ Idle(h, late /\ nbuffers[h] > 0)
          /\ EndOfLoop(h, line[h], <<>>, nerr[h], FALSE, TRUE, late)

\* S_LOST: the carrier dropped, by itself or because the other end hung up.
LoseCarrier(h) ==
    /\ InMachine(h)
    /\ \/ call[Other(h)] \in Over /\ UNCHANGED noise
       \/ Fault("carrier")
    /\ call' = [call EXCEPT ![h] = "lost"]
    /\ UNCHANGED <<sndVars, rcvVars, errVars, retry, tries, line, hisVars>>

-----------------------------------------------------------------------------
(***************************************************************************)
(* gsendpkt, ggetpkt and the turn taking of the layer above.               *)
(***************************************************************************)

\* What a host does after a packet of this kind, in either direction.
AfterSending == [more |-> "send", turn |-> "get", bye |-> "close"]
AfterGetting == [more |-> "get", turn |-> "send", bye |-> "close"]

\* What h's next packet may be.  The last HY answers an HY, so it is alone in
\* its turn; the bound keeps a packet for it.
Turn(h) ==
    LET left  == MaxPkts[h] - Len(sent[h])
        first == /\ got[h] # <<>>
                 /\ sent[h] # <<>> => sent[h][Len(sent[h])].kind = "turn"
    IN  (IF left > 2 THEN {"more"} ELSE {})
          \cup (IF left > 1 THEN {"turn"} ELSE {})
          \cup (IF first THEN {"bye"} ELSE {})

\* The layer above may abort instead (a file it cannot read or write), which
\* calls gclosepk.
Proceed(h, next, out) ==
    \E abort \in BOOLEAN :
       LET close == abort \/ next = "close"
       IN  /\ IF abort THEN Fault("abort") ELSE UNCHANGED noise
           /\ call' = [call EXCEPT ![h] = IF close THEN "close" ELSE next]
           /\ tries' = [tries EXCEPT ![h] = IF close THEN 1 ELSE 0]
           /\ line' = [line EXCEPT ![Other(h)] =
                         Put(Put(@, out), IF close THEN <<CLOSE>>
                                                   ELSE <<>>)]
    /\ retry' = [retry EXCEPT ![h] = MaxErr]

\* gsendpkt has a free slot: buffer the packet, start its timer, send it.
gsendpkt(h, kind) ==
    LET s == swu[h]
        d == [id |-> Len(sent[h]) + 1, kind |-> kind]
    IN  /\ call[h] = "send" /\ nbuffers[h] < nwindows
        /\ Len(sent[h]) < MaxPkts[h]
        /\ kind \in Turn(h)
        /\ outbuf' = [outbuf EXCEPT ![h][s] = d]
        /\ ftimer' = [ftimer EXCEPT ![h][s] = TRUE]
        /\ nbuffers' = [nbuffers EXCEPT ![h] = @ + 1]
        /\ swu' = [swu EXCEPT ![h] = nextpkt(@)]
        /\ sent' = [sent EXCEPT ![h] = Append(@, d)]
        /\ Proceed(h, AfterSending[kind], <<Data(s, d, rwl[h], rcvd[h])>>)
        /\ UNCHANGED <<swl, rcvVars, errVars, got>>

\* Mutant: the slot is not freed.
ggetpkt_KeepsSlot(h) ==
    LET d == inbuf[h][rwl[h]]
    IN  /\ call[h] = "get" /\ arrived[h][rwl[h]]
        /\ got' = [got EXCEPT ![h] = Append(@, d)]
        /\ Proceed(h, AfterGetting[d.kind], <<>>)
        /\ UNCHANGED <<sndVars, rcvVars, errVars, sent>>

\* ggetpkt finds a packet: copy it out and free its slot.
ggetpkt(h) ==
    LET d == inbuf[h][rwl[h]]
    IN  /\ call[h] = "get" /\ arrived[h][rwl[h]]
        /\ got' = [got EXCEPT ![h] = Append(@, d)]
        /\ arrived' = [arrived EXCEPT ![h][rwl[h]] = FALSE]
        /\ Proceed(h, AfterGetting[d.kind], <<>>)
        /\ UNCHANGED <<sndVars, rwl, inbuf, rcvd, errVars, sent>>

\* A call failed and the layer above aborts (XFER_ABORT) rather than hang up.
CloseFailed(h) ==
    /\ call[h] = "failed" /\ Fault("abort")
    /\ call' = [call EXCEPT ![h] = "close"]
    /\ tries' = [tries EXCEPT ![h] = 1]
    /\ line' = [line EXCEPT ![Other(h)] = Put(@, <<CLOSE>>)]
    /\ UNCHANGED <<sndVars, rcvVars, errVars, retry, hisVars>>

-----------------------------------------------------------------------------
\* What a host's program does; the rest is the line's doing.
Receive(h) == \/ GotData(h) \/ Unexpected(h) \/ GotACK(h) \/ GotNAK(h)
              \/ GotCLOSE(h)
Clock(h)   == TimedOut(h) \/ Bored(h) \/ Nothing(h)
Calls(h)   == \/ \E kind \in Kinds : gsendpkt(h, kind)
              \/ ggetpkt(h)
Noise(h)   == \/ BadChecksum(h) \/ BadHeader(h) \/ LoseCarrier(h)
              \/ CloseFailed(h)

SessionOver == \A h \in Hosts : call[h] \in Over
Terminating == SessionOver /\ UNCHANGED vars

Next == \/ \E h \in Hosts : Receive(h) \/ Clock(h) \/ Calls(h) \/ Noise(h)
        \/ Terminating

Spec == Init /\ [][Next]_vars

\* As long as one of the two programs can take a step one does, as each runs on
\* a machine of its own; the line need not deliver anything.
Program(h) == Receive(h) \/ Clock(h) \/ Calls(h)
FairSpec == Spec /\ WF_vars(\E h \in Hosts : Program(h))

-----------------------------------------------------------------------------
(***************************************************************************)
(* Properties                                                              *)
(***************************************************************************)

\* The number of h's packets that have been acknowledged.
AckedCount(h) == Len(sent[h]) - nbuffers[h]

\* ggetpkt hands over what the other end gave to gsendpkt, in order, each
\* packet once and none left out, whatever the line loses, garbles or delays
\* and however the sequence numbers wrap (gmachine's DATA case).
Link == INSTANCE ReliableLink
LinkSpec == Link!Spec

\* The send buffers hold exactly the unacknowledged packets, each in the slot
\* of its number and each with its timer running, and the window is never
\* exceeded; so nothing that may still be needed has been overwritten or
\* forgotten (gsendpkt, the ACK loop of gmachine).
SendWindow ==
    \A h \in Hosts :
       /\ nbuffers[h] <= nwindows
       /\ (swu[h] - swl[h]) % MAXSEQ = nbuffers[h]
       /\ \A i \in (AckedCount(h) + 1)..Len(sent[h]) :
             outbuf[h][i % MAXSEQ] = sent[h][i]
       /\ \A s \in Slots :
             ftimer[h][s] <=> (s - swl[h]) % MAXSEQ < nbuffers[h]

\* A packet leaves the send window only if the other end has accepted it:
\* no stale or garbled ACK, and no wrap of its 3 bit number, frees a buffer
\* whose packet is still wanted.
AckedWasReceived ==
    \A h \in Hosts : AckedCount(h) <= rcvd[Other(h)]

\* gmachine accepts and acknowledges every packet in sequence, also while the
\* last one is still in inbuf, and ggetpkt only looks at inbuf[rwl].  As long
\* as the conversation goes on nothing is skipped all the same: at most the
\* packet in inbuf[rwl] has not been handed over.
NothingSkipped ==
    \A h \in Hosts : call[h] \in {"send", "get"} =>
       rcvd[h] = Len(got[h]) + (IF arrived[h][rwl[h]] THEN 1 ELSE 0)

\* The two ends never both hold the turn: the packet that hands it over is
\* delivered once, so its sender has stopped sending for good when the other
\* end starts.  gmachine's single inbuf[rwl] depends on it.
OneSpeaker == ~ \A h \in Hosts : call[h] = "send"

\* Whatever the line does, both ends stop: nobody waits for ever for a host
\* that has given up, and resending does not go on for ever (MaxErr, MaxTry).
Terminates == <>SessionOver

\* A host missed at most the last packet of a conversation, the "bye" that
\* its sender follows with CLOSE without waiting for an acknowledgement.
AllButBye ==
    \A h \in Hosts :
       \/ Len(got[Other(h)]) = Len(sent[h])
       \/ /\ Len(got[Other(h)]) = Len(sent[h]) - 1
          /\ sent[h][Len(sent[h])].kind = "bye"
SaidBye == \E h \in Hosts : sent[h] # <<>> /\ sent[h][Len(sent[h])].kind = "bye"

\* Only header and checksum faults so far.
Calm == \A kind \in Faults \ {"header", "checksum"} : noise[kind] = MaxNoise[kind]

\* A line that garbles or loses a few packets, with hosts that neither time out
\* while packets are under way nor give up by themselves, does not break a
\* conversation: when it is over it has been carried to its end and only the
\* last packet may be missing (gmachine's counting of nerr, its resending on NAK
\* and on timeout).  A lost packet can cost its sender three errors, one for the
\* packet behind it, one for an idle line it does not NAK because it just has,
\* and one for the next; two faults need a MaxErr of 5.
Completes == SessionOver /\ Calm => SaidBye /\ AllButBye
=============================================================================
