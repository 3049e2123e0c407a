------------------------------ MODULE TPacket -------------------------------
(***************************************************************************)
(* The t packet protocol: one file goes from Sender to Receiver, the other *)
(* end answers with a message (SY, CY).  Nothing is repeated and nothing   *)
(* numbered: the line is a connection that loses nothing while it is up.   *)
(* A packet is its length and its bytes, an empty one is the end of the    *)
(* file; a message fills whole blocks and ends in a NUL.                   *)
(*                                                                         *)
(* The line carries one token for a length, for a byte and for half a      *)
(* block (TPACKSIZE is 2); of a length or a byte, `of` is history: the     *)
(* packet it belongs to.  sread gives up when a token is late or a key     *)
(* is pressed; what was there stays on DOS and is lost on OS/2.  swrite    *)
(* gives up on DOS only.  Whoever is told of an error ends the session     *)
(* (process in dcp.c).                                                     *)
(***************************************************************************)
EXTENDS Integers, Sequences, SequencesExt

CONSTANTS
    Sender, Receiver,
    Os2,        \* hosts that run OS/2
    PktSize,    \* most bytes of a packet (1024)
    MaxBlocks,  \* bound: blocks of a message
    MaxPackets  \* bound: packets of the file

Both == {Sender, Receiver}
Peer(h) == CHOOSE g \in Both : g # h

ASSUME TPacketAssumption ==
    /\ Sender # Receiver /\ Os2 \subseteq Both
    /\ PktSize \in Nat \ {0} /\ MaxBlocks \in Nat \ {0} /\ MaxPackets \in Nat

VARIABLES
    tpc,        \* tpc[h]: the read or write that h is at
    todo,       \* bytes of the packet whose length has been written or read
    way,        \* way[h]: tokens on their way to h
    up,         \* the connection stands
    given,      \* history: packets handed to the sender's tsendpkt
    taken,      \* history: packets the receiver's tgetpkt has handed over
    mistimed    \* history: the read or write of a length timed out

tVars == <<tpc, todo, way, up, given, taken, mistimed>>

TPACKSIZE == 2
Length(k, n) == <<[kind |-> "length", n |-> n, of |-> k]>>
Bytes(k, n) == [i \in 1..n |-> [kind |-> "byte", n |-> i, of |-> k]]
Message(blocks) == [i \in 1..(TPACKSIZE * blocks) |->
                      [kind |-> IF i = TPACKSIZE * blocks THEN "nul" ELSE "char"]]
Eof == <<>>

TPacketInit ==
    /\ tpc = [h \in Both |-> IF h = Sender THEN "say_S" ELSE "hear_S"]
    /\ todo = [h \in Both |-> Eof] /\ way = [h \in Both |-> <<>>]
    /\ up = TRUE /\ given = <<>> /\ taken = <<>> /\ mistimed = FALSE

At(h, place) == tpc[h] = place
Goto(h, place) == tpc' = [tpc EXCEPT ![h] = place]
Fails(h) == Goto(h, "over")

-----------------------------------------------------------------------------
(***************************************************************************)
(* The line, as sread and swrite show it                                   *)
(***************************************************************************)
\* sread(n) has n tokens; it says S_LOST; it says S_TIMEOUT.
ReadGets(h, n) == Len(way[h]) >= n
               /\ way' = [way EXCEPT ![h] = SubSeq(@, n + 1, Len(@))]
ReadLost == ~up /\ UNCHANGED way
ReadTimeout(h, n) ==
    /\ up /\ Len(way[h]) < n
    /\ way' = [way EXCEPT ![h] = IF h \in Os2 THEN <<>> ELSE @]

\* swrite of the tokens s.  On a TCP connection a part may have gone.
Writes(h, s) == up /\ way' = [way EXCEPT ![Peer(h)] = @ \o s]
WriteLost == ~up /\ UNCHANGED way
WriteTimeout(h, s) ==
    /\ up /\ h \notin Os2 /\ s # <<>>
    /\ \E n \in 0..(Len(s) - 1) :
          way' = [way EXCEPT ![Peer(h)] = @ \o SubSeq(s, 1, n)]

Hangs == /\ up /\ up' = FALSE
         /\ UNCHANGED <<tpc, todo, way, given, taken, mistimed>>

-----------------------------------------------------------------------------
(***************************************************************************)
(* Messages                                                                *)
(***************************************************************************)
twrmsg(h, from, to) ==
    /\ At(h, from)
    /\ \E b \in 1..MaxBlocks :
          \/ Writes(h, Message(b)) /\ Goto(h, to)
          \/ WriteTimeout(h, Message(b)) /\ Fails(h)
    /\ UNCHANGED <<todo, up, given, taken, mistimed>>

twrmsgLost(h, from) ==
    /\ At(h, from) /\ WriteLost /\ Fails(h)
    /\ UNCHANGED <<todo, up, given, taken, mistimed>>

\* One turn of trdmsg's loop: a block whose last character is a NUL is the
\* last; of one that is no part of a message it may be anything.
trdmsg(h, from, to) ==
    /\ At(h, from)
    /\ \/ /\ ReadGets(h, TPACKSIZE)
          /\ LET kind == way[h][TPACKSIZE].kind
             IN  \/ kind # "char" /\ Goto(h, to)
                 \/ kind # "nul" /\ UNCHANGED tpc
       \/ (ReadLost \/ ReadTimeout(h, TPACKSIZE)) /\ Fails(h)
    /\ UNCHANGED <<todo, up, given, taken, mistimed>>

-----------------------------------------------------------------------------
(***************************************************************************)
(* Packets                                                                 *)
(***************************************************************************)
\* sdata and seof: another packet, or the end of the file.
NextPacket ==
    /\ At(Sender, "next")
    /\ \E n \in 0..PktSize :
          /\ n > 0 => Len(given) < MaxPackets
          /\ todo' = [todo EXCEPT ![Sender] = Bytes(Len(given) + 1, n)]
    /\ given' = Append(given, todo'[Sender])
    /\ Goto(Sender, "send_length")
    /\ UNCHANGED <<way, up, taken, mistimed>>

\* tsendpkt says OK.
Sent == Goto(Sender, IF todo[Sender] = Eof THEN "hear_CY" ELSE "next")

\* For a lost line tsendpkt returns the length of the packet: OK if it is 0.
\* S_TIMEOUT, compared with a size_t, is not less than it.
SendLength ==
    LET length == Length(Len(given), Len(todo[Sender]))
    IN  /\ At(Sender, "send_length")
        /\ \/ /\ WriteLost /\ UNCHANGED mistimed
              /\ IF todo[Sender] = Eof THEN Sent ELSE Fails(Sender)
           \/ /\ Writes(Sender, length) /\ UNCHANGED mistimed
              /\ Goto(Sender, "send_bytes")
           \/ /\ WriteTimeout(Sender, length) /\ mistimed' = TRUE
              /\ Goto(Sender, "send_bytes")
        /\ UNCHANGED <<todo, up, given, taken>>

SendBytes ==
    /\ At(Sender, "send_bytes")
    /\ \/ Writes(Sender, todo[Sender]) /\ Sent
       \/ (WriteLost \/ WriteTimeout(Sender, todo[Sender])) /\ Fails(Sender)
    /\ UNCHANGED <<todo, up, given, taken, mistimed>>

\* The length was n: a packet longer than PktSize is refused.
Announced(n) ==
    /\ todo' = [todo EXCEPT ![Receiver] = [i \in 1..n |-> i]]
    /\ IF n > PktSize THEN Fails(Receiver) /\ UNCHANGED taken
       ELSE IF n = 0 THEN taken' = Append(taken, Eof) /\ Goto(Receiver, "say_CY")
       ELSE Goto(Receiver, "get_bytes") /\ UNCHANGED taken

\* A length that is none is anything, and so is Nbytes after a timeout:
\* S_TIMEOUT is not less than sizeof(Nbytes).
Anything == 0..(PktSize + 1)
GetLength ==
    /\ At(Receiver, "get_length")
    /\ \/ /\ ReadGets(Receiver, 1)
          /\ LET token == Head(way[Receiver])
             IN  IF token.kind = "length" THEN Announced(token.n)
                 ELSE \E n \in Anything : Announced(n)
          /\ UNCHANGED mistimed
       \/ /\ ReadLost /\ Fails(Receiver) /\ UNCHANGED <<todo, taken, mistimed>>
       \/ /\ ReadTimeout(Receiver, 1) /\ mistimed' = TRUE
          /\ \E n \in Anything : Announced(n)
    /\ UNCHANGED <<up, given>>

\* Mutant: a short read is not noticed.
GetBytes_Short ==
    LET n == Len(todo[Receiver])
    IN  /\ At(Receiver, "get_bytes")
        /\ \/ /\ ReadGets(Receiver, n) /\ Goto(Receiver, "get_length")
              /\ taken' = Append(taken, SubSeq(way[Receiver], 1, n))
           \/ ReadLost /\ Fails(Receiver) /\ UNCHANGED taken
           \/ /\ ReadTimeout(Receiver, n) /\ Goto(Receiver, "get_length")
              /\ taken' = Append(taken, way[Receiver])
        /\ UNCHANGED <<todo, up, given, mistimed>>

GetBytes ==
    LET n == Len(todo[Receiver])
    IN  /\ At(Receiver, "get_bytes")
        /\ \/ /\ ReadGets(Receiver, n) /\ Goto(Receiver, "get_length")
              /\ taken' = Append(taken, SubSeq(way[Receiver], 1, n))
           \/ (ReadLost \/ ReadTimeout(Receiver, n)) /\ Fails(Receiver)
              /\ UNCHANGED taken
        /\ UNCHANGED <<todo, up, given, mistimed>>

-----------------------------------------------------------------------------
SenderStep ==
    \/ twrmsg(Sender, "say_S", "hear_SY") \/ twrmsgLost(Sender, "say_S")
    \/ trdmsg(Sender, "hear_SY", "next")
    \/ NextPacket \/ SendLength \/ SendBytes
    \/ trdmsg(Sender, "hear_CY", "done")

ReceiverStep ==
    \/ trdmsg(Receiver, "hear_S", "say_SY")
    \/ twrmsg(Receiver, "say_SY", "get_length") \/ twrmsgLost(Receiver, "say_SY")
    \/ GetLength \/ GetBytes
    \/ twrmsg(Receiver, "say_CY", "done") \/ twrmsgLost(Receiver, "say_CY")

TPacketNext == SenderStep \/ ReceiverStep \/ Hangs
TPacketSpec == TPacketInit /\ [][TPacketNext]_tVars

-----------------------------------------------------------------------------
(***************************************************************************)
(* Properties                                                              *)
(***************************************************************************)

\* What tgetpkt hands over is what was given to tsendpkt, packet for packet.
PacketByPacket == IsPrefix(taken, given)

\* A file that is confirmed is the file: "The file is delivered; compute stats
\* for it" (reof, dcpxfer.c), of the end of file that tsendpkt takes for sent
\* when the line is lost too (dcptpkt.c:160).
Confirmed == At(Sender, "done") => taken = given

\* As long as no read and no write of a length has timed out, the t protocol
\* is a reliable link.
TLink == mistimed \/ (PacketByPacket /\ Confirmed)
=============================================================================
