------------------------------- MODULE Telnet --------------------------------
(***************************************************************************)
(* The TELNET transparency of a TCP connection (writetcp and readtcp,      *)
(* under swrite): an IAC in the data goes doubled, a CR with a NUL after   *)
(* it, the network may take less than it is given, and the options the     *)
(* host at the other end asks for are refused in the middle of it all.     *)
(*                                                                         *)
(* The host hears what we write as readtcp would.  Of swrite, its loop:    *)
(* the time after which it gives up is that of Line.  Where nothing of the *)
(* data has gone, the OS/2 writetcp tries again by itself, which swrite's  *)
(* loop does for DOS.                                                      *)
(***************************************************************************)
EXTENDS Integers, Sequences, SequencesExt

CONSTANTS
    vmodem,     \* OS/2: a CR is sent as it is
    Data,       \* what may be written at once
    Asks,       \* what the host may send at once: data, or a command
    MaxSaid,    \* bound: characters to write
    MaxAsked    \* bound: data or commands from the host

\* The characters of data, "x" being any that means nothing; commands, an option
\* after those that ask for one; and all that may be on its way.
Chars    == {"x", "IAC", "CR", "NUL"}
Requests == {<<"GA">>, <<"DO", "opt">>, <<"WILL", "opt">>}
Bytes    == Chars \cup {"GA", "DO", "WILL", "WONT", "opt"}

ASSUME TelnetAssumption ==
    /\ vmodem \in BOOLEAN
    /\ Data \subseteq Seq(Chars)
    /\ Asks \subseteq Seq(Chars) \cup Requests
    /\ MaxSaid \in Nat /\ MaxAsked \in Nat

VARIABLES
    IAC_pending, NUL_pending,  \* the second half of a pair is still to go
    tosend,     \* what swrite still has to write
    said,       \* history: all that swrite was given
    peer,       \* state of the host's reader, and what it has heard
    t_state,    \* ours: T_DATA, T_IAC, T_COMMAND, T_CR, and the command
    wire_in,    \* on its way to us
    asks,       \* how often the host has sent something
    asked,      \* history: the data of it, before encoding
    has_read,   \* what we have read
    miscounted, \* history: a write ended where writetcp miscounts
    rawdata     \* history: a one byte command came before a pair

tnVars == <<IAC_pending, NUL_pending, tosend, said, peer, t_state, wire_in, asks, asked,
            has_read, miscounted, rawdata>>

Fresh == [state |-> "T_DATA", command |-> "none"]

TnInit ==
    /\ IAC_pending = FALSE /\ NUL_pending = FALSE /\ tosend = <<>> /\ said = <<>>
    /\ peer = [s |-> Fresh, heard |-> <<>>]
    /\ t_state = Fresh /\ wire_in = <<>> /\ asks = 0 /\ asked = <<>> /\ has_read = <<>>
    /\ miscounted = FALSE /\ rawdata = FALSE

-----------------------------------------------------------------------------
(***************************************************************************)
(* What a loop over the characters w makes of start, f[<<x, b>>] being     *)
(* what it makes of x at the character b.  (A fold whose step is a         *)
(* function, so that theorems can speak of it.)                            *)
(***************************************************************************)
Through(f, start, w) ==
    LET upto[n \in 0..Len(w)] == IF n = 0 THEN start ELSE f[<<upto[n - 1], w[n]>>]
    IN  upto[Len(w)]

(***************************************************************************)
(* readtcp                                                                 *)
(***************************************************************************)
States == [state : {"T_DATA", "T_IAC", "T_COMMAND", "T_CR"}, command : Bytes \cup {"none"}]

OneByte(command) == command \in {"GA", "x", "NUL", "CR", "opt"}

\* The state after a character, and what of it is data.
After(s, b) ==
    CASE s.state = "T_DATA" /\ b = "IAC" -> [s EXCEPT !.state = "T_IAC"]
      [] s.state = "T_DATA" /\ b = "CR" /\ ~vmodem -> [s EXCEPT !.state = "T_CR"]
      [] s.state = "T_IAC" /\ b # "IAC" -> [state |-> "T_COMMAND", command |-> b]
      [] OTHER -> Fresh

Gives(s, b) ==
    CASE s.state = "T_DATA" -> IF b = "IAC" THEN <<>> ELSE <<b>>
      [] s.state = "T_IAC" -> IF b = "IAC" THEN <<b>> ELSE <<>>
      [] s.state = "T_COMMAND" -> IF OneByte(s.command) THEN <<b>> ELSE <<>>
      [] s.state = "T_CR" -> IF b = "NUL" THEN <<>> ELSE <<b>>

\* The other side's reader, over all that has come.
Reader == [r \in [s : States, heard : Seq(Bytes)] \X Bytes |->
             [s |-> After(r[1].s, r[2]), heard |-> r[1].heard \o Gives(r[1].s, r[2])]]
Heard(h, bytes) == Through(Reader, h, bytes)

-----------------------------------------------------------------------------
(***************************************************************************)
(* writetcp                                                                *)
(***************************************************************************)
Pair(b) == CASE b = "IAC" -> <<"IAC", "IAC">>
             [] b = "CR" /\ ~vmodem -> <<"CR", "NUL">>
             [] OTHER -> <<b>>

Pairing  == [r \in Seq(Bytes) \X Chars |-> r[1] \o Pair(r[2])]
Pairs(w) == Through(Pairing, <<>>, w)

\* What is due to earlier writes.
Due == (IF IAC_pending THEN <<"IAC">> ELSE <<>>)
       \o IF NUL_pending THEN <<"NUL">> ELSE <<>>

netbuf == IF tosend = <<>> THEN <<>> ELSE Due \o Pairs(tosend)
Doubled == Len(Pairs(tosend)) # Len(tosend)

\* The loop that counts what was doubled in the rc characters that have gone.
Tallies == [count : Nat, NUL : BOOLEAN, was : BOOLEAN, IAC : BOOLEAN]
NoCount == [count |-> 0, NUL |-> FALSE, was |-> FALSE, IAC |-> FALSE]

Counting == [r \in Tallies \X Bytes |->
    LET c   == r[1]
        b   == r[2]
        nul == c.was /\ b = "NUL"
        cr  == b = "CR" /\ ~vmodem
    IN  [count |-> c.count + (IF nul THEN 1 ELSE 0) + (IF cr \/ b = "IAC" THEN 1 ELSE 0),
         NUL |-> cr \/ (c.NUL /\ ~nul), was |-> cr,
         IAC |-> IF b = "IAC" THEN ~c.IAC ELSE c.IAC]]

\* Mutant: the second half of an IAC is not kept for the next write.
Counted_NoPending(rc) == [Through(Counting, NoCount, SubSeq(netbuf, 1, rc)) EXCEPT !.IAC = FALSE]

Counted(rc) == Through(Counting, NoCount, SubSeq(netbuf, 1, rc))

\* C's division by two.
Half(n) == IF n < 0 THEN -((-n) \div 2) ELSE n \div 2

Bit(b) == IF b THEN 1 ELSE 0

\* Characters of data that are taken for written.
Reported(rc, c) ==
    LET IAC == c.IAC # IAC_pending
    IN  rc - Half(c.count + Bit(c.NUL) - Bit(IAC_pending) - Bit(IAC) - Bit(NUL_pending))

\* A turn of swrite's loop: the network takes rc characters.  A CR whose NUL
\* does not go with it goes again, which the time limit ends: here the bound.
writetcp ==
    /\ tosend # <<>> /\ Len(peer.heard) <= MaxSaid
    /\ \E rc \in 0..Len(netbuf) : \E c \in {Counted(rc)} :
          LET counts == rc > 0 /\ Doubled
              k == IF counts THEN Reported(rc, c) ELSE rc
          IN  /\ peer' = Heard(peer, SubSeq(netbuf, 1, rc))
              /\ tosend' = SubSeq(tosend, k + 1, Len(tosend))
              /\ IAC_pending' = (counts /\ c.IAC # IAC_pending)
              /\ NUL_pending' = (counts /\ c.NUL)
              /\ miscounted' = (\/ miscounted
                                \/ Due # <<>> /\ rc < Len(netbuf)
                                \/ rc \in 1..Len(netbuf) - 1 /\ ~vmodem /\ netbuf[rc] = "CR")
    /\ UNCHANGED <<said, t_state, wire_in, asks, asked, has_read, rawdata>>

Swrite ==
    /\ tosend = <<>>
    /\ \E d \in Data :
          /\ Len(said) + Len(d) <= MaxSaid
          /\ tosend' = d /\ said' = said \o d
    /\ UNCHANGED <<IAC_pending, NUL_pending, peer, t_state, wire_in, asks, asked, has_read,
                   miscounted, rawdata>>

\* "refuse perform any options and ignore the rest": DO is answered WONT, at
\* once, wherever our own output stands.
readtcp ==
    /\ wire_in # <<>>
    /\ \E b \in {Head(wire_in)} :
       LET command == t_state.state = "T_COMMAND"
           refuse  == command /\ t_state.command = "DO"
       IN  /\ t_state' = After(t_state, b)
           /\ has_read' = has_read \o Gives(t_state, b)
           /\ peer' = IF refuse THEN Heard(peer, <<"IAC", "WONT", b>>) ELSE peer
           /\ miscounted' = (miscounted \/ (refuse /\ Due # <<>>))
           /\ rawdata' = (\/ rawdata
                          \/ command /\ OneByte(t_state.command) /\ b \in {"IAC", "CR"})
    /\ wire_in' = Tail(wire_in)
    /\ UNCHANGED <<IAC_pending, NUL_pending, tosend, said, asks, asked>>

Encoded(a) == IF a \in Requests THEN <<"IAC">> \o a ELSE Pairs(a)
DataOf(a)  == IF a \in Requests THEN <<>> ELSE a

HostWrites ==
    /\ asks < MaxAsked
    /\ \E a \in Asks :
          /\ asked' = asked \o DataOf(a)
          /\ wire_in' = wire_in \o Encoded(a)
    /\ asks' = asks + 1
    /\ UNCHANGED <<IAC_pending, NUL_pending, tosend, said, peer, t_state, has_read, miscounted,
                   rawdata>>

TnNext == Swrite \/ writetcp \/ readtcp \/ HostWrites
TnSpec == TnInit /\ [][TnNext]_tnVars

-----------------------------------------------------------------------------
(***************************************************************************)
(* Properties                                                              *)
(***************************************************************************)
\* The host reads what was written, in whatever portions the network takes
\* it, unless a portion ends between a CR and its NUL, or a write that had to
\* send the rest of a pair first was not taken whole, or an option was refused
\* in between.  Nothing stays behind but half of a last IAC.
TelnetOut ==
    ~miscounted => /\ IsPrefix(peer.heard, said)
                   /\ tosend = <<>> /\ Due = <<>> => peer.heard = said

\* What the host sends is read, and its commands are not, however they are cut;
\* except that what follows a one byte command is taken as it is.
TelnetIn ==
    ~rawdata => /\ IsPrefix(has_read, asked)
                /\ wire_in = <<>> => has_read = asked

\* The connection is transparent in both directions: whatever portions the
\* network takes and gives, the program at either end reads the data, and only
\* the data, that the other was given to write (writetcp, readtcp).
TelnetClear == TelnetOut /\ TelnetIn
=============================================================================
