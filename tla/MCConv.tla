------------------------------- MODULE MCConv -------------------------------
(***************************************************************************)
(* GHandshake.tla, TPacket.tla and Conv.tla, each in behaviours of its     *)
(* own: `which` says whose steps are taken.  Conv has two systems that may *)
(* call one another at the same time, and a third that is not known to one *)
(* of them, has no protocol in common with it and answers by mistake.      *)
(***************************************************************************)
EXTENDS GHandshake, Conv, TPacket, TLC

CONSTANTS CallerWindow, AnswererWindow, CallerSize, AnswererSize,
          Lost, Slow   \* packets lost, and timeouts that come too early

Windows     == Caller :> CallerWindow @@ Answerer :> AnswererWindow
LocalSizes  == Caller :> CallerSize @@ Answerer :> AnswererSize
\* Each host expects the other to take the largest packets.
RemoteSizes == [h \in {Caller, Answerer} |-> 7]
Forced      == {Answerer}
Noise       == "lose" :> Lost @@ "slow" :> Slow @@ "carrier" :> 1

mcWires    == "ab" :> [from |-> "a", to |-> "b"] @@ "ba" :> [from |-> "b", to |-> "a"]
              @@ "ca" :> [from |-> "c", to |-> "a"]
mcReached  == "ab" :> {"b", "c"} @@ "ba" :> {"a"} @@ "ca" :> {"a", "b"}
mcKnown    == "a" :> {"b", "c"} @@ "b" :> {"a"} @@ "c" :> {"a"}
mcProto    == "ab" :> <<"G", "g">> @@ "ba" :> <<"t", "g">> @@ "ca" :> <<"t">>
mcProtolst == "a" :> <<"g", "G">> @@ "b" :> <<"t", "g">> @@ "c" :> <<"t">>

VARIABLE which

allVars  == <<vars, convVars, tVars, which>>

MCInit == /\ which \in {"handshake", "conv", "t"}
          /\ Init /\ ConvInit /\ TPacketInit

MCNext == /\ UNCHANGED which
          /\ \/ which = "handshake" /\ Next /\ UNCHANGED <<convVars, tVars>>
             \/ which = "conv" /\ ConvNext /\ UNCHANGED <<vars, tVars>>
             \/ which = "t" /\ TPacketNext /\ UNCHANGED <<vars, convVars>>

\* The fairness of GHandshake, of its own steps only.
MCSpec == /\ MCInit /\ [][MCNext]_allVars
          /\ \A h \in Hosts :
                WF_vars(which = "handshake" /\ ~Settled
                        /\ (Opening(h) \/ Opened(h) \/ HungUp(h)))

\* The handshake ends, and it opens a line that loses nothing.
HandshakeOpens == which = "handshake" => Ends /\ Opens
=============================================================================
