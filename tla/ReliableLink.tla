---------------------------- MODULE ReliableLink ----------------------------
(***************************************************************************)
(* What the file transfer layer (dcpxfer.c) takes a packet protocol to be: *)
(* the packets one host hands to sendpkt come out of getpkt on the other   *)
(* host unchanged, in order and once each.  Nothing says that every packet *)
(* comes out: the line may drop at any time.                               *)
(*                                                                         *)
(* In the source this is the Proto table of dcpsys.c (its sendpkt and      *)
(* getpkt members); GPacket.tla implements it over a noisy line.           *)
(***************************************************************************)
EXTENDS Naturals, Sequences

CONSTANTS Hosts,      \* the two ends of the line
          Payload     \* what a packet may carry

VARIABLES sent,       \* sent[h] : everything h has handed to sendpkt
          got         \* got[h]  : everything getpkt has handed to h

vars == <<sent, got>>

Init ==
    /\ sent = [h \in Hosts |-> <<>>]
    /\ got = [h \in Hosts |-> <<>>]

\* h hands a packet to its protocol.
Send(h) ==
    /\ \E d \in Payload : sent' = [sent EXCEPT ![h] = Append(@, d)]
    /\ UNCHANGED got

\* h is handed the first packet of the other host it has not been handed yet.
Deliver(h, from) ==
    /\ h # from
    /\ Len(got[h]) < Len(sent[from])
    /\ got' = [got EXCEPT ![h] = Append(@, sent[from][Len(got[h]) + 1])]
    /\ UNCHANGED sent

Next == \/ \E h \in Hosts : Send(h)
        \/ \E h, from \in Hosts : Deliver(h, from)

Spec == Init /\ [][Next]_vars
=============================================================================
