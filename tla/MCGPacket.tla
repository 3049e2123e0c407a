----------------------------- MODULE MCGPacket -----------------------------
(***************************************************************************)
(* Small instances of GPacket for TLC.  MAXSEQ is 3 so that sequence       *)
(* numbers wrap within a few packets; the functions of a host are given    *)
(* value by value.                                                         *)
(***************************************************************************)
EXTENDS GPacketInv

CONSTANTS CallerWindow, AnswererWindow, CallerPkts, AnswererPkts

PerHost(c, a) == [h \in Hosts |-> IF h = Caller THEN c ELSE a]
Windows == PerHost(CallerWindow, AnswererWindow)
Packets == PerHost(CallerPkts, AnswererPkts)

\* One fault of each kind.
OneOfEach == [kind \in Faults |-> 1]
=============================================================================
