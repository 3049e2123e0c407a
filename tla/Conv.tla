-------------------------------- MODULE Conv --------------------------------
(***************************************************************************)
(* The two uucicos of a call greet one another and take their leave        *)
(* (startup_server, startup_client and sysend of uucico/dcpsys.c).         *)
(*                                                                         *)
(* On every machine one uucico may call out and another one may answer;    *)
(* each has its own copy of the host table and they share the lock files.  *)
(* A wire stands for the caller of one machine and the answerer it         *)
(* reaches, which may be a wrong number.  Every read has a time limit, the *)
(* carrier may be lost at any time, and a message may be late.  What is    *)
(* between greeting and farewell (see GHandshake, GPacket, Xfer) is        *)
(* an exchange of one request to end and its answer.                       *)
(***************************************************************************)
EXTENDS Integers, Sequences, FiniteSets, SequencesExt

CONSTANTS
    Machines,
    Wires,     \* [wire -> [from, to]]: who calls whom
    Reached,   \* [wire -> machines that may answer]
    Known,     \* [machine -> machines in its host table]
    Protocols, \* letters of protocols
    proto,     \* [wire -> sequence of protocols]: the systems file of the caller
    Protolst,  \* [machine -> sequence of protocols it has]
    Restarts,  \* machines whose uucico can restart files: ours always can
    MaxCalls   \* bound: calls of one wire

W == DOMAIN Wires
None == "N"   \* "UN": no common protocol

ASSUME ConvAssumption ==
    /\ \A w \in W : Wires[w].from \in Machines /\ Wires[w].to \in Machines
    /\ \A w \in W : Reached[w] \subseteq Machines /\ proto[w] \in Seq(Protocols)
    /\ \A m \in Machines : Known[m] \subseteq Machines /\ Protolst[m] \in Seq(Protocols)
    /\ None \notin Protocols
    /\ Restarts \subseteq Machines /\ MaxCalls \in Nat

VARIABLES
    caller,   \* [wire -> process]
    answerer, \* [wire -> process]
    wire,     \* [wire -> [up, reached, out, back]]: what is under way
    lock,     \* [machine -> [machine -> holder]]: the lock files
    calls,    \* [wire -> calls made]
    troubled  \* [wire -> something went wrong in this call]

convVars == <<caller, answerer, wire, lock, calls, troubled>>

(***************************************************************************)
(* A process: pc, the host it talks to (hostp), that host's status in its  *)
(* table, resend, and the protocol (setproto).                             *)
(***************************************************************************)
Nobody == "nobody"
Free   == <<>>
Idle   == [pc |-> "idle", with |-> Nobody, status |-> "nocall", resend |-> FALSE, proto |-> "-"]
Down   == [up |-> FALSE, reached |-> Nobody, out |-> <<>>, back |-> <<>>]
Msg(k, arg) == [kind |-> k, arg |-> arg]

ConvInit ==
    /\ caller = [w \in W |-> Idle] /\ answerer = [w \in W |-> Idle]
    /\ wire = [w \in W |-> Down]
    /\ lock = [m \in Machines |-> [n \in Machines |-> Free]]
    /\ calls = [w \in W |-> 0]
    /\ troubled = [w \in W |-> FALSE]

Self(w) == Wires[w].from
Far(w)  == wire[w].reached

\* LockSystem and UnlockSystem: one lock file for each host.
\* Locked_Never: the file is created without a look at whether it is there.
Locked_Never(m, n) == FALSE
Locked(m, n) == lock[m][n] # Free
Locks(m, n, p) == lock' = [lock EXCEPT ![m][n] = p]
Unlocks(m, p)  == lock' = [lock EXCEPT ![m] = [n \in Machines |-> IF @[n] = p THEN Free ELSE @[n]]]
C(w) == <<w, "caller">>
A(w) == <<w, "answerer">>

\* wmsg and rmsg on a wire that is up.
Says(w, ms)    == wire' = [wire EXCEPT ![w].out = @ \o ms]
Replies(w, ms) == wire' = [wire EXCEPT ![w].back = @ \o ms]
Heard(w)  == wire[w].up /\ wire[w].back # <<>>
Asked(w)  == wire[w].up /\ wire[w].out # <<>>
Hears(w, ms) == wire' = [wire EXCEPT ![w].back = Tail(@), ![w].out = @ \o ms]
Takes(w, ms) == wire' = [wire EXCEPT ![w].out = Tail(@), ![w].back = @ \o ms]
Hangup(w) == wire' = [wire EXCEPT ![w].up = FALSE]
Trouble(w) == troubled' = [troubled EXCEPT ![w] = TRUE]

CallerDoes(w, f) == caller' = [caller EXCEPT ![w] = f]
AnswererDoes(w, f) == answerer' = [answerer EXCEPT ![w] = f]

-----------------------------------------------------------------------------
(***************************************************************************)
(* A call: the caller locks the host first, and calls it unless it has     *)
(* been called in this run.                                                *)
(***************************************************************************)
Quiet(w) == caller[w].pc = "idle" /\ answerer[w].pc = "idle" /\ ~wire[w].up

Dial(w, m) ==
    /\ Quiet(w) /\ calls[w] < MaxCalls /\ caller[w].status # "called"
    /\ ~Locked(Self(w), Wires[w].to)
    /\ Locks(Self(w), Wires[w].to, C(w))
    /\ CallerDoes(w, [Idle EXCEPT !.pc = "Shere", !.with = Wires[w].to, !.status = "startup_failed"])
    /\ AnswererDoes(w, [Idle EXCEPT !.pc = "S"])
    /\ wire' = [wire EXCEPT ![w] = [up |-> TRUE, reached |-> m, out |-> <<>>,
                                    back |-> <<Msg("Shere", m)>>]]
    /\ calls' = [calls EXCEPT ![w] = @ + 1]
    /\ troubled' = [troubled EXCEPT ![w] = m # Wires[w].to \/ Self(w) \notin Known[m]]

\* CONN_DROPLINE of either.
Drop(w, status) ==
    /\ CallerDoes(w, [caller[w] EXCEPT !.pc = "idle", !.status = status])
    /\ Unlocks(Self(w), C(w)) /\ Hangup(w)

DropAnswer(w, status) ==
    /\ AnswererDoes(w, [answerer[w] EXCEPT !.pc = "idle", !.status = status])
    /\ Unlocks(Far(w), A(w)) /\ Hangup(w)

-----------------------------------------------------------------------------
(***************************************************************************)
(* startup_server, which is the caller's.                                  *)
(***************************************************************************)
Waits(w, pc) == caller[w].pc = pc /\ Heard(w)

HearShere(w) ==
    /\ Waits(w, "Shere")
    /\ \/ /\ Head(wire[w].back).arg = Wires[w].to
          /\ Hears(w, <<Msg("S", [host |-> Self(w), resend |-> Self(w) \in Restarts])>>)
          /\ CallerDoes(w, [caller[w] EXCEPT !.pc = "ROK"])
          /\ UNCHANGED lock
       \/ /\ Head(wire[w].back).arg # Wires[w].to
          /\ Drop(w, "wrong_host")
    /\ UNCHANGED <<answerer, calls, troubled>>

HearROK(w) ==
    /\ Waits(w, "ROK")
    /\ \/ /\ Head(wire[w].back).kind = "ROK"
          /\ Hears(w, <<>>)
          /\ CallerDoes(w, [caller[w] EXCEPT !.pc = "P", !.resend = Head(wire[w].back).arg])
          /\ UNCHANGED lock
       \/ /\ Head(wire[w].back).kind # "ROK"
          /\ Drop(w, "startup_failed")
    /\ UNCHANGED <<answerer, calls, troubled>>

\* strpbrk: where our protocols are that the other has offered, the first counts.
Common(ours, theirs) == {i \in DOMAIN ours : ours[i] \in ToSet(theirs)}

HearP(w) ==
    /\ Waits(w, "P")
    /\ LET common == Common(proto[w], Head(wire[w].back).arg)
           first == proto[w][Min(common)] IN
       \/ /\ common # {}
          /\ Hears(w, <<Msg("U", first)>>)
          /\ CallerDoes(w, [caller[w] EXCEPT !.pc = "session", !.status = "inprogress",
                                             !.proto = first])
          /\ UNCHANGED <<lock, troubled>>
       \/ /\ common = {}
          /\ Hears(w, <<Msg("U", None)>>)
          /\ CallerDoes(w, [caller[w] EXCEPT !.pc = "refused"])
          /\ Trouble(w) /\ UNCHANGED lock
    /\ UNCHANGED <<answerer, calls>>

\* Sshutdown lets what was said last go out.
LeaveP(w) ==
    /\ caller[w].pc = "refused" /\ (wire[w].out = <<>> \/ ~wire[w].up)
    /\ Drop(w, caller[w].status)
    /\ UNCHANGED <<answerer, calls, troubled>>

-----------------------------------------------------------------------------
(***************************************************************************)
(* startup_client, which is the answerer's.  The caller's name decides     *)
(* which host is locked.                                                   *)
(***************************************************************************)
Listens(w, pc) == answerer[w].pc = pc /\ Asked(w)

\* Welcome_Swapped: the protocols first.
Welcome_Swapped(w, s) ==
    /\ Locks(Far(w), s.host, A(w))
    /\ AnswererDoes(w, [answerer[w] EXCEPT !.pc = "U", !.with = s.host, !.resend = s.resend])
    /\ Takes(w, <<Msg("P", Protolst[Far(w)]), Msg("ROK", s.resend)>>)
    /\ UNCHANGED troubled

Welcome(w, s) ==
    /\ Locks(Far(w), s.host, A(w))
    /\ AnswererDoes(w, [answerer[w] EXCEPT !.pc = "U", !.with = s.host, !.resend = s.resend])
    /\ Takes(w, <<Msg("ROK", s.resend), Msg("P", Protolst[Far(w)])>>)
    /\ UNCHANGED troubled

\* RYou and RLCK, and the wire is hung up when they have been sent.
Refuse(w, why) ==
    /\ AnswererDoes(w, [answerer[w] EXCEPT !.pc = "refused"])
    /\ Takes(w, <<Msg(why, 0)>>)
    /\ Trouble(w) /\ UNCHANGED lock

TakeS(w) ==
    /\ Listens(w, "S")
    /\ LET s == Head(wire[w].out).arg IN
       \/ s.host \notin Known[Far(w)] /\ Refuse(w, "RYou")
       \/ s.host \in Known[Far(w)] /\ Locked(Far(w), s.host) /\ Refuse(w, "RLCK")
       \/ s.host \in Known[Far(w)] /\ ~Locked(Far(w), s.host) /\ Welcome(w, s)
    /\ UNCHANGED <<caller, calls>>

LeaveRefused(w) ==
    /\ answerer[w].pc = "refused" /\ (wire[w].back = <<>> \/ ~wire[w].up)
    /\ DropAnswer(w, answerer[w].status)
    /\ UNCHANGED <<caller, calls, troubled>>

TakeU(w) ==
    /\ Listens(w, "U")
    /\ LET p == Head(wire[w].out).arg IN
       \/ /\ p \in ToSet(Protolst[Far(w)])
          /\ Takes(w, <<>>)
          /\ AnswererDoes(w, [answerer[w] EXCEPT !.pc = "session", !.status = "inprogress", !.proto = p])
          /\ UNCHANGED lock
       \/ p \notin ToSet(Protolst[Far(w)]) /\ DropAnswer(w, answerer[w].status)
    /\ UNCHANGED <<caller, calls, troubled>>

-----------------------------------------------------------------------------
(***************************************************************************)
(* The session, and sysend: the caller says OOOOOO and waits for OOOOOOO;  *)
(* what was not heard within five seconds makes it say so again, and has   *)
(* by then marked the call as failed (rmsg).                               *)
(***************************************************************************)
AskEnd(w) ==
    /\ caller[w].pc = "session" /\ wire[w].up
    /\ Says(w, <<Msg("H", 0)>>)
    /\ CallerDoes(w, [caller[w] EXCEPT !.pc = "HY"])
    /\ UNCHANGED <<answerer, lock, calls, troubled>>

TakeEnd(w) ==
    /\ Listens(w, "session") /\ Takes(w, <<Msg("HY", 0)>>)
    /\ AnswererDoes(w, [answerer[w] EXCEPT !.pc = "bye", !.status = "called"])
    /\ UNCHANGED <<caller, lock, calls, troubled>>

Farewell(w) ==
    /\ Waits(w, "HY") /\ Hears(w, <<Msg("O", 6)>>)
    /\ CallerDoes(w, [caller[w] EXCEPT !.pc = "bye", !.status = "called"])
    /\ UNCHANGED <<answerer, lock, calls, troubled>>

HearBye(w) ==
    /\ Waits(w, "bye")
    /\ Drop(w, caller[w].status)
    /\ UNCHANGED <<answerer, calls, troubled>>

TakeBye(w) ==
    /\ Listens(w, "bye") /\ Takes(w, <<Msg("O", 7)>>)
    /\ AnswererDoes(w, [answerer[w] EXCEPT !.pc = "said"])
    /\ UNCHANGED <<caller, lock, calls, troubled>>

Said(w) ==
    /\ answerer[w].pc = "said" /\ (wire[w].back = <<>> \/ ~wire[w].up)
    /\ DropAnswer(w, answerer[w].status)
    /\ UNCHANGED <<caller, calls, troubled>>

-----------------------------------------------------------------------------
(***************************************************************************)
(* rmsg gives up after a timeout or a lost carrier, and so does wmsg after *)
(* a lost carrier: the call has failed, whatever was said before.  An      *)
(* answerer that does not know who calls has no status to change.          *)
(***************************************************************************)
GivesUp(w) ==
    /\ caller[w].pc \notin {"idle", "refused"} /\ Drop(w, "call_failed") /\ Trouble(w)
    /\ UNCHANGED <<answerer, calls>>

AnswererGivesUp(w) ==
    /\ answerer[w].pc \notin {"idle", "refused", "said"}
    /\ DropAnswer(w, IF answerer[w].with = Nobody THEN answerer[w].status ELSE "call_failed")
    /\ Trouble(w)
    /\ UNCHANGED <<caller, calls>>

ConvLoseCarrier(w) ==
    /\ wire[w].up /\ Hangup(w) /\ Trouble(w)
    /\ UNCHANGED <<caller, answerer, lock, calls>>

CallerStep(w)   == HearShere(w) \/ HearROK(w) \/ HearP(w) \/ LeaveP(w) \/ AskEnd(w) \/ Farewell(w) \/ HearBye(w)
AnswererStep(w) == TakeS(w) \/ LeaveRefused(w) \/ TakeU(w) \/ TakeEnd(w) \/ TakeBye(w) \/ Said(w)

ConvNext == \E w \in W :
    \/ \E m \in Reached[w] : Dial(w, m)
    \/ CallerStep(w) \/ AnswererStep(w)
    \/ GivesUp(w) \/ AnswererGivesUp(w) \/ ConvLoseCarrier(w)

ConvSpec == ConvInit /\ [][ConvNext]_convVars

-----------------------------------------------------------------------------
InSession(p) == p.pc \in {"session", "HY", "bye"}
Talking(w) == InSession(caller[w]) /\ InSession(answerer[w])

(***************************************************************************)
(* Two systems are never in two sessions with one another at once, however *)
(* they call one another: the files one sends are not sent by the other.   *)
(***************************************************************************)
OneSession ==
    \A v, w \in W : Talking(v) /\ Talking(w) /\ {Self(v), Far(v)} = {Self(w), Far(w)} => v = w

(***************************************************************************)
(* A caller in a session with a host talks to that host, and both use the  *)
(* same protocol and both restart files or neither does.                   *)
(***************************************************************************)
Agree ==
    \A w \in W : Talking(w) =>
        /\ Far(w) = caller[w].with /\ Self(w) = answerer[w].with
        /\ caller[w].proto = answerer[w].proto
        /\ caller[w].resend = answerer[w].resend

(***************************************************************************)
(* A call that reached its host, whose messages were in time, and that met *)
(* no lock, counts as called at an end where it is over, and an uucico     *)
(* that has ended its call has left no lock.                               *)
(***************************************************************************)
GoodCall ==
    \A w \in W :
        /\ calls[w] > 0 /\ ~troubled[w] =>
              /\ caller[w].pc = "idle" => caller[w].status = "called"
              /\ answerer[w].pc = "idle" => answerer[w].status = "called"
        /\ \A m, n \in Machines :
              /\ caller[w].pc = "idle"   => lock[m][n] # C(w)
              /\ answerer[w].pc = "idle" => lock[m][n] # A(w)

\* Two systems have one session at a time, and agree on what they use in it.
SessionsAgree == OneSession /\ Agree
=============================================================================
