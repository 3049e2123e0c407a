----------------------------- MODULE ConvProofs -----------------------------
(***************************************************************************)
(* Proofs about Conv: two systems have one session at a time and agree on  *)
(* what they use in it, and a call in which nothing goes wrong counts as   *)
(* called at both ends and leaves no lock, for all sets of machines,       *)
(* wires, host tables and protocols.  And about GHandshake: the two ends   *)
(* of a g session agree on the window, whatever the line does to the       *)
(* handshake.  And about TPacket: as long as no length times out, the t    *)
(* protocol hands over what it was given and confirms nothing else.        *)
(***************************************************************************)
EXTENDS GHandshake, Conv, TPacket, WellFoundedInduction, SequenceTheorems, TLAPS

CallerPlaces   == {"idle", "Shere", "ROK", "P", "refused", "session", "HY", "bye"}
AnswererPlaces == {"idle", "S", "refused", "U", "session", "bye", "said"}
HostStatuses   == {"nocall", "startup_failed", "wrong_host", "inprogress", "called", "call_failed"}

Process(places) == [pc : places, with : Machines \cup {Nobody}, status : HostStatuses,
                    resend : BOOLEAN, proto : Protocols \cup {"-"}]
Holders == {Free} \cup {C(w) : w \in W} \cup {A(w) : w \in W}

\* What is under way on a wire has the shape of Down; InStep says more of it.
IsLine(l) == DOMAIN l = {"up", "reached", "out", "back"}

ConvType ==
    /\ caller \in [W -> Process(CallerPlaces)]
    /\ answerer \in [W -> Process(AnswererPlaces)]
    /\ DOMAIN wire = W /\ \A w \in W : IsLine(wire[w]) /\ wire[w].up \in BOOLEAN
    /\ lock \in [Machines -> [Machines -> Holders]]
    /\ calls \in [W -> Nat] /\ troubled \in [W -> BOOLEAN]

\* The ends of a wire that is up: where both are, and what is under way.
WireEnds(w, c, a, out, back) ==
    /\ caller[w].pc = c /\ answerer[w].pc = a
    /\ wire[w].out = out /\ wire[w].back = back
SaysS(w) == Msg("S", [host |-> Self(w), resend |-> Self(w) \in Restarts])
HasP(w)  == Msg("P", Protolst[Far(w)])
SaysU(w) == Msg("U", caller[w].proto)
Chosen(w) == caller[w].proto \in ToSet(Protolst[Far(w)])
Openings(w) ==
    \/ WireEnds(w, "Shere", "S", <<>>, <<Msg("Shere", Far(w))>>)
    \/ WireEnds(w, "ROK", "S", <<SaysS(w)>>, <<>>)
    \/ WireEnds(w, "ROK", "U", <<>>, <<Msg("ROK", answerer[w].resend), HasP(w)>>)
    \/ \E why \in {"RYou", "RLCK"} : WireEnds(w, "ROK", "refused", <<>>, <<Msg(why, 0)>>)
    \/ WireEnds(w, "P", "U", <<>>, <<HasP(w)>>)
    \/ WireEnds(w, "refused", "U", <<Msg("U", None)>>, <<>>)
Session(w) ==
    \/ WireEnds(w, "session", "U", <<SaysU(w)>>, <<>>) /\ Chosen(w)
    \/ WireEnds(w, "session", "session", <<>>, <<>>)
    \/ WireEnds(w, "HY", "U", <<SaysU(w), Msg("H", 0)>>, <<>>) /\ Chosen(w)
    \/ WireEnds(w, "HY", "session", <<Msg("H", 0)>>, <<>>)
    \/ WireEnds(w, "HY", "bye", <<>>, <<Msg("HY", 0)>>)
Closing(w) ==
    \/ WireEnds(w, "bye", "bye", <<Msg("O", 6)>>, <<>>)
    \/ WireEnds(w, "bye", "said", <<>>, <<Msg("O", 7)>>)
InStep(w) == wire[w].up => Openings(w) \/ Session(w) \/ Closing(w)

\* What an end knows stays true when the line is gone.
CallerOK(w) ==
    /\ caller[w].pc # "idle" => /\ caller[w].with = Wires[w].to
                                /\ lock[Self(w)][Wires[w].to] = C(w)
    /\ caller[w].pc \notin {"idle", "Shere"} => Far(w) = Wires[w].to
    /\ caller[w].pc \in {"P", "session", "HY", "bye"} =>
          caller[w].resend = (Self(w) \in Restarts)
Welcomed(w) == answerer[w].pc \in {"U", "session", "bye", "said"}
AnswererOK(w) ==
    /\ Welcomed(w) => /\ answerer[w].with = Self(w)
                      /\ answerer[w].resend = (Self(w) \in Restarts)
                      /\ lock[Far(w)][Self(w)] = A(w)
    /\ caller[w].pc # "idle" \/ answerer[w].pc # "idle" => Far(w) \in Machines
SameProto(w) ==
    InSession(caller[w]) /\ answerer[w].pc \in {"session", "bye", "said"} =>
        caller[w].proto = answerer[w].proto

\* A lock file with the name of a process is that of the host it talks to.
LocksOK(w) ==
    \A m, n \in Machines :
        /\ lock[m][n] = C(w) => caller[w].pc # "idle" /\ m = Self(w) /\ n = Wires[w].to
        /\ lock[m][n] = A(w) => Welcomed(w) /\ m = Far(w) /\ n = Self(w)

\* How far a call has come in which nothing went wrong.
Good(w) ==
    calls[w] > 0 /\ ~troubled[w] =>
        /\ caller[w].pc # "refused" /\ answerer[w].pc # "refused"
        /\ Far(w) = Wires[w].to
        /\ caller[w].pc \in {"idle", "bye"} => caller[w].status = "called"
        /\ answerer[w].pc \in {"idle", "bye", "said"} => answerer[w].status = "called"

WireInv(w) == /\ InStep(w) /\ CallerOK(w) /\ AnswererOK(w) /\ SameProto(w)
              /\ LocksOK(w) /\ Good(w)
IInv == ConvType /\ \A w \in W : WireInv(w)

-----------------------------------------------------------------------------
LEMMA SeqFacts ==
    ASSUME NEW a, NEW b
    PROVE  /\ Head(<<a>>) = a /\ Tail(<<a>>) = <<>> /\ <<a>> # <<>>
           /\ Head(<<a, b>>) = a /\ Tail(<<a, b>>) = <<b>> /\ <<a, b>> # <<>>
           /\ <<>> \o <<>> = <<>> /\ <<>> \o <<a>> = <<a>> /\ <<a>> \o <<>> = <<a>>
           /\ <<>> \o <<a, b>> = <<a, b>> /\ <<a>> \o <<b>> = <<a, b>>
<1>1. Head(<<a>>) = a /\ Head(<<a, b>>) = a
  OBVIOUS
<1>2. <<a>> # <<>> /\ <<a, b>> # <<>>
  OBVIOUS
<1>3. Tail(<<a>>) = <<>>
  OBVIOUS
<1>4. Tail(<<a, b>>) = <<b>>
  OBVIOUS
<1>5. <<>> \o <<>> = <<>> /\ <<>> \o <<a>> = <<a>> /\ <<a>> \o <<>> = <<a>>
  OBVIOUS
<1>6. <<>> \o <<a, b>> = <<a, b>>
  OBVIOUS
<1>7. <<a>> \o <<b>> = <<a, b>>
  <2> DEFINE s == <<a>> \o <<b>>
             t == <<a, b>>
  <2>1. s \in Seq({a, b}) /\ t \in Seq({a, b})
    OBVIOUS
  <2>2. Len(s) = 2 /\ Len(t) = 2 /\ s[1] = t[1] /\ s[2] = t[2]
    OBVIOUS
  <2>3. \A i \in 1..2 : i = 1 \/ i = 2
    OBVIOUS
  <2> HIDE DEF s, t
  <2>4. s = t
    BY <2>1, <2>2, <2>3
  <2> QED BY <2>4 DEF s, t
<1> QED BY <1>1, <1>2, <1>3, <1>4, <1>5, <1>6, <1>7

\* The names of the processes in the lock files are all different.
LEMMA HolderFacts ==
    ASSUME NEW v, NEW w
    PROVE  C(v) # A(w) /\ C(v) # Free /\ A(v) # Free
           /\ (C(v) = C(w) => v = w) /\ (A(v) = A(w) => v = w)
BY DEF C, A, Free

LEMMA ConvFacts ==
    ASSUME NEW w \in W
    PROVE  /\ Self(w) \in Machines /\ Wires[w].to \in Machines /\ Reached[w] \subseteq Machines
           /\ proto[w] \in Seq(Protocols)
BY ConvAssumption DEF Self

\* The first common protocol is one of ours and one of theirs.
LEMMA CommonFacts ==
    ASSUME NEW ours \in Seq(Protocols), NEW theirs, Common(ours, theirs) # {}
    PROVE  /\ ours[Min(Common(ours, theirs))] \in Protocols
           /\ ours[Min(Common(ours, theirs))] \in ToSet(theirs)
<1> DEFINE S == Common(ours, theirs)
<1>1. S \subseteq Nat /\ S # {} /\ \A i \in S : ours[i] \in Protocols /\ ours[i] \in ToSet(theirs)
  BY DEF Common
<1>2. \E i \in S : \A j \in S : i <= j
  <2>1. PICK i \in S : \A j \in S : ~(<<j, i>> \in OpToRel(<, Nat))
    BY <1>1, WFMin, NatLessThanWellFounded, Zenon
  <2>2. \A j \in S : ~(j < i)
    BY <1>1, <2>1 DEF OpToRel
  <2> QED BY <1>1, <2>2
<1>3. Min(S) \in S
  BY <1>2 DEF Min
<1> QED BY <1>1, <1>3

LEMMA InitIInv == ConvInit => IInv
<1> SUFFICES ASSUME ConvInit PROVE IInv
  OBVIOUS
<1> USE DEF ConvInit
<1>1. Idle \in Process(CallerPlaces) /\ Idle \in Process(AnswererPlaces)
  BY DEF Idle, Process, CallerPlaces, AnswererPlaces, HostStatuses
<1>2. ConvType
  <2>1. \A w \in W : wire[w] = Down
    OBVIOUS
  <2>2. DOMAIN wire = W
    OBVIOUS
  <2>3. IsLine(Down) /\ Down.up = FALSE
    BY DEF IsLine, Down
  <2> QED BY <1>1, <2>1, <2>2, <2>3 DEF ConvType, Holders
<1>3. ASSUME NEW w \in W PROVE WireInv(w)
  <2>1. caller[w].pc = "idle" /\ answerer[w].pc = "idle" /\ ~wire[w].up /\ calls[w] = 0
    BY DEF Idle, Down
  <2>2. \A m, n \in Machines : lock[m][n] = Free
    OBVIOUS
  <2>3. LocksOK(w)
    BY <2>2, HolderFacts DEF LocksOK
  <2> QED BY <2>1, <2>3
          DEF WireInv, InStep, CallerOK, AnswererOK, Welcomed, SameProto, InSession, Good
<1> QED BY <1>2, <1>3 DEF IInv

-----------------------------------------------------------------------------
\* Only lock files of the two processes of w change hands.
LocksOf(w) ==
    \A m, n \in Machines : lock'[m][n] # lock[m][n] =>
        lock[m][n] \in {Free, C(w), A(w)} /\ lock'[m][n] \in {Free, C(w), A(w)}

LEMMA Others ==
    ASSUME IInv, NEW w \in W, NEW v \in W \ {w}, LocksOf(w),
           caller'[v] = caller[v], answerer'[v] = answerer[v], wire'[v] = wire[v],
           calls'[v] = calls[v], troubled'[v] = troubled[v]
    PROVE  WireInv(v)'
<1>1. WireInv(v)
  BY DEF IInv
<1>2. InStep(v)'
  BY <1>1 DEF WireInv, InStep, Openings, Session, Closing, WireEnds, SaysS, HasP, SaysU, Chosen, Far
<1>3. \A m, n \in Machines : lock[m][n] \in {C(v), A(v)} \/ lock'[m][n] \in {C(v), A(v)}
                                => lock'[m][n] = lock[m][n]
  BY HolderFacts DEF LocksOf
<1>4. CallerOK(v)'
  BY <1>1, <1>3, ConvFacts DEF WireInv, CallerOK, Far
<1>5. AnswererOK(v)'
  BY <1>1, <1>3, ConvFacts DEF WireInv, AnswererOK, Welcomed, Far
<1>6. SameProto(v)' /\ Good(v)'
  BY <1>1 DEF WireInv, SameProto, InSession, Good, Far
<1>7. LocksOK(v)'
  BY <1>1, <1>3 DEF WireInv, LocksOK, Welcomed, Far
<1> QED BY <1>2, <1>4, <1>5, <1>6, <1>7 DEF WireInv

\* The line of w changes, but not who is reached.
LineStep(w) ==
    /\ DOMAIN wire' = W /\ \A v \in W \ {w} : wire'[v] = wire[v]
    /\ IsLine(wire'[w]) /\ wire'[w].up \in BOOLEAN /\ wire'[w].reached = Far(w)

\* A step of one wire that makes no new call: its ends become c and a.
WireStep(w, c, a) ==
    /\ caller' = [caller EXCEPT ![w] = c] /\ answerer' = [answerer EXCEPT ![w] = a]
    /\ LineStep(w)
    /\ calls' = calls /\ (troubled' = troubled \/ Trouble(w))
    /\ lock' \in [Machines -> [Machines -> Holders]] /\ LocksOf(w)

LEMMA After ==
    ASSUME IInv, NEW w \in W, NEW c, NEW a, WireStep(w, c, a)
    PROVE  /\ caller'[w] = c /\ answerer'[w] = a /\ calls'[w] = calls[w] /\ Far(w)' = Far(w)
           /\ troubled'[w] \in BOOLEAN /\ (troubled[w] => troubled'[w])
           /\ troubled' = troubled => troubled'[w] = troubled[w]
           /\ Trouble(w) => troubled'[w]
BY DEF WireStep, LineStep, IInv, ConvType, Far, Trouble

\* What is left to show of it is the wire's own invariant.
LEMMA StepOf ==
    ASSUME IInv, NEW w \in W, NEW c \in Process(CallerPlaces),
           NEW a \in Process(AnswererPlaces), WireStep(w, c, a), WireInv(w)'
    PROVE  IInv'
<1>1. ConvType'
  <2>1. \A v \in W : IsLine(wire'[v]) /\ wire'[v].up \in BOOLEAN
    BY DEF IInv, ConvType, WireStep, LineStep
  <2> QED BY <2>1 DEF IInv, ConvType, WireStep, LineStep, Trouble
<1>2. ASSUME NEW v \in W \ {w} PROVE WireInv(v)'
  BY Others DEF IInv, ConvType, WireStep, LineStep, Trouble
<1> QED BY <1>1, <1>2 DEF IInv

-----------------------------------------------------------------------------
\* What locking and unlocking do to the lock files.
LEMMA LocksFacts ==
    ASSUME IInv, NEW w \in W, NEW m \in Machines, NEW n \in Machines,
           NEW q \in {C(w), A(w)}, ~Locked(m, n), Locks(m, n, q)
    PROVE  /\ lock' \in [Machines -> [Machines -> Holders]] /\ LocksOf(w)
           /\ \A i, j \in Machines :
                 lock'[i][j] = IF i = m /\ j = n THEN q ELSE lock[i][j]
<1>1. q \in Holders /\ lock \in [Machines -> [Machines -> Holders]] /\ lock[m][n] = Free
  BY DEF Holders, IInv, ConvType, Locked
<1>2. \A i, j \in Machines : lock'[i][j] = IF i = m /\ j = n THEN q ELSE lock[i][j]
  BY <1>1 DEF Locks
<1>3. lock' \in [Machines -> [Machines -> Holders]]
  BY <1>1 DEF Locks
<1> QED BY <1>1, <1>2, <1>3 DEF LocksOf

LEMMA UnlocksFacts ==
    ASSUME IInv, NEW w \in W, NEW m \in Machines, NEW q \in {C(w), A(w)}, Unlocks(m, q)
    PROVE  /\ lock' \in [Machines -> [Machines -> Holders]] /\ LocksOf(w)
           /\ \A i, j \in Machines :
                 lock'[i][j] = IF i = m /\ lock[i][j] = q THEN Free ELSE lock[i][j]
<1>1. Free \in Holders /\ lock \in [Machines -> [Machines -> Holders]]
  BY DEF Holders, IInv, ConvType
<1>2. \A i, j \in Machines : lock'[i][j] = IF i = m /\ lock[i][j] = q THEN Free ELSE lock[i][j]
  BY <1>1 DEF Unlocks
<1>3. lock' \in [Machines -> [Machines -> Holders]]
  BY <1>1 DEF Unlocks
<1> QED BY <1>1, <1>2, <1>3 DEF LocksOf

\* What reading and writing do to the line.
LEMMA HearsFacts ==
    ASSUME IInv, NEW w \in W, NEW ms, Hears(w, ms)
    PROVE  /\ LineStep(w) /\ wire'[w].up = wire[w].up
           /\ wire'[w].out = wire[w].out \o ms /\ wire'[w].back = Tail(wire[w].back)
<1>1. IsLine(wire[w]) /\ DOMAIN wire = W /\ wire[w].up \in BOOLEAN
  BY DEF IInv, ConvType
<1>2. DOMAIN wire' = W /\ \A v \in W \ {w} : wire'[v] = wire[v]
  BY <1>1 DEF Hears
<1>3. wire'[w] = [wire[w] EXCEPT !.back = Tail(wire[w].back), !.out = wire[w].out \o ms]
  BY <1>1 DEF Hears, IsLine
<1> QED BY <1>1, <1>2, <1>3 DEF LineStep, IsLine, Far

LEMMA TakesFacts ==
    ASSUME IInv, NEW w \in W, NEW ms, Takes(w, ms)
    PROVE  /\ LineStep(w) /\ wire'[w].up = wire[w].up
           /\ wire'[w].out = Tail(wire[w].out) /\ wire'[w].back = wire[w].back \o ms
<1>1. IsLine(wire[w]) /\ DOMAIN wire = W /\ wire[w].up \in BOOLEAN
  BY DEF IInv, ConvType
<1> QED BY <1>1 DEF Takes, LineStep, IsLine, Far

LEMMA SaysFacts ==
    ASSUME IInv, NEW w \in W, NEW ms, Says(w, ms)
    PROVE  /\ LineStep(w) /\ wire'[w].up = wire[w].up
           /\ wire'[w].out = wire[w].out \o ms /\ wire'[w].back = wire[w].back
<1>1. IsLine(wire[w]) /\ DOMAIN wire = W /\ wire[w].up \in BOOLEAN
  BY DEF IInv, ConvType
<1>2. wire'[w] = [wire[w] EXCEPT !.out = wire[w].out \o ms]
  BY <1>1 DEF Says
<1>3. DOMAIN wire' = W /\ \A v \in W \ {w} : wire'[v] = wire[v]
  BY <1>1 DEF Says
<1> QED BY <1>1, <1>2, <1>3 DEF LineStep, IsLine, Far

LEMMA HangupFacts ==
    ASSUME IInv, NEW w \in W, Hangup(w)
    PROVE  LineStep(w) /\ ~wire'[w].up
<1>1. IsLine(wire[w]) /\ DOMAIN wire = W /\ wire[w].up \in BOOLEAN
  BY DEF IInv, ConvType
<1>2. wire'[w] = [wire[w] EXCEPT !.up = FALSE]
  BY <1>1 DEF Hangup
<1>3. DOMAIN wire' = W /\ \A v \in W \ {w} : wire'[v] = wire[v]
  BY <1>1 DEF Hangup
<1> QED BY <1>1, <1>2, <1>3 DEF LineStep, IsLine, Far

\* CONN_DROPLINE of the caller: the call has failed, or it was a good one.
LEMMA DropStep ==
    ASSUME IInv, NEW w \in W, NEW status \in HostStatuses, Drop(w, status),
           answerer' = answerer, calls' = calls,
           troubled' = troubled \/ Trouble(w),
           calls[w] > 0 /\ ~troubled'[w] => status = "called"
    PROVE  IInv'
<1> DEFINE c == [caller[w] EXCEPT !.pc = "idle", !.status = status]
           a == answerer[w]
<1>0. WireInv(w)
  BY DEF IInv
<1>1. caller[w] \in Process(CallerPlaces) /\ a \in Process(AnswererPlaces)
      /\ answerer' = [answerer EXCEPT ![w] = a]
  BY DEF IInv, ConvType
<1>2. c \in Process(CallerPlaces) /\ c.pc = "idle" /\ c.status = status
  BY <1>1 DEF Process, CallerPlaces
<1>3. /\ lock' \in [Machines -> [Machines -> Holders]] /\ LocksOf(w)
      /\ \A i, j \in Machines :
            lock'[i][j] = IF i = Self(w) /\ lock[i][j] = C(w) THEN Free ELSE lock[i][j]
  BY ConvFacts, UnlocksFacts DEF Drop
<1>4. WireStep(w, c, a) /\ ~wire'[w].up
  BY <1>1, <1>3, HangupFacts DEF Drop, CallerDoes, WireStep
<1> HIDE DEF c, a
<1>6. /\ caller'[w] = c /\ answerer'[w] = a /\ calls'[w] = calls[w]
      /\ ~wire'[w].up /\ Far(w)' = Far(w)
      /\ troubled'[w] \in BOOLEAN /\ (troubled[w] => troubled'[w])
  BY <1>4, After
<1>5. WireInv(w)'
  <2>1. InStep(w)' /\ CallerOK(w)' /\ SameProto(w)'
    BY <1>2, <1>6 DEF InStep, CallerOK, SameProto, InSession
  <2>2. AnswererOK(w)'
    BY <1>0, <1>2, <1>3, <1>6, ConvFacts, HolderFacts
       DEF WireInv, AnswererOK, Welcomed, a
  <2>3. LocksOK(w)'
    BY <1>0, <1>2, <1>3, <1>6, HolderFacts DEF WireInv, LocksOK, Welcomed, a
  <2>4. Good(w)'
    BY <1>0, <1>2, <1>6 DEF WireInv, Good, a
  <2> QED BY <2>1, <2>2, <2>3, <2>4 DEF WireInv
<1> QED BY <1>1, <1>2, <1>4, <1>5, StepOf

\* CONN_DROPLINE of the answerer
LEMMA DropAnswerStep ==
    ASSUME IInv, NEW w \in W, NEW status \in HostStatuses, DropAnswer(w, status),
           answerer[w].pc # "idle", caller' = caller, calls' = calls,
           troubled' = troubled \/ Trouble(w),
           calls[w] > 0 /\ ~troubled'[w] => status = "called"
    PROVE  IInv'
<1> DEFINE c == caller[w]
           a == [answerer[w] EXCEPT !.pc = "idle", !.status = status]
<1>0. WireInv(w) /\ Far(w) \in Machines
  BY DEF IInv, WireInv, AnswererOK
<1>1. c \in Process(CallerPlaces) /\ answerer[w] \in Process(AnswererPlaces)
      /\ caller' = [caller EXCEPT ![w] = c]
  BY DEF IInv, ConvType
<1>2. a \in Process(AnswererPlaces) /\ a.pc = "idle" /\ a.status = status
  BY <1>1 DEF Process, AnswererPlaces
<1>3. /\ lock' \in [Machines -> [Machines -> Holders]] /\ LocksOf(w)
      /\ \A i, j \in Machines :
            lock'[i][j] = IF i = Far(w) /\ lock[i][j] = A(w) THEN Free ELSE lock[i][j]
  BY <1>0, UnlocksFacts DEF DropAnswer
<1>4. WireStep(w, c, a) /\ ~wire'[w].up
  BY <1>1, <1>3, HangupFacts DEF DropAnswer, AnswererDoes, WireStep
<1> HIDE DEF c, a
<1>6. /\ caller'[w] = c /\ answerer'[w] = a /\ calls'[w] = calls[w]
      /\ ~wire'[w].up /\ Far(w)' = Far(w)
      /\ troubled'[w] \in BOOLEAN /\ (troubled[w] => troubled'[w])
  BY <1>4, After
<1>5. WireInv(w)'
  <2>1. InStep(w)' /\ SameProto(w)'
    BY <1>2, <1>6 DEF InStep, SameProto
  <2>2. CallerOK(w)'
    BY <1>0, <1>2, <1>3, <1>6, ConvFacts, HolderFacts DEF WireInv, CallerOK, c
  <2>3. AnswererOK(w)'
    BY <1>0, <1>2, <1>6 DEF AnswererOK, Welcomed
  <2>4. LocksOK(w)'
    BY <1>0, <1>2, <1>3, <1>6, HolderFacts DEF WireInv, LocksOK, Welcomed, c
  <2>5. Good(w)'
    BY <1>0, <1>2, <1>6 DEF WireInv, Good, c
  <2> QED BY <2>1, <2>2, <2>3, <2>4, <2>5 DEF WireInv
<1> QED BY <1>1, <1>2, <1>4, <1>5, StepOf

-----------------------------------------------------------------------------
\* A step of the caller that leaves the locks alone and does not end its call.
LEMMA CallerMoves ==
    ASSUME IInv, NEW w \in W, NEW c \in Process(CallerPlaces), CallerDoes(w, c), LineStep(w),
           lock' = lock, answerer' = answerer, calls' = calls,
           troubled' = troubled \/ Trouble(w),
           caller[w].pc # "idle", c.pc # "idle", c.with = caller[w].with,
           InStep(w)', SameProto(w)',
           c.pc # "Shere" => Far(w) = Wires[w].to,
           c.pc \in {"P", "session", "HY", "bye"} => c.resend = (Self(w) \in Restarts),
           c.pc = "refused" => troubled'[w], c.pc = "bye" => c.status = "called"
    PROVE  IInv'
<1>0. WireInv(w) /\ answerer[w] \in Process(AnswererPlaces)
      /\ answerer' = [answerer EXCEPT ![w] = answerer[w]]
  BY DEF IInv, ConvType
<1>1. WireStep(w, c, answerer[w])
  BY <1>0 DEF WireStep, CallerDoes, LocksOf, IInv, ConvType
<1>2. /\ caller'[w] = c /\ answerer'[w] = answerer[w] /\ calls'[w] = calls[w] /\ Far(w)' = Far(w)
      /\ troubled'[w] \in BOOLEAN /\ (troubled[w] => troubled'[w])
  BY <1>0, <1>1, After
<1>3. CallerOK(w)' /\ AnswererOK(w)'
  BY <1>0, <1>2 DEF WireInv, CallerOK, AnswererOK, Welcomed
<1>4. LocksOK(w)'
  BY <1>0, <1>2 DEF WireInv, LocksOK, Welcomed
<1>5. Good(w)'
  BY <1>0, <1>2 DEF WireInv, Good
<1>6. WireInv(w)'
  BY <1>3, <1>4, <1>5 DEF WireInv
<1> QED BY <1>0, <1>1, <1>6, StepOf

\* The same of the answerer.
LEMMA AnswererMoves ==
    ASSUME IInv, NEW w \in W, NEW a \in Process(AnswererPlaces), AnswererDoes(w, a), LineStep(w),
           lock' = lock, caller' = caller, calls' = calls,
           troubled' = troubled \/ Trouble(w),
           answerer[w].pc # "idle", a.pc # "idle",
           Welcomed(w) => a.with = answerer[w].with /\ a.resend = answerer[w].resend,
           Welcomed(w) <=> a.pc \in {"U", "session", "bye", "said"},
           InStep(w)', SameProto(w)',
           a.pc = "refused" => troubled'[w],
           a.pc \in {"bye", "said"} => a.status = "called" \/ calls[w] = 0 \/ troubled'[w]
    PROVE  IInv'
<1>0. WireInv(w) /\ caller[w] \in Process(CallerPlaces)
      /\ caller' = [caller EXCEPT ![w] = caller[w]]
  BY DEF IInv, ConvType
<1>1. WireStep(w, caller[w], a)
  BY <1>0 DEF WireStep, AnswererDoes, LocksOf, IInv, ConvType
<1>2. /\ caller'[w] = caller[w] /\ answerer'[w] = a /\ calls'[w] = calls[w] /\ Far(w)' = Far(w)
      /\ troubled'[w] \in BOOLEAN /\ (troubled[w] => troubled'[w])
  BY <1>0, <1>1, After
<1>3. CallerOK(w)' /\ AnswererOK(w)'
  BY <1>0, <1>2 DEF WireInv, CallerOK, AnswererOK, Welcomed
<1>4. LocksOK(w)'
  BY <1>0, <1>2 DEF WireInv, LocksOK, Welcomed
<1>5. Good(w)'
  BY <1>0, <1>2 DEF WireInv, Good
<1>6. WireInv(w)'
  BY <1>3, <1>4, <1>5 DEF WireInv
<1> QED BY <1>0, <1>1, <1>6, StepOf

LEMMA HearROKStep == ASSUME IInv, NEW w \in W, HearROK(w) PROVE IInv'
<1> USE DEF HearROK, Waits, Heard
<1>1. WireInv(w) /\ caller[w] \in Process(CallerPlaces) /\ answerer[w].resend \in BOOLEAN
  BY DEF IInv, ConvType, Process
<1>2. CASE Head(wire[w].back).kind = "ROK"
  <2> DEFINE c == [caller[w] EXCEPT !.pc = "P", !.resend = Head(wire[w].back).arg]
  <2>1. WireEnds(w, "ROK", "U", <<>>, <<Msg("ROK", answerer[w].resend), HasP(w)>>)
    <3>1. Msg("RYou", 0).kind # "ROK" /\ Msg("RLCK", 0).kind # "ROK"
      BY DEF Msg
    <3> QED BY <1>1, <1>2, <3>1, SeqFacts DEF WireInv, InStep, Openings, Session, Closing, WireEnds
  <2>2. Head(wire[w].back).arg = answerer[w].resend /\ Tail(wire[w].back) = <<HasP(w)>>
        /\ wire[w].out \o <<>> = <<>>
    BY <2>1, SeqFacts DEF WireEnds, Msg
  <2>3. Hears(w, <<>>) /\ CallerDoes(w, c) /\ UNCHANGED <<lock, answerer, calls, troubled>>
    BY <1>2
  <2>4. answerer[w].resend = (Self(w) \in Restarts) /\ Far(w) = Wires[w].to
    BY <1>1, <2>1 DEF WireInv, AnswererOK, CallerOK, Welcomed, WireEnds
  <2>5. c \in Process(CallerPlaces) /\ c.pc = "P" /\ c.with = caller[w].with
        /\ c.resend = answerer[w].resend
    BY <1>1, <2>2 DEF Process, CallerPlaces
  <2>6. LineStep(w) /\ wire'[w].up /\ wire'[w].out = <<>> /\ wire'[w].back = <<HasP(w)>>
    BY <2>2, <2>3, HearsFacts
  <2> HIDE DEF c
  <2>7. caller'[w] = c /\ answerer'[w].pc = "U" /\ Far(w)' = Far(w)
    BY <2>1, <2>3, <2>6 DEF IInv, ConvType, CallerDoes, WireEnds, LineStep, Far
  <2>8. InStep(w)' /\ SameProto(w)'
    BY <2>5, <2>6, <2>7 DEF InStep, Openings, WireEnds, SameProto, HasP
  <2>9. c.resend = (Self(w) \in Restarts)
    BY <2>4, <2>5, Zenon
  <2> QED BY <1>2, <2>3, <2>4, <2>5, <2>6, <2>8, <2>9, CallerMoves
<1>3. CASE Head(wire[w].back).kind # "ROK" /\ Drop(w, "startup_failed")
  <2>1. answerer[w].pc = "refused"
    BY <1>1, <1>3, SeqFacts DEF WireInv, InStep, Openings, Session, Closing, WireEnds, Msg
  <2>2. calls[w] = 0 \/ troubled[w]
    BY <1>1, <2>1 DEF WireInv, Good, IInv, ConvType
  <2> QED BY <1>1, <1>3, <2>2, DropStep DEF HostStatuses
<1> QED BY <1>2, <1>3

LEMMA HearShereStep == ASSUME IInv, NEW w \in W, HearShere(w) PROVE IInv'
<1> USE DEF HearShere, Waits, Heard
<1>1. WireInv(w) /\ caller[w] \in Process(CallerPlaces)
  BY DEF IInv, ConvType
<1>2. WireEnds(w, "Shere", "S", <<>>, <<Msg("Shere", Far(w))>>)
  BY <1>1 DEF WireInv, InStep, Openings, Session, Closing, WireEnds
<1>3. Head(wire[w].back).arg = Far(w) /\ Tail(wire[w].back) = <<>>
      /\ wire[w].out \o <<SaysS(w)>> = <<SaysS(w)>>
  BY <1>2, SeqFacts DEF WireEnds, Msg
<1>4. CASE Far(w) = Wires[w].to
  <2> DEFINE c == [caller[w] EXCEPT !.pc = "ROK"]
  <2>1. Hears(w, <<SaysS(w)>>) /\ CallerDoes(w, c) /\ UNCHANGED <<lock, answerer, calls, troubled>>
    BY <1>3, <1>4 DEF SaysS
  <2>2. c \in Process(CallerPlaces) /\ c.pc = "ROK" /\ c.with = caller[w].with
    BY <1>1 DEF Process, CallerPlaces
  <2>3. LineStep(w) /\ wire'[w].up /\ wire'[w].out = <<SaysS(w)>> /\ wire'[w].back = <<>>
    BY <1>3, <2>1, HearsFacts
  <2> HIDE DEF c
  <2>4. caller'[w] = c /\ answerer'[w].pc = "S"
    BY <1>2, <2>1 DEF IInv, ConvType, CallerDoes, WireEnds
  <2>5. InStep(w)' /\ SameProto(w)'
    BY <2>2, <2>3, <2>4 DEF InStep, Openings, WireEnds, SameProto, SaysS, Self, InSession
  <2> QED BY <1>2, <1>4, <2>1, <2>2, <2>3, <2>5, CallerMoves DEF WireEnds
<1>5. CASE Far(w) # Wires[w].to
  <2>1. calls[w] = 0 \/ troubled[w]
    BY <1>1, <1>5 DEF WireInv, Good, IInv, ConvType
  <2> QED BY <1>3, <1>5, <2>1, DropStep DEF HostStatuses
<1> QED BY <1>4, <1>5

LEMMA HearPStep == ASSUME IInv, NEW w \in W, HearP(w) PROVE IInv'
<1> USE DEF HearP, Waits, Heard
<1>1. WireInv(w) /\ caller[w] \in Process(CallerPlaces)
  BY DEF IInv, ConvType
<1>2. WireEnds(w, "P", "U", <<>>, <<HasP(w)>>)
  BY <1>1 DEF WireInv, InStep, Openings, Session, Closing, WireEnds
<1>3. Head(wire[w].back).arg = Protolst[Far(w)] /\ Tail(wire[w].back) = <<>>
      /\ \A u : wire[w].out \o <<u>> = <<u>>
  BY <1>2, SeqFacts DEF WireEnds, Msg, HasP
<1>4. Far(w) = Wires[w].to /\ caller[w].resend = (Self(w) \in Restarts)
  BY <1>1, <1>2 DEF WireInv, CallerOK, WireEnds
<1> DEFINE common == Common(proto[w], Protolst[Far(w)])
           first == proto[w][Min(common)]
<1>5. CASE common # {}
  <2> DEFINE c == [caller[w] EXCEPT !.pc = "session", !.status = "inprogress", !.proto = first]
  <2>1. first \in Protocols /\ first \in ToSet(Protolst[Far(w)])
    BY <1>5, ConvFacts, CommonFacts
  <2>2. Hears(w, <<Msg("U", first)>>) /\ CallerDoes(w, c)
        /\ UNCHANGED <<lock, answerer, calls, troubled>>
    BY <1>3, <1>5
  <2> HIDE DEF first
  <2>3. c \in Process(CallerPlaces) /\ c.pc = "session" /\ c.with = caller[w].with
        /\ c.proto = first /\ c.resend = caller[w].resend
    BY <1>1, <2>1 DEF Process, CallerPlaces, HostStatuses
  <2>4. LineStep(w) /\ wire'[w].up /\ wire'[w].out = <<Msg("U", first)>> /\ wire'[w].back = <<>>
    BY <1>3, <2>2, HearsFacts
  <2> HIDE DEF c
  <2>5. caller'[w] = c /\ answerer'[w].pc = "U" /\ Far(w)' = Far(w)
    BY <1>2, <2>2, <2>4 DEF IInv, ConvType, CallerDoes, WireEnds, LineStep, Far
  <2>6. InStep(w)' /\ SameProto(w)'
    BY <2>1, <2>3, <2>4, <2>5 DEF InStep, Session, WireEnds, SameProto, SaysU, Chosen
  <2>7. c.resend = (Self(w) \in Restarts)
    BY <1>4, <2>3, Zenon
  <2> QED BY <1>2, <1>4, <2>2, <2>3, <2>4, <2>6, <2>7, CallerMoves DEF WireEnds
<1>6. CASE common = {}
  <2> DEFINE c == [caller[w] EXCEPT !.pc = "refused"]
  <2>2. Hears(w, <<Msg("U", None)>>) /\ CallerDoes(w, c) /\ Trouble(w)
        /\ UNCHANGED <<lock, answerer, calls>>
    BY <1>3, <1>6
  <2>3. c \in Process(CallerPlaces) /\ c.pc = "refused" /\ c.with = caller[w].with
    BY <1>1 DEF Process, CallerPlaces
  <2>4. LineStep(w) /\ wire'[w].up /\ wire'[w].out = <<Msg("U", None)>> /\ wire'[w].back = <<>>
    BY <1>3, <2>2, HearsFacts
  <2> HIDE DEF c
  <2>5. caller'[w] = c /\ answerer'[w].pc = "U" /\ troubled'[w]
    BY <1>2, <2>2 DEF IInv, ConvType, CallerDoes, WireEnds, Trouble
  <2>6. InStep(w)' /\ SameProto(w)'
    BY <2>3, <2>4, <2>5 DEF InStep, Openings, WireEnds, SameProto
  <2> QED BY <1>2, <1>4, <2>2, <2>3, <2>4, <2>5, <2>6, CallerMoves DEF WireEnds
<1> QED BY <1>5, <1>6

LEMMA LeavePStep == ASSUME IInv, NEW w \in W, LeaveP(w) PROVE IInv'
<1>1. WireInv(w) /\ caller[w].status \in HostStatuses
  BY DEF IInv, ConvType, Process
<1>2. calls[w] = 0 \/ troubled[w]
  BY <1>1 DEF LeaveP, WireInv, Good, IInv, ConvType
<1> QED BY <1>1, <1>2, DropStep DEF LeaveP

LEMMA AskEndStep == ASSUME IInv, NEW w \in W, AskEnd(w) PROVE IInv'
<1> DEFINE c == [caller[w] EXCEPT !.pc = "HY"]
<1>1. WireInv(w) /\ caller[w] \in Process(CallerPlaces)
  BY DEF IInv, ConvType
<1>2. /\ caller[w].pc = "session" /\ wire[w].up /\ Says(w, <<Msg("H", 0)>>) /\ CallerDoes(w, c)
      /\ UNCHANGED <<answerer, lock, calls, troubled>>
  BY DEF AskEnd
<1>3. \/ WireEnds(w, "session", "U", <<SaysU(w)>>, <<>>) /\ Chosen(w)
      \/ WireEnds(w, "session", "session", <<>>, <<>>)
  BY <1>1, <1>2 DEF WireInv, InStep, Openings, Session, Closing, WireEnds
<1>4. c \in Process(CallerPlaces) /\ c.pc = "HY" /\ c.with = caller[w].with
      /\ c.proto = caller[w].proto /\ c.resend = caller[w].resend
  BY <1>1 DEF Process, CallerPlaces
<1>5. LineStep(w) /\ wire'[w].up /\ wire'[w].out = wire[w].out \o <<Msg("H", 0)>>
      /\ wire'[w].back = wire[w].back
  BY <1>2, SaysFacts
<1> HIDE DEF c
<1>6. caller'[w] = c /\ answerer'[w] = answerer[w] /\ Far(w)' = Far(w)
  BY <1>2, <1>5 DEF IInv, ConvType, CallerDoes, LineStep, Far
<1>7. SameProto(w)'
  BY <1>1, <1>2, <1>4, <1>6 DEF WireInv, SameProto, InSession
<1>8. InStep(w)'
  <2>1. CASE WireEnds(w, "session", "U", <<SaysU(w)>>, <<>>) /\ Chosen(w)
    <3>1. <<SaysU(w)>> \o <<Msg("H", 0)>> = <<SaysU(w), Msg("H", 0)>>
      BY SeqFacts
    <3>2. SaysU(w)' = SaysU(w) /\ Chosen(w)'
      BY <1>4, <1>6, <2>1 DEF SaysU, Chosen
    <3>3. WireEnds(w, "HY", "U", <<SaysU(w), Msg("H", 0)>>, <<>>)'
      BY <1>4, <1>5, <1>6, <2>1, <3>1, <3>2 DEF WireEnds
    <3> QED BY <3>2, <3>3 DEF InStep, Session
  <2>2. CASE WireEnds(w, "session", "session", <<>>, <<>>)
    <3>1. <<>> \o <<Msg("H", 0)>> = <<Msg("H", 0)>>
      BY SeqFacts
    <3>2. WireEnds(w, "HY", "session", <<Msg("H", 0)>>, <<>>)'
      BY <1>4, <1>5, <1>6, <2>2, <3>1 DEF WireEnds
    <3> QED BY <3>2 DEF InStep, Session
  <2> QED BY <1>3, <2>1, <2>2
<1>9. Far(w) = Wires[w].to /\ caller[w].resend = (Self(w) \in Restarts)
  BY <1>1, <1>2 DEF WireInv, CallerOK
<1>10. c.resend = (Self(w) \in Restarts)
  BY <1>4, <1>9, Zenon
<1> QED BY <1>2, <1>4, <1>5, <1>7, <1>8, <1>9, <1>10, CallerMoves

LEMMA FarewellStep == ASSUME IInv, NEW w \in W, Farewell(w) PROVE IInv'
<1> DEFINE c == [caller[w] EXCEPT !.pc = "bye", !.status = "called"]
<1>1. WireInv(w) /\ caller[w] \in Process(CallerPlaces)
  BY DEF IInv, ConvType
<1>2. /\ caller[w].pc = "HY" /\ wire[w].up /\ wire[w].back # <<>>
      /\ Hears(w, <<Msg("O", 6)>>) /\ CallerDoes(w, c)
      /\ UNCHANGED <<answerer, lock, calls, troubled>>
  BY DEF Farewell, Waits, Heard
<1>3. WireEnds(w, "HY", "bye", <<>>, <<Msg("HY", 0)>>)
  BY <1>1, <1>2 DEF WireInv, InStep, Openings, Session, Closing, WireEnds
<1>4. c \in Process(CallerPlaces) /\ c.pc = "bye" /\ c.with = caller[w].with
      /\ c.status = "called" /\ c.proto = caller[w].proto /\ c.resend = caller[w].resend
  BY <1>1 DEF Process, CallerPlaces, HostStatuses
<1>5. Tail(wire[w].back) = <<>> /\ wire[w].out \o <<Msg("O", 6)>> = <<Msg("O", 6)>>
  BY <1>3, SeqFacts DEF WireEnds
<1>6. LineStep(w) /\ wire'[w].up /\ wire'[w].out = <<Msg("O", 6)>> /\ wire'[w].back = <<>>
  BY <1>2, <1>5, HearsFacts
<1> HIDE DEF c
<1>7. caller'[w] = c /\ answerer'[w] = answerer[w]
  BY <1>2 DEF IInv, ConvType, CallerDoes
<1>8. SameProto(w)'
  BY <1>1, <1>2, <1>4, <1>7 DEF WireInv, SameProto, InSession
<1>9. InStep(w)'
  BY <1>3, <1>4, <1>6, <1>7 DEF InStep, Closing, WireEnds
<1>10. Far(w) = Wires[w].to /\ caller[w].resend = (Self(w) \in Restarts)
  BY <1>1, <1>2 DEF WireInv, CallerOK
<1>11. c.resend = (Self(w) \in Restarts)
  BY <1>4, <1>10, Zenon
<1> QED BY <1>2, <1>4, <1>6, <1>8, <1>9, <1>10, <1>11, CallerMoves

LEMMA HearByeStep == ASSUME IInv, NEW w \in W, HearBye(w) PROVE IInv'
<1>1. WireInv(w) /\ caller[w].status \in HostStatuses
  BY DEF IInv, ConvType, Process
<1>2. calls[w] > 0 /\ ~troubled[w] => caller[w].status = "called"
  BY <1>1 DEF HearBye, Waits, WireInv, Good, IInv, ConvType
<1> QED BY <1>1, <1>2, DropStep DEF HearBye

-----------------------------------------------------------------------------
\* A refused call: RYou or RLCK.
LEMMA RefuseStep ==
    ASSUME IInv, NEW w \in W, NEW why \in {"RYou", "RLCK"}, Refuse(w, why), wire[w].up,
           WireEnds(w, "ROK", "S", <<SaysS(w)>>, <<>>), caller' = caller, calls' = calls
    PROVE  IInv'
<1> DEFINE a == [answerer[w] EXCEPT !.pc = "refused"]
<1>1. answerer[w] \in Process(AnswererPlaces)
  BY DEF IInv, ConvType
<1>2. AnswererDoes(w, a) /\ Takes(w, <<Msg(why, 0)>>) /\ Trouble(w) /\ lock' = lock
  BY DEF Refuse
<1>3. a \in Process(AnswererPlaces) /\ a.pc = "refused"
  BY <1>1 DEF Process, AnswererPlaces
<1>4. Tail(wire[w].out) = <<>> /\ wire[w].back \o <<Msg(why, 0)>> = <<Msg(why, 0)>>
  BY SeqFacts DEF WireEnds
<1>5. LineStep(w) /\ wire'[w].up /\ wire'[w].out = <<>> /\ wire'[w].back = <<Msg(why, 0)>>
  BY <1>2, <1>4, TakesFacts
<1> HIDE DEF a
<1>6. answerer'[w] = a /\ caller'[w].pc = "ROK" /\ troubled'[w]
  BY <1>2 DEF IInv, ConvType, AnswererDoes, WireEnds, Trouble
<1>7. InStep(w)' /\ SameProto(w)'
  BY <1>3, <1>5, <1>6 DEF InStep, Openings, WireEnds, SameProto
<1> QED BY <1>2, <1>3, <1>5, <1>6, <1>7, AnswererMoves DEF WireEnds, Welcomed

\* A welcome: the answerer has locked the caller's host.
LEMMA WelcomeStep ==
    ASSUME IInv, NEW w \in W, wire[w].up, WireEnds(w, "ROK", "S", <<SaysS(w)>>, <<>>),
           Welcome(w, SaysS(w).arg), ~Locked(Far(w), Self(w)), caller' = caller, calls' = calls
    PROVE  IInv'
<1> DEFINE c == caller[w]
           r == Self(w) \in Restarts
           a == [answerer[w] EXCEPT !.pc = "U", !.with = Self(w), !.resend = r]
<1>0. WireInv(w) /\ Far(w) \in Machines
  BY DEF IInv, WireInv, AnswererOK, WireEnds
<1>1. c \in Process(CallerPlaces) /\ answerer[w] \in Process(AnswererPlaces)
      /\ caller' = [caller EXCEPT ![w] = c]
  BY DEF IInv, ConvType
<1>2. /\ Locks(Far(w), Self(w), A(w)) /\ AnswererDoes(w, a) /\ troubled' = troubled
      /\ Takes(w, <<Msg("ROK", r), HasP(w)>>)
  BY DEF Welcome, SaysS, Msg, HasP
<1>3. r \in BOOLEAN
  OBVIOUS
<1> HIDE DEF r
<1>4. a \in Process(AnswererPlaces) /\ a.pc = "U" /\ a.with = Self(w) /\ a.resend = r
  BY <1>1, <1>3, ConvFacts DEF Process, AnswererPlaces
<1>5. /\ lock' \in [Machines -> [Machines -> Holders]] /\ LocksOf(w)
      /\ \A i, j \in Machines :
            lock'[i][j] = IF i = Far(w) /\ j = Self(w) THEN A(w) ELSE lock[i][j]
  BY <1>0, <1>2, ConvFacts, LocksFacts
<1>6. lock[Far(w)][Self(w)] = Free
  BY DEF Locked
<1>7. Tail(wire[w].out) = <<>>
      /\ wire[w].back \o <<Msg("ROK", r), HasP(w)>> = <<Msg("ROK", r), HasP(w)>>
  BY SeqFacts DEF WireEnds
<1>8. LineStep(w) /\ wire'[w].up /\ wire'[w].out = <<>>
      /\ wire'[w].back = <<Msg("ROK", r), HasP(w)>>
  BY <1>2, <1>7, TakesFacts
<1>9. WireStep(w, c, a)
  BY <1>1, <1>2, <1>5, <1>8 DEF WireStep, AnswererDoes
<1> HIDE DEF a, c
<1>10. /\ caller'[w] = c /\ answerer'[w] = a /\ calls'[w] = calls[w] /\ Far(w)' = Far(w)
       /\ troubled'[w] = troubled[w] /\ c.pc = "ROK"
  BY <1>2, <1>9, After DEF WireEnds, c
<1>11. InStep(w)' /\ SameProto(w)'
  BY <1>4, <1>8, <1>10 DEF InStep, Openings, WireEnds, SameProto, HasP, InSession
<1>12. CallerOK(w)'
  BY <1>0, <1>5, <1>6, <1>10, ConvFacts, HolderFacts DEF WireInv, CallerOK, c
<1>13. AnswererOK(w)'
  <2>1. lock'[Far(w)][Self(w)] = A(w)
    BY <1>0, <1>5, ConvFacts
  <2>2. answerer'[w].resend = (Self(w) \in Restarts)
    BY <1>4, <1>10 DEF r
  <2> QED BY <1>0, <1>4, <1>10, <2>1, <2>2 DEF AnswererOK, Self
<1>14. LocksOK(w)'
  BY <1>0, <1>4, <1>5, <1>10, HolderFacts DEF WireInv, LocksOK, Welcomed, c, Self
<1>15. Good(w)'
  BY <1>0, <1>4, <1>10 DEF WireInv, Good, c
<1>16. WireInv(w)'
  BY <1>11, <1>12, <1>13, <1>14, <1>15 DEF WireInv
<1> QED BY <1>1, <1>4, <1>9, <1>16, StepOf

LEMMA TakeSStep == ASSUME IInv, NEW w \in W, TakeS(w) PROVE IInv'
<1> USE DEF TakeS, Listens, Asked
<1>1. WireInv(w)
  BY DEF IInv
<1>2. WireEnds(w, "ROK", "S", <<SaysS(w)>>, <<>>)
  BY <1>1 DEF WireInv, InStep, Openings, Session, Closing, WireEnds
<1>3. Head(wire[w].out).arg = SaysS(w).arg /\ SaysS(w).arg.host = Self(w)
  BY <1>2, SeqFacts DEF WireEnds, SaysS, Msg
<1>4. CASE Refuse(w, "RYou") \/ Refuse(w, "RLCK")
  BY <1>2, <1>4, RefuseStep
<1>5. CASE ~Locked(Far(w), Self(w)) /\ Welcome(w, SaysS(w).arg)
  BY <1>2, <1>5, WelcomeStep
<1> QED BY <1>3, <1>4, <1>5

LEMMA LeaveRefusedStep == ASSUME IInv, NEW w \in W, LeaveRefused(w) PROVE IInv'
<1>1. WireInv(w) /\ answerer[w].status \in HostStatuses
  BY DEF IInv, ConvType, Process
<1>2. calls[w] = 0 \/ troubled[w]
  BY <1>1 DEF LeaveRefused, WireInv, Good, IInv, ConvType
<1> QED BY <1>1, <1>2, DropAnswerStep DEF LeaveRefused

LEMMA TakeUStep == ASSUME IInv, NEW w \in W, TakeU(w) PROVE IInv'
<1> USE DEF TakeU, Listens, Asked
<1>1. WireInv(w) /\ answerer[w] \in Process(AnswererPlaces)
      /\ caller[w].proto \in Protocols \cup {"-"}
  BY DEF IInv, ConvType, Process
<1>2. \/ WireEnds(w, "refused", "U", <<Msg("U", None)>>, <<>>)
      \/ WireEnds(w, "session", "U", <<SaysU(w)>>, <<>>) /\ Chosen(w)
      \/ WireEnds(w, "HY", "U", <<SaysU(w), Msg("H", 0)>>, <<>>) /\ Chosen(w)
  BY <1>1 DEF WireInv, InStep, Openings, Session, Closing, WireEnds
<1>3. CASE WireEnds(w, "refused", "U", <<Msg("U", None)>>, <<>>)
  <2>1. Far(w) \in Machines /\ (calls[w] = 0 \/ troubled[w])
    BY <1>1, <1>3 DEF WireInv, AnswererOK, Good, WireEnds, IInv, ConvType
  <2>2. None \notin ToSet(Protolst[Far(w)])
    <3>1. Protolst[Far(w)] \in Seq(Protocols) /\ None \notin Protocols
      BY <2>1, ConvAssumption
    <3> QED BY <3>1 DEF ToSet
  <2>3. Head(wire[w].out).arg = None
    BY <1>3, SeqFacts DEF WireEnds, Msg
  <2>4. DropAnswer(w, answerer[w].status) /\ UNCHANGED <<caller, calls, troubled>>
    BY <2>2, <2>3
  <2> QED BY <1>1, <1>3, <2>1, <2>4, DropAnswerStep DEF Process, WireEnds
<1>4. CASE Chosen(w) /\ (\/ WireEnds(w, "session", "U", <<SaysU(w)>>, <<>>)
                         \/ WireEnds(w, "HY", "U", <<SaysU(w), Msg("H", 0)>>, <<>>))
  <2> DEFINE p == caller[w].proto
             a == [answerer[w] EXCEPT !.pc = "session", !.status = "inprogress", !.proto = p]
  <2>1. Head(wire[w].out).arg = p
    BY <1>4, SeqFacts DEF WireEnds, SaysU, Msg
  <2>2. AnswererDoes(w, a) /\ Takes(w, <<>>) /\ UNCHANGED <<lock, caller, calls, troubled>>
    BY <1>4, <2>1 DEF Chosen
  <2>3. a \in Process(AnswererPlaces) /\ a.pc = "session" /\ a.with = answerer[w].with
        /\ a.proto = caller[w].proto /\ a.resend = answerer[w].resend
    BY <1>1 DEF Process, AnswererPlaces, HostStatuses
  <2>4. LineStep(w) /\ wire'[w].up /\ wire'[w].out = Tail(wire[w].out) /\ wire'[w].back = <<>>
    BY <1>4, <2>2, TakesFacts, SeqFacts DEF WireEnds
  <2> HIDE DEF a
  <2>5. answerer'[w] = a /\ caller'[w] = caller[w]
    BY <2>2 DEF IInv, ConvType, AnswererDoes
  <2>6. SameProto(w)'
    BY <2>3, <2>5 DEF SameProto
  <2>7. Tail(<<SaysU(w)>>) = <<>> /\ Tail(<<SaysU(w), Msg("H", 0)>>) = <<Msg("H", 0)>>
    BY SeqFacts
  <2>8. InStep(w)'
    BY <1>4, <2>3, <2>4, <2>5, <2>7 DEF InStep, Session, WireEnds
  <2> QED BY <1>4, <2>2, <2>3, <2>4, <2>6, <2>8, AnswererMoves DEF WireEnds, Welcomed
<1> QED BY <1>2, <1>3, <1>4

LEMMA TakeEndStep == ASSUME IInv, NEW w \in W, TakeEnd(w) PROVE IInv'
<1> DEFINE a == [answerer[w] EXCEPT !.pc = "bye", !.status = "called"]
<1>1. WireInv(w) /\ answerer[w] \in Process(AnswererPlaces)
  BY DEF IInv, ConvType
<1>2. /\ answerer[w].pc = "session" /\ wire[w].up /\ wire[w].out # <<>>
      /\ Takes(w, <<Msg("HY", 0)>>) /\ AnswererDoes(w, a)
      /\ UNCHANGED <<caller, lock, calls, troubled>>
  BY DEF TakeEnd, Listens, Asked
<1>3. WireEnds(w, "HY", "session", <<Msg("H", 0)>>, <<>>)
  BY <1>1, <1>2 DEF WireInv, InStep, Openings, Session, Closing, WireEnds
<1>4. a \in Process(AnswererPlaces) /\ a.pc = "bye" /\ a.with = answerer[w].with
      /\ a.status = "called" /\ a.proto = answerer[w].proto /\ a.resend = answerer[w].resend
  BY <1>1 DEF Process, AnswererPlaces, HostStatuses
<1>5. Tail(wire[w].out) = <<>> /\ wire[w].back \o <<Msg("HY", 0)>> = <<Msg("HY", 0)>>
  BY <1>3, SeqFacts DEF WireEnds
<1>6. LineStep(w) /\ wire'[w].up /\ wire'[w].out = <<>> /\ wire'[w].back = <<Msg("HY", 0)>>
  BY <1>2, <1>5, TakesFacts
<1> HIDE DEF a
<1>7. answerer'[w] = a /\ caller'[w] = caller[w]
  BY <1>2 DEF IInv, ConvType, AnswererDoes
<1>8. InStep(w)' /\ SameProto(w)'
  BY <1>1, <1>2, <1>3, <1>4, <1>6, <1>7 DEF WireInv, InStep, Session, WireEnds, SameProto
<1> QED BY <1>2, <1>4, <1>6, <1>8, AnswererMoves DEF Welcomed

LEMMA TakeByeStep == ASSUME IInv, NEW w \in W, TakeBye(w) PROVE IInv'
<1> DEFINE a == [answerer[w] EXCEPT !.pc = "said"]
<1>1. WireInv(w) /\ answerer[w] \in Process(AnswererPlaces)
  BY DEF IInv, ConvType
<1>2. /\ answerer[w].pc = "bye" /\ wire[w].up /\ wire[w].out # <<>>
      /\ Takes(w, <<Msg("O", 7)>>) /\ AnswererDoes(w, a)
      /\ UNCHANGED <<caller, lock, calls, troubled>>
  BY DEF TakeBye, Listens, Asked
<1>3. WireEnds(w, "bye", "bye", <<Msg("O", 6)>>, <<>>)
  BY <1>1, <1>2 DEF WireInv, InStep, Openings, Session, Closing, WireEnds
<1>4. a \in Process(AnswererPlaces) /\ a.pc = "said" /\ a.with = answerer[w].with
      /\ a.status = answerer[w].status /\ a.proto = answerer[w].proto
      /\ a.resend = answerer[w].resend
  BY <1>1 DEF Process, AnswererPlaces
<1>5. Tail(wire[w].out) = <<>> /\ wire[w].back \o <<Msg("O", 7)>> = <<Msg("O", 7)>>
  BY <1>3, SeqFacts DEF WireEnds
<1>6. LineStep(w) /\ wire'[w].up /\ wire'[w].out = <<>> /\ wire'[w].back = <<Msg("O", 7)>>
  BY <1>2, <1>5, TakesFacts
<1> HIDE DEF a
<1>7. answerer'[w] = a /\ caller'[w] = caller[w]
  BY <1>2 DEF IInv, ConvType, AnswererDoes
<1>8. InStep(w)' /\ SameProto(w)'
  BY <1>1, <1>2, <1>3, <1>4, <1>6, <1>7 DEF WireInv, InStep, Closing, WireEnds, SameProto
<1>9. a.status = "called" \/ calls[w] = 0 \/ troubled[w]
  BY <1>1, <1>2, <1>4 DEF WireInv, Good, IInv, ConvType
<1> QED BY <1>2, <1>4, <1>6, <1>8, <1>9, AnswererMoves DEF Welcomed

LEMMA SaidStep == ASSUME IInv, NEW w \in W, Said(w) PROVE IInv'
<1>1. WireInv(w) /\ answerer[w].status \in HostStatuses
  BY DEF IInv, ConvType, Process
<1>2. calls[w] > 0 /\ ~troubled[w] => answerer[w].status = "called"
  BY <1>1 DEF Said, WireInv, Good, IInv, ConvType
<1> QED BY <1>1, <1>2, DropAnswerStep DEF Said

-----------------------------------------------------------------------------
\* A new call.
LEMMA DialStep == ASSUME IInv, NEW w \in W, NEW m \in Reached[w], Dial(w, m) PROVE IInv'
<1> DEFINE c == [Idle EXCEPT !.pc = "Shere", !.with = Wires[w].to, !.status = "startup_failed"]
           a == [Idle EXCEPT !.pc = "S"]
           l == [up |-> TRUE, reached |-> m, out |-> <<>>, back |-> <<Msg("Shere", m)>>]
<1>0. WireInv(w) /\ m \in Machines
  BY ConvFacts DEF IInv
<1>1. c \in Process(CallerPlaces) /\ a \in Process(AnswererPlaces)
  BY ConvFacts DEF Idle, Process, CallerPlaces, AnswererPlaces, HostStatuses
<1>2. /\ caller[w].pc = "idle" /\ answerer[w].pc = "idle"
      /\ caller' = [caller EXCEPT ![w] = c] /\ answerer' = [answerer EXCEPT ![w] = a]
      /\ wire' = [wire EXCEPT ![w] = l] /\ calls' = [calls EXCEPT ![w] = @ + 1]
      /\ troubled' = [troubled EXCEPT ![w] = m # Wires[w].to \/ Self(w) \notin Known[m]]
      /\ ~Locked(Self(w), Wires[w].to) /\ Locks(Self(w), Wires[w].to, C(w))
  BY DEF Dial, Quiet, CallerDoes, AnswererDoes
<1>3. /\ lock' \in [Machines -> [Machines -> Holders]] /\ LocksOf(w)
      /\ \A i, j \in Machines :
            lock'[i][j] = IF i = Self(w) /\ j = Wires[w].to THEN C(w) ELSE lock[i][j]
  BY <1>2, ConvFacts, LocksFacts
<1>4. /\ c.pc = "Shere" /\ c.with = Wires[w].to /\ a.pc = "S"
      /\ l.up = TRUE /\ l.reached = m /\ l.out = <<>> /\ l.back = <<Msg("Shere", m)>>
      /\ DOMAIN l = {"up", "reached", "out", "back"}
  BY DEF Idle
<1> HIDE DEF c, a, l
<1>5. /\ caller'[w] = c /\ answerer'[w] = a /\ wire'[w] = l /\ DOMAIN wire' = W
      /\ \A v \in W \ {w} : /\ caller'[v] = caller[v] /\ answerer'[v] = answerer[v]
                            /\ wire'[v] = wire[v] /\ calls'[v] = calls[v]
                            /\ troubled'[v] = troubled[v]
  BY <1>2 DEF IInv, ConvType
<1>6. ConvType'
  <2>1. \A v \in W : IsLine(wire'[v]) /\ wire'[v].up \in BOOLEAN
    BY <1>4, <1>5 DEF IInv, ConvType, IsLine
  <2>2. calls' \in [W -> Nat] /\ troubled' \in [W -> BOOLEAN]
    BY <1>2 DEF IInv, ConvType
  <2>3. caller' \in [W -> Process(CallerPlaces)] /\ answerer' \in [W -> Process(AnswererPlaces)]
    BY <1>1, <1>2 DEF IInv, ConvType
  <2> QED BY <1>3, <1>5, <2>1, <2>2, <2>3 DEF ConvType
<1>7. ASSUME NEW v \in W \ {w} PROVE WireInv(v)'
  BY <1>3, <1>5, Others
<1>8. WireInv(w)'
  <2>1. Far(w)' = m
    BY <1>4, <1>5 DEF Far
  <2>2. InStep(w)' /\ SameProto(w)'
    BY <1>4, <1>5, <2>1 DEF InStep, Openings, WireEnds, SameProto, InSession
  <2>3. CallerOK(w)' /\ AnswererOK(w)'
    BY <1>0, <1>3, <1>4, <1>5, <2>1, ConvFacts DEF CallerOK, AnswererOK, Welcomed, Self
  <2>4. LocksOK(w)'
    <3>1. \A i, j \in Machines : lock[i][j] # C(w) /\ lock[i][j] # A(w)
      BY <1>0, <1>2 DEF WireInv, LocksOK, Welcomed
    <3>2. C(w) # A(w)
      BY HolderFacts
    <3>3. \A i, j \in Machines :
             /\ lock'[i][j] # A(w)
             /\ lock'[i][j] = C(w) => i = Self(w) /\ j = Wires[w].to
      BY <1>3, <3>1, <3>2
    <3> QED BY <1>4, <1>5, <3>3 DEF LocksOK, Self
  <2>5. ~troubled'[w] => m = Wires[w].to
    BY <1>2 DEF IInv, ConvType
  <2>6. Good(w)'
    BY <1>4, <1>5, <2>1, <2>5 DEF Good
  <2> QED BY <2>2, <2>3, <2>4, <2>6 DEF WireInv
<1> QED BY <1>6, <1>7, <1>8 DEF IInv

LEMMA GivesUpStep == ASSUME IInv, NEW w \in W, GivesUp(w) PROVE IInv'
<1>1. troubled'[w]
  BY DEF GivesUp, Trouble, IInv, ConvType
<1> QED BY <1>1, DropStep DEF GivesUp, HostStatuses

LEMMA AnswererGivesUpStep == ASSUME IInv, NEW w \in W, AnswererGivesUp(w) PROVE IInv'
<1> DEFINE status == IF answerer[w].with = Nobody THEN answerer[w].status ELSE "call_failed"
<1>1. troubled'[w]
  BY DEF AnswererGivesUp, Trouble, IInv, ConvType
<1>2. status \in HostStatuses
  BY DEF IInv, ConvType, Process, HostStatuses
<1>3. DropAnswer(w, status) /\ answerer[w].pc # "idle" /\ caller' = caller /\ calls' = calls
      /\ Trouble(w)
  BY DEF AnswererGivesUp
<1> HIDE DEF status
<1> QED BY <1>1, <1>2, <1>3, DropAnswerStep

LEMMA LoseCarrierStep == ASSUME IInv, NEW w \in W, ConvLoseCarrier(w) PROVE IInv'
<1>0. WireInv(w) /\ caller[w] \in Process(CallerPlaces) /\ answerer[w] \in Process(AnswererPlaces)
      /\ caller = [caller EXCEPT ![w] = caller[w]]
      /\ answerer = [answerer EXCEPT ![w] = answerer[w]]
  BY DEF IInv, ConvType
<1>1. /\ caller' = caller /\ answerer' = answerer /\ lock' = lock /\ calls' = calls
      /\ Hangup(w) /\ Trouble(w)
  BY DEF ConvLoseCarrier
<1>2. LineStep(w) /\ ~wire'[w].up
  BY <1>1, HangupFacts
<1>3. WireStep(w, caller[w], answerer[w])
  BY <1>0, <1>1, <1>2 DEF WireStep, LocksOf, IInv, ConvType
<1>4. Far(w)' = Far(w) /\ troubled'[w]
  BY <1>0, <1>1, <1>3, After
<1>5. WireInv(w)'
  <2>1. InStep(w)' /\ Good(w)'
    BY <1>2, <1>4 DEF InStep, Good
  <2> QED BY <1>0, <1>1, <1>4, <2>1
          DEF WireInv, CallerOK, AnswererOK, Welcomed, SameProto, LocksOK
<1> QED BY <1>0, <1>3, <1>5, StepOf

LEMMA NextIInv == IInv /\ [ConvNext]_convVars => IInv'
<1> SUFFICES ASSUME IInv, [ConvNext]_convVars PROVE IInv'
  OBVIOUS
<1>1. ASSUME NEW w \in W, NEW m \in Reached[w], Dial(w, m) PROVE IInv'
  BY <1>1, DialStep
<1>2. ASSUME NEW w \in W, CallerStep(w) PROVE IInv'
  BY <1>2, HearShereStep, HearROKStep, HearPStep, LeavePStep, AskEndStep, FarewellStep,
     HearByeStep DEF CallerStep
<1>3. ASSUME NEW w \in W, AnswererStep(w) PROVE IInv'
  BY <1>3, TakeSStep, LeaveRefusedStep, TakeUStep, TakeEndStep, TakeByeStep, SaidStep
     DEF AnswererStep
<1>4. ASSUME NEW w \in W, GivesUp(w) \/ AnswererGivesUp(w) \/ ConvLoseCarrier(w) PROVE IInv'
  BY <1>4, GivesUpStep, AnswererGivesUpStep, LoseCarrierStep
<1>5. CASE UNCHANGED convVars
  BY <1>5 DEF convVars, IInv, ConvType, WireInv, InStep, Openings, Session, Closing, WireEnds, SaysS,
     HasP, SaysU, Chosen, CallerOK, AnswererOK, Welcomed, SameProto, InSession, LocksOK, Good, Far
<1> QED BY <1>1, <1>2, <1>3, <1>4, <1>5 DEF ConvNext

-----------------------------------------------------------------------------
(***************************************************************************)
(* Processes, lines and lock files keep the shape the code gives them, for *)
(* any wires, machines, host tables and protocols (hostp, setproto and     *)
(* E_host_status of uucico/dcpsys.c).                                      *)
(***************************************************************************)
THEOREM ConvTypeOK == ConvSpec => []ConvType
<1>1. IInv => ConvType
  BY DEF IInv
<1> QED BY <1>1, InitIInv, NextIInv, PTL DEF ConvSpec

\* The caller has locked the host it talks to, and the answerer its caller.
LEMMA TalkingFacts ==
    ASSUME IInv, NEW w \in W, Talking(w)
    PROVE  /\ lock[Self(w)][Wires[w].to] = C(w) /\ lock[Far(w)][Self(w)] = A(w)
           /\ Far(w) = Wires[w].to /\ caller[w].with = Wires[w].to
           /\ answerer[w].with = Self(w) /\ caller[w].proto = answerer[w].proto
           /\ caller[w].resend = answerer[w].resend
<1>1. WireInv(w)
  BY DEF IInv
<1>2. caller[w].pc \in {"session", "HY", "bye"} /\ answerer[w].pc \in {"session", "bye"}
  BY DEF Talking, InSession, IInv, ConvType, Process, AnswererPlaces
<1>3. caller[w].resend = (Self(w) \in Restarts) /\ answerer[w].resend = (Self(w) \in Restarts)
  BY <1>1, <1>2 DEF WireInv, CallerOK, AnswererOK, Welcomed
<1>4. caller[w].resend = answerer[w].resend
  BY <1>3, Zenon
<1> QED BY <1>1, <1>2, <1>4
        DEF WireInv, CallerOK, AnswererOK, Welcomed, SameProto, InSession

(***************************************************************************)
(* Two systems have one session at a time, whoever calls, and agree on     *)
(* whom they talk to, on the protocol and on restarts in it: what the lock *)
(* files of startup_server and startup_client are for.                     *)
(***************************************************************************)
THEOREM OneSessionAtATime == ConvSpec => []SessionsAgree
<1>1. IInv => OneSession
  <2> SUFFICES ASSUME IInv, NEW v \in W, NEW w \in W, Talking(v), Talking(w),
                      {Self(v), Far(v)} = {Self(w), Far(w)}
               PROVE  v = w
    BY DEF OneSession
  <2>1. \/ Self(v) = Self(w) /\ Far(v) = Far(w)
        \/ Self(v) = Far(w) /\ Far(v) = Self(w)
    BY Zenon
  <2>2. /\ lock[Self(v)][Far(v)] = C(v) /\ lock[Far(v)][Self(v)] = A(v)
        /\ lock[Self(w)][Far(w)] = C(w) /\ lock[Far(w)][Self(w)] = A(w)
    BY TalkingFacts
  <2>3. CASE Self(v) = Self(w) /\ Far(v) = Far(w)
    BY <2>2, <2>3, HolderFacts
  <2>4. CASE Self(v) = Far(w) /\ Far(v) = Self(w)
    BY <2>2, <2>4, HolderFacts
  <2> QED BY <2>1, <2>3, <2>4
<1>2. IInv => Agree
  BY TalkingFacts DEF Agree
<1>3. IInv => SessionsAgree
  BY <1>1, <1>2 DEF SessionsAgree
<1> QED BY <1>3, InitIInv, NextIInv, PTL DEF ConvSpec

(***************************************************************************)
(* A call in which nothing went wrong counts as called at each end that    *)
(* has ended it, and an end that has ended its call has no lock: sysend    *)
(* and UnlockSystem, with the carrier lost at any point of another call.   *)
(***************************************************************************)
THEOREM GoodCallCounts == ConvSpec => []GoodCall
<1>1. IInv => GoodCall
  <2> SUFFICES ASSUME IInv, NEW w \in W
               PROVE  /\ Good(w) /\ LocksOK(w)
    BY DEF GoodCall, Good, LocksOK, Welcomed
  <2> QED BY DEF IInv, WireInv
<1> QED BY <1>1, InitIInv, NextIInv, PTL DEF ConvSpec

-----------------------------------------------------------------------------
(***************************************************************************)
(* The handshake of the g protocol.                                        *)
(*                                                                         *)
(* INITA is the only packet that carries the window; the chain INITA ->    *)
(* INITB -> INITC is what makes a host that is open one that has seen it,  *)
(* although packets of older attempts may still be on the line.            *)
(* LearntWindow says so for every packet and is inductive together with    *)
(* the types.                                                              *)
(***************************************************************************)

\* There are two hosts.
LEMMA TwoHosts ==
    ASSUME NEW h \in Hosts
    PROVE  Other(h) \in Hosts /\ Other(h) # h /\ Other(Other(h)) = h
BY HandshakeAssumption DEF Hosts, Other

\* The configured windows and what the two ends settle on.
LEMMA WindowType ==
    ASSUME NEW h \in Hosts
    PROVE  /\ MAXWINDOW[h] \in 1..7 /\ Window \in 1..7
           /\ Window = Least(MAXWINDOW[h], MAXWINDOW[Other(h)])
<1>1. MAXWINDOW \in [Hosts -> 1..7] BY HandshakeAssumption
<1>2. Caller \in Hosts /\ Answerer \in Hosts BY DEF Hosts
<1>. QED BY <1>1, <1>2, HandshakeAssumption DEF Window, Least, Other, Hosts

\* What a packet put on a line does to it.
LEMMA PutFacts ==
    ASSUME NEW c \in Seq(Packet), NEW m \in Packet
    PROVE  /\ Put(c, m) \in Seq(Packet)
           /\ \A i \in 1..Len(Put(c, m)) :
                 \/ Put(c, m)[i] = m
                 \/ \E j \in 1..Len(c) : Put(c, m)[i] = c[j]
BY HandshakeAssumption DEF Put

\* What reading a packet does to a line.
LEMMA TailFacts ==
    ASSUME NEW c \in Seq(Packet), c # <<>>
    PROVE  /\ Tail(c) \in Seq(Packet) /\ Head(c) \in Packet
           /\ Head(c) = c[1] /\ 1 \in 1..Len(c)
           /\ \A i \in 1..Len(Tail(c)) :
                 \E j \in 1..Len(c) : Tail(c)[i] = c[j]
<1>1. Len(c) \in Nat /\ Len(c) # 0 /\ Tail(c) \in Seq(Packet)
  OBVIOUS
<1>2. Head(c) = c[1] /\ c[1] \in Packet /\ Len(Tail(c)) = Len(c) - 1
  BY <1>1
<1>3. ASSUME NEW i \in 1..Len(Tail(c))
      PROVE  \E j \in 1..Len(c) : Tail(c)[i] = c[j]
  <2>1. i + 1 \in 1..Len(c) /\ Tail(c)[i] = c[i + 1] BY <1>1, <1>2
  <2>. QED BY <2>1
<1>. QED BY <1>1, <1>2, <1>3

\* The packets a host sends are packets.
LEMMA PacketTypes ==
    ASSUME TypeOK, NEW h \in Hosts
    PROVE  /\ INITA(h) \in Packet /\ INITB(h) \in Packet
           /\ INITC(h) \in Packet /\ DATA \in Packet /\ NAK \in Packet
           /\ CLOSE \in Packet
<1>1. MAXWINDOW[h] \in 0..7 /\ local_pktsize[h] \in 0..7
  BY HandshakeAssumption DEF Sizes
<1>2. nwindows[h] \in 0..7 BY DEF TypeOK
<1>. QED BY <1>1, <1>2 DEF Packet, INITA, INITB, INITC, DATA, NAK, CLOSE

\* The types are preserved by what a host sends and reads.
LEMMA LineTypes ==
    ASSUME TypeOK, NEW h \in Hosts, NEW m \in Packet
    PROVE  /\ Sends(h, m) => line' \in [Hosts -> Seq(Packet)]
           /\ line[h] # <<>> /\ Reads(h) => line' \in [Hosts -> Seq(Packet)]
           /\ line[h] # <<>> /\ Answers(h, m)
                => line' \in [Hosts -> Seq(Packet)]
<1>1. /\ line \in [Hosts -> Seq(Packet)]
      /\ Put(line[Other(h)], m) \in Seq(Packet)
      /\ line[h] # <<>> => Tail(line[h]) \in Seq(Packet)
  BY TwoHosts, PutFacts, TailFacts DEF TypeOK
<1>. QED BY <1>1, TwoHosts DEF Sends, Reads, Answers

\* A step that sends, reads or answers with m leaves the packets of either
\* line as they were, but for m.
OldOrNew(h, m) ==
    \A g \in Hosts : \A i \in 1..Len(line'[g]) :
       \/ \E j \in 1..Len(line[g]) : line'[g][i] = line[g][j]
       \/ g = Other(h) /\ line'[g][i] = m

\* What a step does to the lines.
LEMMA LineFacts ==
    ASSUME TypeOK, NEW h \in Hosts, NEW m \in Packet,
           \/ Sends(h, m)
           \/ line[h] # <<>> /\ (Reads(h) \/ Answers(h, m))
           \/ UNCHANGED line
    PROVE  OldOrNew(h, m)
<1>. SUFFICES ASSUME NEW g \in Hosts, NEW i \in 1..Len(line'[g])
     PROVE  \/ \E j \in 1..Len(line[g]) : line'[g][i] = line[g][j]
            \/ g = Other(h) /\ line'[g][i] = m
  BY DEF OldOrNew
<1>1. line \in [Hosts -> Seq(Packet)] BY DEF TypeOK
<1>2. \/ line'[g] = line[g]
      \/ g = Other(h) /\ line'[g] = Put(line[g], m)
      \/ line[g] # <<>> /\ line'[g] = Tail(line[g])
  BY <1>1, TwoHosts DEF Sends, Reads, Answers
<1>3. CASE line'[g] = line[g]
  <2>1. i \in 1..Len(line[g]) /\ line'[g][i] = line[g][i] BY <1>3
  <2>. QED BY <2>1
<1>4. CASE g = Other(h) /\ line'[g] = Put(line[g], m)
  <2>1. i \in 1..Len(Put(line[g], m)) /\ line[g] \in Seq(Packet)
    BY <1>1, <1>4
  <2>2. \/ Put(line[g], m)[i] = m
        \/ \E j \in 1..Len(line[g]) : Put(line[g], m)[i] = line[g][j]
    BY <2>1, PutFacts
  <2>. QED BY <1>4, <2>2
<1>5. CASE line[g] # <<>> /\ line'[g] = Tail(line[g])
  <2>1. i \in 1..Len(Tail(line[g])) /\ line[g] \in Seq(Packet)
    BY <1>1, <1>5
  <2>2. \E j \in 1..Len(line[g]) : Tail(line[g])[i] = line[g][j]
    BY <1>5, <2>1, TailFacts
  <2>. QED BY <1>5, <2>2
<1>. QED BY <1>2, <1>3, <1>4, <1>5

\* LearntWindow survives every step that leaves the window alone, or sets it
\* to Window, and sends at most a packet m for which it holds.
LEMMA KeepsLearnt ==
    ASSUME TypeOK, LearntWindow, NEW h \in Hosts, NEW m \in Packet,
           OldOrNew(h, m),
           PacketOK(m, Other(h))',
           \A g \in Hosts : nwindows'[g] \in {nwindows[g], Window},
           \A g \in Hosts : phase'[g] \in Open =>
              phase[g] \in Open \/ nwindows[g] = Window
    PROVE  LearntWindow'
<1>1. Window' = Window BY DEF Window
<1>2. ASSUME NEW g \in Hosts
      PROVE  nwindows[g] = Window => nwindows'[g] = Window
  OBVIOUS
<1>3. ASSUME NEW g \in Hosts, phase'[g] \in Open
      PROVE  nwindows'[g] = Window
  <2>1. nwindows[g] = Window BY <1>3 DEF LearntWindow
  <2>. QED BY <1>2, <2>1
<1>4. ASSUME NEW g \in Hosts, NEW i \in 1..Len(line'[g])
      PROVE  PacketOK(line[g][i], g)'
  <2>1. CASE \E j \in 1..Len(line[g]) : line'[g][i] = line[g][j]
    <3>1. PICK j \in 1..Len(line[g]) : line'[g][i] = line[g][j] BY <2>1
    <3>2. PacketOK(line[g][j], g) BY DEF LearntWindow
    <3>3. Other(g) \in Hosts BY TwoHosts
    <3>. QED BY <1>1, <1>2, <3>1, <3>2, <3>3 DEF PacketOK
  <2>2. CASE g = Other(h) /\ line'[g][i] = m
    BY <2>2 DEF PacketOK
  <2>. QED BY <2>1, <2>2 DEF OldOrNew
<1>. QED BY <1>1, <1>3, <1>4 DEF LearntWindow

-----------------------------------------------------------------------------
\* gopenpk's case INITA: the host learns the window and says so with INITB.
LEMMA GotINITAStep ==
    ASSUME TypeOK, LearntWindow, NEW h \in Hosts, GotINITA(h)
    PROVE  TypeOK' /\ LearntWindow'
<1>. DEFINE yyy == Head(line[h]).yyy
<1>1. /\ line[h] \in Seq(Packet) /\ line[h] # <<>>
      /\ Head(line[h]).type = "INITA"
  BY DEF GotINITA, Comes, TypeOK
<1>2. yyy = MAXWINDOW[Other(h)]
  <2>1. PacketOK(line[h][1], h) /\ Head(line[h]) = line[h][1]
    BY <1>1, TailFacts DEF LearntWindow
  <2>. QED BY <1>1, <2>1 DEF PacketOK
<1>3. (IF yyy > MAXWINDOW[h] THEN MAXWINDOW[h] ELSE yyy) = Window
  BY <1>2, WindowType, TwoHosts DEF Least
<1>4. /\ nwindows' = [nwindows EXCEPT ![h] = Window]
      /\ Answers(h, INITB(h))
      /\ UNCHANGED <<phase, pktsize, nerr, got_hdr, noise>>
  BY <1>3 DEF GotINITA
<1>. HIDE DEF yyy
<1>5. TypeOK'
  BY <1>1, <1>4, WindowType, PacketTypes, LineTypes DEF TypeOK
<1>6. LearntWindow'
  <2>1. OldOrNew(h, INITB(h)) BY <1>1, <1>4, PacketTypes, LineFacts
  <2>2. \A g \in Hosts : nwindows'[g] \in {nwindows[g], Window}
    BY <1>4 DEF TypeOK
  <2>3. nwindows'[h] = Window BY <1>4 DEF TypeOK
  <2>4. PacketOK(INITB(h), Other(h))'
    BY <2>3, TwoHosts DEF PacketOK, INITB, Window
  <2>. QED BY <1>4, <2>1, <2>2, <2>4, PacketTypes, KeepsLearnt
<1>. QED BY <1>5, <1>6

\* Case INITB: the other end has learnt the window, so it may be told INITC.
LEMMA GotINITBStep ==
    ASSUME TypeOK, LearntWindow, NEW h \in Hosts, GotINITB(h)
    PROVE  TypeOK' /\ LearntWindow'
<1>1. /\ line[h] \in Seq(Packet) /\ line[h] # <<>>
      /\ Head(line[h]).type = "INITB" /\ Head(line[h]) \in Packet
  BY TailFacts DEF GotINITB, Comes, TypeOK
<1>2. nwindows[Other(h)] = Window
  <2>1. PacketOK(line[h][1], h) /\ Head(line[h]) = line[h][1]
    BY <1>1, TailFacts DEF LearntWindow
  <2>. QED BY <1>1, <2>1 DEF PacketOK
<1>3. /\ Answers(h, INITC(h))
      /\ UNCHANGED <<phase, nwindows, nerr, got_hdr, noise>>
  BY DEF GotINITB
<1>4. TypeOK'
  <2>1. remote_pktsize[h] \in Sizes /\ Head(line[h]).yyy \in Sizes
    BY <1>1, HandshakeAssumption DEF Packet, Sizes
  <2>2. pktsize' \in [Hosts -> Sizes] BY <2>1 DEF GotINITB, TypeOK
  <2>. QED BY <1>1, <1>3, <2>2, PacketTypes, LineTypes DEF TypeOK
<1>5. ASSUME NEW m \in Packet, m = INITC(h)
      PROVE  LearntWindow'
  <2>1. OldOrNew(h, m) BY <1>1, <1>3, <1>5, LineFacts
  <2>2. PacketOK(m, Other(h))'
    BY <1>2, <1>3, <1>5 DEF PacketOK, INITC, Window
  <2>. QED BY <1>3, <2>1, <2>2, KeepsLearnt
<1>6. LearntWindow' BY <1>5, PacketTypes
<1>. QED BY <1>4, <1>6

\* Case INITC: the host opens, and it has learnt the window.
LEMMA GotINITCStep ==
    ASSUME TypeOK, LearntWindow, NEW h \in Hosts, GotINITC(h)
    PROVE  TypeOK' /\ LearntWindow'
<1>1. /\ line[h] \in Seq(Packet) /\ line[h] # <<>>
      /\ Head(line[h]).type = "INITC"
  BY DEF GotINITC, Comes, TypeOK
<1>2. nwindows[h] = Window
  <2>1. PacketOK(line[h][1], h) /\ Head(line[h]) = line[h][1]
    BY <1>1, TailFacts DEF LearntWindow
  <2>. QED BY <1>1, <2>1 DEF PacketOK
<1>3. /\ phase' = [phase EXCEPT ![h] = "open"]
      /\ nerr' = [nerr EXCEPT ![h] = 0] /\ Reads(h)
      /\ UNCHANGED <<nwindows, pktsize, got_hdr, noise>>
  BY DEF GotINITC
<1>4. TypeOK'
  BY <1>1, <1>3, HandshakeAssumption, PacketTypes, LineTypes DEF TypeOK, Open
<1>5. \A g \in Hosts : phase'[g] \in Open =>
           phase[g] \in Open \/ nwindows[g] = Window
  BY <1>2, <1>3 DEF TypeOK
<1>6. ASSUME NEW m \in Packet, m.type = "CLOSE"
      PROVE  LearntWindow'
  <2>1. OldOrNew(h, m) BY <1>1, <1>3, LineFacts
  <2>2. PacketOK(m, Other(h))' BY <1>6 DEF PacketOK
  <2>3. \A g \in Hosts : nwindows'[g] \in {nwindows[g], Window} BY <1>3
  <2>. QED BY <1>5, <2>1, <2>2, <2>3, KeepsLearnt
<1>7. CLOSE \in Packet /\ CLOSE.type = "CLOSE"
  BY PacketTypes DEF CLOSE
<1>8. LearntWindow' BY <1>6, <1>7
<1>. QED BY <1>4, <1>8

\* The steps that leave the window alone and open nothing, whatever they send:
\* INITA, DATA or a control packet.
LEMMA OtherStep ==
    ASSUME TypeOK, LearntWindow, NEW h \in Hosts,
           NEW m \in {INITA(h), DATA, NAK, CLOSE},
           \/ Sends(h, m)
           \/ line[h] # <<>> /\ (Reads(h) \/ Answers(h, m))
           \/ UNCHANGED line,
           UNCHANGED nwindows,
           phase' \in [Hosts -> {"idle", "init"} \cup Open \cup Over],
           \A g \in Hosts : phase'[g] \in Open => phase[g] \in Open,
           pktsize' \in [Hosts -> Sizes], nerr' \in [Hosts -> 0..MaxErr],
           \A g \in Hosts : phase'[g] \notin Over => nerr'[g] < MaxErr,
           got_hdr' \in [Hosts -> BOOLEAN], noise' \in Noises
    PROVE  TypeOK' /\ LearntWindow'
<1>1. m \in Packet BY PacketTypes
<1>2. TypeOK' BY <1>1, LineTypes DEF TypeOK
<1>3. PacketOK(m, Other(h))'
  BY TwoHosts DEF PacketOK, INITA, DATA, NAK, CLOSE
<1>4. OldOrNew(h, m) BY <1>1, LineFacts
<1>. QED BY <1>1, <1>2, <1>3, <1>4, KeepsLearnt

-----------------------------------------------------------------------------
\* An error more.
LEMMA CountFacts ==
    ASSUME TypeOK, NEW h \in Hosts, phase[h] \notin Over, Count(h)
    PROVE  /\ phase' \in [Hosts -> {"idle", "init"} \cup Open \cup Over]
           /\ \A g \in Hosts : phase'[g] \in Open => phase[g] \in Open
           /\ nerr' \in [Hosts -> 0..MaxErr]
           /\ \A g \in Hosts : phase'[g] \notin Over => nerr'[g] < MaxErr
<1>1. CASE LastTry(h)
  <2>1. phase' = [phase EXCEPT ![h] = "failed"] /\ nerr' = [nerr EXCEPT ![h] = 0]
    BY <1>1 DEF Count
  <2>. QED BY <2>1, HandshakeAssumption DEF TypeOK, Open, Over
<1>2. CASE ~LastTry(h)
  <2>1. phase' = phase /\ nerr' = [nerr EXCEPT ![h] = @ + 1]
    BY <1>2 DEF Count, TypeOK
  <2>2. nerr[h] + 1 < MaxErr BY <1>2, HandshakeAssumption DEF LastTry, TypeOK
  <2>. QED BY <2>1, <2>2, HandshakeAssumption DEF TypeOK, Open, Over
<1>. QED BY <1>1, <1>2

\* gopenpk's default case, before it sends INITA.
LEMMA ScrewUpFacts ==
    ASSUME TypeOK, NEW h \in Hosts, phase[h] = "init", ScrewUp(h)
    PROVE  /\ UNCHANGED nwindows
           /\ phase' \in [Hosts -> {"idle", "init"} \cup Open \cup Over]
           /\ \A g \in Hosts : phase'[g] \in Open => phase[g] \in Open
           /\ pktsize' \in [Hosts -> Sizes] /\ nerr' \in [Hosts -> 0..MaxErr]
           /\ \A g \in Hosts : phase'[g] \notin Over => nerr'[g] < MaxErr
<1>1. Count(h) /\ phase[h] \notin Over BY DEF ScrewUp, Over
<1>2. /\ phase' \in [Hosts -> {"idle", "init"} \cup Open \cup Over]
      /\ \A g \in Hosts : phase'[g] \in Open => phase[g] \in Open
      /\ nerr' \in [Hosts -> 0..MaxErr]
      /\ \A g \in Hosts : phase'[g] \notin Over => nerr'[g] < MaxErr
  BY <1>1, CountFacts
<1>3. UNCHANGED nwindows /\ pktsize' \in [Hosts -> Sizes]
  BY DEF ScrewUp, TypeOK, Sizes, PKTSIZE
<1>. QED BY <1>2, <1>3

\* gmachine's errors after the host has opened.
LEMMA ErrorFacts ==
    ASSUME TypeOK, NEW h \in Hosts, NEW m, phase[h] \notin Over, Error(h, m)
    PROVE  /\ UNCHANGED <<nwindows, pktsize, got_hdr>>
           /\ Sends(h, CLOSE) \/ Sends(h, m)
           /\ phase' \in [Hosts -> {"idle", "init"} \cup Open \cup Over]
           /\ \A g \in Hosts : phase'[g] \in Open => phase[g] \in Open
           /\ nerr' \in [Hosts -> 0..MaxErr]
           /\ \A g \in Hosts : phase'[g] \notin Over => nerr'[g] < MaxErr
BY CountFacts DEF Error

\* A fault uses up one of MaxNoise.
LEMMA NoiseFacts ==
    ASSUME TypeOK, NEW kind, Fault(kind) \/ UNCHANGED noise \/ TimePasses
    PROVE  noise' \in Noises
<1>1. noise \in Noises BY DEF TypeOK
<1>2. ASSUME Fault(kind) \/ Fault("slow") PROVE noise' \in Noises
  <2>1. PICK k \in Faults : /\ noise[k] > 0
                            /\ noise' = [noise EXCEPT ![k] = @ - 1]
    BY <1>2 DEF Fault
  <2>2. /\ noise \in [Faults -> Nat] /\ MaxNoise \in [Faults -> Nat]
        /\ \A j \in Faults : noise[j] <= MaxNoise[j]
    BY <1>1, HandshakeAssumption DEF Noises
  <2>3. noise' \in [Faults -> Nat] BY <2>1, <2>2
  <2>4. ASSUME NEW j \in Faults PROVE noise'[j] <= MaxNoise[j]
    BY <2>1, <2>2
  <2>. QED BY <2>3, <2>4 DEF Noises
<1>. QED BY <1>1, <1>2 DEF TimePasses

\* The actions of gopenpk but for the three cases above.
LEMMA OpeningStep ==
    ASSUME TypeOK, LearntWindow, NEW h \in Hosts,
           Start(h) \/ GotControl(h) \/ GotDATA(h) \/ Stuck(h) \/ TimedOut(h)
    PROVE  TypeOK' /\ LearntWindow'
<1>1. CASE Start(h)
  <2>1. /\ phase' \in [Hosts -> {"idle", "init"} \cup Open \cup Over]
        /\ \A g \in Hosts : phase'[g] \in Open => phase[g] \in Open
        /\ \A g \in Hosts : phase'[g] \notin Over => nerr'[g] < MaxErr
    BY <1>1 DEF Start, TypeOK, Open, Over
  <2>2. Sends(h, INITA(h)) /\ UNCHANGED <<nwindows, pktsize, nerr, got_hdr, noise>>
    BY <1>1 DEF Start
  <2>. QED BY <2>1, <2>2, OtherStep DEF TypeOK
<1>2. CASE GotControl(h)
  <2>1. phase[h] = "init" /\ ScrewUp(h) /\ line[h] # <<>>
    BY <1>2 DEF GotControl, Comes
  <2>2. Answers(h, INITA(h)) /\ UNCHANGED <<got_hdr, noise>>
    BY <1>2 DEF GotControl
  <2>. QED BY <2>1, <2>2, ScrewUpFacts, OtherStep DEF TypeOK
<1>3. CASE GotDATA(h)
  <2>1. phase[h] = "init" /\ ScrewUp(h) /\ line[h] # <<>>
    BY <1>3 DEF GotDATA, Comes
  <2>2. /\ Answers(h, INITA(h)) /\ UNCHANGED noise
        /\ got_hdr' \in [Hosts -> BOOLEAN]
    BY <1>3 DEF GotDATA, TypeOK
  <2>. QED BY <2>1, <2>2, ScrewUpFacts, OtherStep DEF TypeOK
<1>4. CASE Stuck(h)
  <2>1. phase[h] = "init" /\ ScrewUp(h) BY <1>4 DEF Stuck
  <2>2. Sends(h, INITA(h)) /\ UNCHANGED <<got_hdr, noise>>
    BY <1>4 DEF Stuck
  <2>. QED BY <2>1, <2>2, ScrewUpFacts, OtherStep DEF TypeOK
<1>5. CASE TimedOut(h)
  <2>1. phase[h] = "init" /\ ScrewUp(h) /\ noise' \in Noises
    BY <1>5, NoiseFacts DEF TimedOut
  <2>2. Sends(h, INITA(h)) /\ UNCHANGED got_hdr
    BY <1>5 DEF TimedOut
  <2>. QED BY <2>1, <2>2, ScrewUpFacts, OtherStep DEF TypeOK
<1>. QED BY <1>1, <1>2, <1>3, <1>4, <1>5

\* The actions of an open host.
LEMMA OpenedStep ==
    ASSUME TypeOK, LearntWindow, NEW h \in Hosts, Opened(h)
    PROVE  TypeOK' /\ LearntWindow'
<1>1. CASE Speak(h)
  <2>1. /\ phase' \in [Hosts -> {"idle", "init"} \cup Open \cup Over]
        /\ \A g \in Hosts : phase'[g] \in Open => phase[g] \in Open
        /\ \A g \in Hosts : phase'[g] \notin Over => nerr'[g] < MaxErr
    BY <1>1 DEF Speak, TypeOK, Open, Over
  <2>2. Sends(h, DATA) /\ UNCHANGED <<nwindows, pktsize, nerr, got_hdr, noise>>
    BY <1>1 DEF Speak
  <2>. QED BY <2>1, <2>2, OtherStep DEF TypeOK
<1>2. CASE Wait(h)
  <2>. DEFINE m == IF h = Caller THEN DATA ELSE NAK
  <2>1. Error(h, m) /\ phase[h] \notin Over /\ noise' \in Noises
    BY <1>2, NoiseFacts DEF Wait, InMachine, Over
  <2>2. Sends(h, DATA) \/ Sends(h, NAK) \/ Sends(h, CLOSE) BY <2>1, ErrorFacts
  <2>. HIDE DEF m
  <2>. QED BY <2>1, <2>2, ErrorFacts, OtherStep DEF TypeOK
<1>3. CASE Stray(h)
  <2>1. /\ phase[h] \notin Over /\ line[h] # <<>>
        /\ Reads(h) \/ Answers(h, CLOSE)
        /\ UNCHANGED <<nwindows, pktsize, got_hdr, noise>>
    BY <1>3 DEF Stray, Comes, InMachine, Over
  <2>2. /\ phase' \in [Hosts -> {"idle", "init"} \cup Open \cup Over]
        /\ \A g \in Hosts : phase'[g] \in Open => phase[g] \in Open
        /\ \A g \in Hosts : phase'[g] \notin Over => nerr'[g] < MaxErr
        /\ nerr' \in [Hosts -> 0..MaxErr]
    BY <1>3, <2>1, CountFacts DEF Stray
  <2>. QED BY <2>1, <2>2, OtherStep DEF TypeOK
<1>4. CASE Hear(h)
  <2>1. /\ phase[h] \in Open /\ line[h] # <<>> /\ Reads(h)
        /\ UNCHANGED <<nwindows, pktsize, got_hdr, noise>>
    BY <1>4 DEF Hear, Comes
  <2>2. /\ phase' \in [Hosts -> {"idle", "init"} \cup Open \cup Over]
        /\ \A g \in Hosts : phase'[g] \in Open => phase[g] \in Open
        /\ \A g \in Hosts : phase'[g] \notin Over => nerr'[g] < MaxErr
        /\ nerr' \in [Hosts -> 0..MaxErr]
    BY <1>4, <2>1, HandshakeAssumption DEF Hear, TypeOK, Open, Over
  <2>. QED BY <2>1, <2>2, OtherStep DEF TypeOK
<1>5. CASE Refused(h)
  <2>1. /\ line[h] # <<>> /\ Answers(h, DATA)
        /\ UNCHANGED <<phase, nwindows, pktsize, got_hdr, noise>>
    BY <1>5 DEF Refused, Comes
  <2>2. /\ \A g \in Hosts : phase'[g] \notin Over => nerr'[g] < MaxErr
        /\ nerr' \in [Hosts -> 0..MaxErr]
    BY <1>5, HandshakeAssumption DEF Refused, TypeOK
  <2>. QED BY <2>1, <2>2, OtherStep DEF TypeOK
<1>6. CASE Closed(h)
  <2>1. /\ line[h] # <<>> /\ Answers(h, CLOSE)
        /\ UNCHANGED <<nwindows, pktsize, got_hdr, noise>>
    BY <1>6 DEF Closed, Comes
  <2>2. /\ phase' \in [Hosts -> {"idle", "init"} \cup Open \cup Over]
        /\ \A g \in Hosts : phase'[g] \in Open => phase[g] \in Open
        /\ \A g \in Hosts : phase'[g] \notin Over => nerr'[g] < MaxErr
        /\ nerr' \in [Hosts -> 0..MaxErr]
    BY <1>6, HandshakeAssumption DEF Closed, TypeOK, Open, Over
  <2>. QED BY <2>1, <2>2, OtherStep DEF TypeOK
<1>. QED BY <1>1, <1>2, <1>3, <1>4, <1>5, <1>6 DEF Opened

\* The line's own doing.
LEMMA LineLoses ==
    ASSUME TypeOK, LearntWindow, NEW h \in Hosts, Lose(h) \/ LoseCarrier(h)
    PROVE  TypeOK' /\ LearntWindow'
<1>1. CASE Lose(h)
  <2>1. /\ line[h] # <<>> /\ Reads(h) /\ noise' \in Noises
        /\ UNCHANGED <<phase, nwindows, pktsize, nerr, got_hdr>>
    BY <1>1, NoiseFacts DEF Lose
  <2>. QED BY <2>1, OtherStep DEF TypeOK
<1>2. CASE LoseCarrier(h)
  <2>1. /\ phase[h] \notin Over /\ UNCHANGED line /\ noise' \in Noises
        /\ UNCHANGED <<nwindows, pktsize, got_hdr>>
    BY <1>2, NoiseFacts DEF LoseCarrier, Open, Over
  <2>2. /\ phase' \in [Hosts -> {"idle", "init"} \cup Open \cup Over]
        /\ \A g \in Hosts : phase'[g] \in Open => phase[g] \in Open
        /\ \A g \in Hosts : phase'[g] \notin Over => nerr'[g] < MaxErr
        /\ nerr' \in [Hosts -> 0..MaxErr]
    BY <1>2, <2>1, HandshakeAssumption DEF LoseCarrier, TypeOK, Open, Over
  <2>. QED BY <2>1, <2>2, OtherStep DEF TypeOK
<1>. QED BY <1>1, <1>2

\* The state of the handshake is typed and LearntWindow holds, always.
THEOREM HandshakeInvariant == Spec => [](TypeOK /\ LearntWindow)
<1>1. Init => TypeOK /\ LearntWindow
  <2>. SUFFICES ASSUME Init PROVE TypeOK /\ LearntWindow
    OBVIOUS
  <2>1. TypeOK
    <3>1. noise \in Noises BY HandshakeAssumption DEF Init, Noises
    <3>. QED BY <3>1, HandshakeAssumption
             DEF Init, TypeOK, Open, Over, Sizes, PKTSIZE
  <2>2. LearntWindow BY DEF Init, LearntWindow, Open
  <2>. QED BY <2>1, <2>2
<1>2. TypeOK /\ LearntWindow /\ [Next]_vars => TypeOK' /\ LearntWindow'
  <2>. SUFFICES ASSUME TypeOK, LearntWindow, [Next]_vars
       PROVE  TypeOK' /\ LearntWindow'
    OBVIOUS
  <2>1. ASSUME NEW h \in Hosts,
               Opening(h) \/ Opened(h) \/ Lose(h) \/ LoseCarrier(h)
        PROVE  TypeOK' /\ LearntWindow'
    BY <2>1, GotINITAStep, GotINITBStep, GotINITCStep, OpeningStep,
       OpenedStep, LineLoses DEF Opening
  <2>2. CASE UNCHANGED vars
    BY <2>2 DEF vars, TypeOK, LearntWindow, PacketOK, Window
  <2>. QED BY <2>1, <2>2 DEF Next, Terminating
<1>. QED BY <1>1, <1>2, PTL DEF Spec

\* When both ends are open they use the same window.
THEOREM WindowAgreedHolds == Spec => []WindowAgreed
<1>1. LearntWindow => WindowAgreed
  BY DEF LearntWindow, WindowAgreed, BothOpen, Window
<1>. QED BY <1>1, HandshakeInvariant, PTL
-----------------------------------------------------------------------------
(***************************************************************************)
(* The t protocol: the inductive invariant.                                *)
(*                                                                         *)
(* What is on its way to the receiver is a piece of the sequence of all    *)
(* lengths and packets, described token by token: after a length come the  *)
(* bytes of its packet and after them the next length (StreamWhole).  It   *)
(* begins where the receiver goes on (StreamFront) and ends where the      *)
(* sender does (StreamBack).  All of it holds until a length has timed     *)
(* out.                                                                    *)
(***************************************************************************)
TSends   == tpc[Sender]
TGets    == tpc[Receiver]
TStream  == way[Receiver]
TReplies == way[Sender]

SenderPlaces   == {"say_S", "hear_SY", "next", "send_length", "send_bytes",
                   "hear_CY", "done", "over"}
ReceiverPlaces == {"hear_S", "say_SY", "get_length", "get_bytes", "say_CY", "done", "over"}
TTokens == [kind : {"length", "byte"}, n : Nat, of : Nat] \cup [kind : {"char", "nul"}]

LengthOf(k)  == [kind |-> "length", n |-> Len(given[k]), of |-> k]
ByteOf(k, i) == [kind |-> "byte", n |-> i, of |-> k]

TTypes ==
    /\ tpc \in [Both -> SenderPlaces \cup ReceiverPlaces]
    /\ TSends \in SenderPlaces /\ TGets \in ReceiverPlaces
    /\ way \in [Both -> Seq(TTokens)]
    /\ given \in Seq(Seq(TTokens)) /\ taken \in Seq(Seq(TTokens))
    /\ todo \in [Both -> Seq(TTokens) \cup Seq(Nat)]
    /\ todo[Sender] \in Seq(TTokens) /\ todo[Receiver] \in Seq(Nat)

\* An empty packet is the last one.
PacketsOk ==
    /\ \A k \in DOMAIN given :
          /\ given[k] = Bytes(k, Len(given[k])) /\ Len(given[k]) <= PktSize
          /\ k < Len(given) => Len(given[k]) > 0
          /\ Len(given[k]) = 0 => TSends \notin {"say_S", "hear_SY", "next"}
    /\ TSends \in {"send_length", "send_bytes"} =>
          given # <<>> /\ todo[Sender] = given[Len(given)]
    /\ TSends \in {"say_S", "hear_SY"} => given = <<>>

TakenOk == /\ Len(taken) <= Len(given)
           /\ \A i \in DOMAIN taken : taken[i] = given[i]

\* A message or the end of one: nothing comes after its NUL.
MessageRest(s) ==
    \A i \in DOMAIN s : s[i].kind \in {"char", "nul"} /\ (s[i].kind = "nul" => i = Len(s))

\* All of the file is there.
WholeFile     == taken = given /\ given # <<>> /\ Len(given[Len(given)]) = 0
FileConfirmed == WholeFile /\ TGets \in {"done", "over"}

TPhases ==
    /\ TSends = "say_S" => TStream = <<>> /\ TReplies = <<>> /\ TGets \in {"hear_S", "over"}
    /\ TSends = "hear_SY" => MessageRest(TReplies)
    /\ TSends \in {"next", "send_length", "send_bytes", "hear_CY"} =>
          TReplies = <<>> \/ FileConfirmed
    /\ TSends = "done" => FileConfirmed
    /\ TGets = "hear_S" => /\ TSends \in {"say_S", "hear_SY", "over"} /\ MessageRest(TStream)
                           /\ TReplies = <<>> /\ given = <<>>
    /\ TGets = "say_SY" => /\ TSends \in {"hear_SY", "over"} /\ TStream = <<>>
                           /\ TReplies = <<>> /\ given = <<>>
    /\ TGets \in {"say_CY", "done"} => WholeFile

\* The token at i is a length: its packet's bytes follow, and the next length.
PieceAt(i, k, n) ==
    /\ k \in DOMAIN given /\ TStream[i] = LengthOf(k)
    /\ \A d \in 1..n : i + d <= Len(TStream) => TStream[i + d] = ByteOf(k, d)
    /\ i + n + 1 <= Len(TStream) => TStream[i + n + 1] = LengthOf(k + 1)
LengthAt(i) == TStream[i].kind = "length"
PacketAt(i) == Len(given[TStream[i].of])
StreamWhole == \A i \in DOMAIN TStream :
                  LengthAt(i) => PieceAt(i, TStream[i].of, PacketAt(i))

NowAt   == Len(taken) + 1
NowLeft == Len(given[NowAt])
StreamFront ==
    /\ TGets = "get_length" => TStream = <<>> \/ TStream[1] = LengthOf(NowAt)
    /\ TGets = "get_bytes" =>
          /\ NowAt \in DOMAIN given /\ Len(todo[Receiver]) = NowLeft /\ NowLeft > 0
          /\ \A d \in 1..NowLeft : d <= Len(TStream) => TStream[d] = ByteOf(NowAt, d)
          /\ NowLeft + 1 <= Len(TStream) => TStream[NowLeft + 1] = LengthOf(NowAt + 1)

\* Between packets the last of them has been written whole.
WrittenTo == IF TSends = "send_length" THEN Len(given) - 1 ELSE Len(given)
BackWhole ==
    /\ \A i \in DOMAIN TStream : LengthAt(i) =>
          \/ i + PacketAt(i) < Len(TStream)
          \/ i + PacketAt(i) = Len(TStream) /\ TStream[i].of = WrittenTo
    /\ TGets = "get_length" => TStream # <<>> \/ Len(taken) = WrittenTo
    /\ TGets = "get_bytes" => \/ NowLeft < Len(TStream)
                              \/ NowLeft = Len(TStream) /\ NowAt = WrittenTo
\* In a packet its length is what has been written last.
BackLength ==
    /\ \A i \in DOMAIN TStream : LengthAt(i) =>
          \/ i + PacketAt(i) < Len(TStream)
          \/ i = Len(TStream) /\ TStream[i].of = Len(given)
    /\ TGets = "get_length" => TStream # <<>>
    /\ TGets = "get_bytes" => \/ NowLeft < Len(TStream)
                              \/ TStream = <<>> /\ NowAt = Len(given)
StreamBack ==
    /\ TSends \in {"hear_SY", "next", "send_length"} => BackWhole
    /\ TSends = "send_bytes" => BackLength

StreamOk == TGets \in {"get_length", "get_bytes"} => StreamWhole /\ StreamFront /\ StreamBack
TWell == TTypes /\ PacketsOk /\ TakenOk /\ TPhases /\ StreamOk
TInv  == mistimed \/ TWell

-----------------------------------------------------------------------------
\* The ends of the line are each other's peers.
LEMMA TEnds == Sender # Receiver /\ Peer(Sender) = Receiver /\ Peer(Receiver) = Sender
BY TPacketAssumption DEF Peer, Both

\* Putting a sequence behind another.
LEMMA GrownStream ==
    ASSUME NEW s \in Seq(TTokens), NEW t \in Seq(TTokens)
    PROVE  /\ s \o t \in Seq(TTokens) /\ Len(s \o t) = Len(s) + Len(t)
           /\ \A i \in 1..Len(s) : (s \o t)[i] = s[i]
           /\ \A d \in 1..Len(t) : (s \o t)[Len(s) + d] = t[d]
OBVIOUS

\* Taking the first n of a sequence, and leaving them out.
LEMMA CutStream ==
    ASSUME NEW S, NEW s \in Seq(S), NEW n \in 0..Len(s)
    PROVE  /\ SubSeq(s, 1, n) \in Seq(S) /\ Len(SubSeq(s, 1, n)) = n
           /\ \A i \in 1..n : SubSeq(s, 1, n)[i] = s[i]
           /\ SubSeq(s, n + 1, Len(s)) \in Seq(S)
           /\ Len(SubSeq(s, n + 1, Len(s))) = Len(s) - n
           /\ \A i \in 1..(Len(s) - n) : SubSeq(s, n + 1, Len(s))[i] = s[n + i]
OBVIOUS

\* A message, or its beginning if the write is cut short, has its NUL last.
LEMMA MessagesEnd ==
    ASSUME NEW b \in 1..MaxBlocks
    PROVE  /\ Message(b) \in Seq(TTokens) /\ Len(Message(b)) = 2 * b
           /\ MessageRest(Message(b))
           /\ \A n \in 0..Len(Message(b)) : MessageRest(SubSeq(Message(b), 1, n))
<1>0. b \in Nat /\ 2 * b \in Nat
  BY TPacketAssumption
<1>1. Message(b) \in [1..(2 * b) -> TTokens]
  BY DEF Message, TPACKSIZE, TTokens
<1>2. Message(b) \in Seq(TTokens) /\ Len(Message(b)) = 2 * b
  BY <1>0, <1>1, SeqDef
<1>3. \A i \in 1..(2 * b) :
         Message(b)[i].kind \in {"char", "nul"} /\ (Message(b)[i].kind = "nul" => i = 2 * b)
  BY DEF Message, TPACKSIZE
<1> DEFINE m == Message(b)
<1> HIDE DEF m
<1>4. MessageRest(m)
  <2>1. DOMAIN m = 1..(2 * b) /\ Len(m) = 2 * b
    BY <1>0, <1>1, <1>2 DEF m
  <2>2. \A i \in 1..(2 * b) : m[i].kind \in {"char", "nul"} /\ (m[i].kind = "nul" => i = 2 * b)
    BY <1>3, Zenon DEF m
  <2> QED  BY <2>1, <2>2, Zenon DEF MessageRest
<1>5. ASSUME NEW n \in 0..Len(m) PROVE MessageRest(SubSeq(m, 1, n))
  <2> DEFINE c == SubSeq(m, 1, n)
  <2>1. c \in Seq(TTokens) /\ Len(c) = n /\ \A i \in 1..n : c[i] = m[i]
    BY <1>2, <1>5, CutStream DEF m
  <2>2. n \in Nat /\ n <= 2 * b
    BY <1>0, <1>2, <1>5 DEF m
  <2> HIDE DEF c
  <2>3. DOMAIN c = 1..n
    BY <2>1, <2>2
  <2>4. \A i \in 1..n : c[i].kind \in {"char", "nul"} /\ (c[i].kind = "nul" => i = n)
    <3>1. \A i \in 1..(2 * b) : m[i].kind \in {"char", "nul"} /\ (m[i].kind = "nul" => i = 2 * b)
      BY <1>3, Zenon DEF m
    <3> QED  BY <2>1, <2>2, <1>0, <3>1
  <2>5. MessageRest(c)
    BY <2>1, <2>3, <2>4, Zenon DEF MessageRest
  <2> QED  BY <2>5 DEF c
<1> QED  BY <1>2, <1>4, <1>5 DEF m

LEMMA TBytes ==
    ASSUME NEW k \in Nat, NEW n \in 0..PktSize
    PROVE  /\ Bytes(k, n) \in Seq(TTokens) /\ Len(Bytes(k, n)) = n
           /\ \A i \in 1..n : Bytes(k, n)[i] = [kind |-> "byte", n |-> i, of |-> k]
<1>0. n \in Nat
  BY TPacketAssumption
<1>1. Bytes(k, n) \in [1..n -> TTokens]
  BY <1>0 DEF Bytes, TTokens
<1> QED  BY <1>0, <1>1, SeqDef DEF Bytes

\* Of a message less is left after a read; a NUL that is read was its end.
LEMMA MessagesShrink ==
    ASSUME NEW s \in Seq(TTokens), MessageRest(s), Len(s) >= TPACKSIZE
    PROVE  /\ MessageRest(SubSeq(s, TPACKSIZE + 1, Len(s)))
           /\ s[TPACKSIZE].kind \in {"char", "nul"}
           /\ s[TPACKSIZE].kind # "char" => SubSeq(s, TPACKSIZE + 1, Len(s)) = <<>>
<1>1. /\ SubSeq(s, 2 + 1, Len(s)) \in Seq(TTokens)
      /\ Len(SubSeq(s, 2 + 1, Len(s))) = Len(s) - 2
      /\ \A i \in 1..(Len(s) - 2) : SubSeq(s, 2 + 1, Len(s))[i] = s[2 + i]
  BY CutStream, 2 \in 0..Len(s) DEF TPACKSIZE
<1>2. \A i \in 1..Len(s) : s[i].kind \in {"char", "nul"} /\ (s[i].kind = "nul" => i = Len(s))
  BY DEF MessageRest
<1>3. MessageRest(SubSeq(s, 2 + 1, Len(s)))
  BY <1>1, <1>2 DEF MessageRest
<1>4. s[2].kind \in {"char", "nul"} /\ (s[2].kind # "char" => Len(s) = 2)
  <2>1. 2 \in 1..Len(s)
    BY DEF TPACKSIZE
  <2> QED  BY <2>1, <1>2
<1>5. Len(s) = 2 => SubSeq(s, 2 + 1, Len(s)) = <<>>
  BY <1>1
<1> QED  BY <1>3, <1>4, <1>5 DEF TPACKSIZE

\* It holds at the start.
LEMMA TStarts == TPacketInit => TInv
<1> SUFFICES ASSUME TPacketInit PROVE TWell
  BY DEF TInv
<1> USE TEnds DEF TPacketInit, Eof
<1>1. TTypes
  BY DEF TTypes, TSends, TGets, Both, SenderPlaces, ReceiverPlaces
<1>2. PacketsOk /\ TakenOk
  BY DEF PacketsOk, TakenOk, TSends, Both
<1>3. TPhases /\ StreamOk
  BY DEF TPhases, StreamOk, TSends, TGets, TStream, TReplies, Both, MessageRest
<1> QED  BY <1>1, <1>2, <1>3 DEF TWell

\* A step of the sender that writes nothing, or of anybody while the receiver
\* is not at work, leaves the stream as it is.
LEMMA StreamKept ==
    ASSUME StreamOk,
           \/ TGets' \notin {"get_length", "get_bytes"}
           \/ /\ TStream' = TStream /\ given' = given /\ taken' = taken
              /\ todo'[Receiver] = todo[Receiver] /\ TGets' = TGets
              /\ \/ TSends' = TSends
                 \/ TSends' \in {"hear_CY", "done", "over"}
                 \/ TSends = "hear_SY" /\ TSends' = "next"
    PROVE  StreamOk'
<1>1. CASE TGets' \notin {"get_length", "get_bytes"}
  BY <1>1 DEF StreamOk
<1>2. CASE TGets' \in {"get_length", "get_bytes"}
  <2>1. /\ TStream' = TStream /\ given' = given /\ taken' = taken
        /\ todo'[Receiver] = todo[Receiver] /\ TGets' = TGets
    BY <1>2
  <2>2. StreamWhole /\ StreamFront /\ StreamBack
    BY <1>2, <2>1 DEF StreamOk
  <2>3. StreamWhole'
    BY <2>1, <2>2 DEF StreamWhole, LengthAt, PacketAt, PieceAt, LengthOf, ByteOf
  <2>4. StreamFront'
    BY <2>1, <2>2 DEF StreamFront, NowAt, NowLeft, LengthOf, ByteOf
  <2>5. (BackWhole /\ WrittenTo' = WrittenTo => BackWhole') /\ (BackLength => BackLength')
    BY <2>1 DEF BackWhole, BackLength, NowAt, NowLeft, LengthAt, PacketAt
  <2>6. \/ TSends' = TSends
        \/ TSends' \in {"hear_CY", "done", "over"}
        \/ TSends = "hear_SY" /\ TSends' = "next"
    BY <1>2
  <2>7. StreamBack'
    BY <2>1, <2>2, <2>5, <2>6 DEF StreamBack, WrittenTo
  <2> QED  BY <2>3, <2>4, <2>7 DEF StreamOk
<1> QED  BY <1>1, <1>2

\* What the packets are does not change with the places of a message.
LEMMA PacketsKept ==
    ASSUME PacketsOk, TakenOk, given' = given, taken' = taken,
           \/ TSends' = TSends /\ todo'[Sender] = todo[Sender]
           \/ TSends' \in {"hear_CY", "done", "over"}
           \/ TSends = "say_S" /\ TSends' = "hear_SY"
           \/ TSends = "hear_SY" /\ TSends' = "next"
    PROVE  PacketsOk' /\ TakenOk'
<1>1. TakenOk'
  BY DEF TakenOk
<1>2. \A k \in DOMAIN given :
         /\ given'[k] = Bytes(k, Len(given'[k])) /\ Len(given'[k]) <= PktSize
         /\ k < Len(given') => Len(given'[k]) > 0
         /\ Len(given'[k]) = 0 => TSends' \notin {"say_S", "hear_SY", "next"}
  BY DEF PacketsOk
<1>3. /\ TSends' \in {"send_length", "send_bytes"} =>
            given' # <<>> /\ todo'[Sender] = given'[Len(given')]
      /\ TSends' \in {"say_S", "hear_SY"} => given' = <<>>
  BY DEF PacketsOk
<1>4. PacketsOk'
  BY <1>2, <1>3 DEF PacketsOk, Bytes
<1> QED  BY <1>1, <1>4

\* A message is written whole, or the file is over.
LEMMA MessageStep ==
    ASSUME TTypes, NEW h \in Both, NEW from, NEW to,
           twrmsg(h, from, to) \/ twrmsgLost(h, from)
    PROVE  /\ tpc[h] = from /\ tpc' = [tpc EXCEPT ![h] = tpc'[h]]
           /\ tpc'[h] \in {to, "over"}
           /\ UNCHANGED <<todo, up, given, taken, mistimed>>
           /\ \E m \in Seq(TTokens) :
                 /\ MessageRest(m) /\ way' = [way EXCEPT ![Peer(h)] = @ \o m]
<1>1. UNCHANGED <<todo, up, given, taken, mistimed>> /\ tpc[h] = from
  BY DEF twrmsg, twrmsgLost, At
<1>2. PICK place \in {to, "over"} : tpc' = [tpc EXCEPT ![h] = place]
  BY DEF twrmsg, twrmsgLost, Goto, Fails
<1>3. tpc' = [tpc EXCEPT ![h] = tpc'[h]] /\ tpc'[h] \in {to, "over"}
  BY <1>2 DEF TTypes
<1>4. \E m \in Seq(TTokens) :
         /\ MessageRest(m) /\ way' = [way EXCEPT ![Peer(h)] = @ \o m]
  <2>1. CASE twrmsgLost(h, from)
    <3>1. way' = way /\ way[Peer(h)] \in Seq(TTokens) /\ DOMAIN way = Both
      BY <2>1, TEnds DEF twrmsgLost, WriteLost, TTypes, Both
    <3>2. way[Peer(h)] \o <<>> = way[Peer(h)] /\ <<>> \in Seq(TTokens) /\ MessageRest(<<>>)
      BY <3>1 DEF MessageRest
    <3>3. way' = [way EXCEPT ![Peer(h)] = @ \o <<>>]
      BY <3>1, <3>2 DEF TTypes
    <3> QED  BY <3>2, <3>3
  <2>2. CASE twrmsg(h, from, to)
    <3>1. PICK b \in 1..MaxBlocks : Writes(h, Message(b)) \/ WriteTimeout(h, Message(b))
      BY <2>2 DEF twrmsg
    <3>2. CASE Writes(h, Message(b))
      BY <3>2, MessagesEnd DEF Writes
    <3>3. CASE WriteTimeout(h, Message(b))
      <4>1. PICK n \in 0..(Len(Message(b)) - 1) :
               way' = [way EXCEPT ![Peer(h)] = @ \o SubSeq(Message(b), 1, n)]
        BY <3>3 DEF WriteTimeout
      <4>2. Message(b) \in Seq(TTokens) /\ n \in 0..Len(Message(b))
        BY MessagesEnd
      <4>3. SubSeq(Message(b), 1, n) \in Seq(TTokens)
        BY <4>2, CutStream
      <4> QED  BY <4>1, <4>2, <4>3, MessagesEnd
    <3> QED  BY <3>1, <3>2, <3>3
  <2> QED  BY <2>1, <2>2
<1> QED  BY <1>1, <1>3, <1>4

\* A block is read, and it is the last one or not; or the file is over.
LEMMA HearStep ==
    ASSUME TTypes, NEW h \in Both, NEW from, NEW to, trdmsg(h, from, to)
    PROVE  /\ tpc[h] = from /\ tpc' = [tpc EXCEPT ![h] = tpc'[h]]
           /\ UNCHANGED <<todo, up, given, taken, mistimed>>
           /\ way' = [way EXCEPT ![h] = way'[h]] /\ way'[h] \in Seq(TTokens)
           /\ MessageRest(way[h]) => MessageRest(way'[h])
           /\ \/ tpc'[h] = to /\ way[h] # <<>> /\ (MessageRest(way[h]) => way'[h] = <<>>)
              \/ tpc'[h] = from /\ way[h] # <<>>
              \/ tpc'[h] = "over"
<1>1. UNCHANGED <<todo, up, given, taken, mistimed>> /\ tpc[h] = from
  BY DEF trdmsg, At
<1>2. way[h] \in Seq(TTokens) /\ DOMAIN way = Both /\ DOMAIN tpc = Both
  BY DEF TTypes
<1>3. CASE ReadGets(h, TPACKSIZE)
  <2> DEFINE s == way[h]
             cut == SubSeq(s, TPACKSIZE + 1, Len(s))
  <2>1. Len(s) >= TPACKSIZE /\ way' = [way EXCEPT ![h] = cut]
    BY <1>3 DEF ReadGets
  <2>2. way'[h] = cut
    BY <2>1, <1>2
  <2>3. s # <<>>
    BY <2>1, <1>2 DEF TPACKSIZE
  <2>4. cut \in Seq(TTokens)
    BY <2>1, <1>2, CutStream DEF TPACKSIZE
  <2>5. MessageRest(s) => /\ MessageRest(cut)
                          /\ s[TPACKSIZE].kind # "char" => cut = <<>>
    BY <2>1, <1>2, MessagesShrink
  <2>6. \/ s[TPACKSIZE].kind # "char" /\ Goto(h, to)
        \/ UNCHANGED tpc
        \/ Fails(h)
    BY DEF trdmsg
  <2>7. \/ s[TPACKSIZE].kind # "char" /\ tpc'[h] = to /\ tpc' = [tpc EXCEPT ![h] = to]
        \/ tpc' = tpc
        \/ tpc'[h] = "over" /\ tpc' = [tpc EXCEPT ![h] = "over"]
    BY <2>6, <1>2 DEF Goto, Fails
  <2> HIDE DEF cut, s
  <2>8. tpc' = [tpc EXCEPT ![h] = tpc'[h]]
    BY <2>7, <1>2 DEF TTypes
  <2>9. way' = [way EXCEPT ![h] = way'[h]] /\ way'[h] \in Seq(TTokens)
    BY <2>1, <2>2, <2>4
  <2>10. (MessageRest(s) => MessageRest(way'[h])) /\ s # <<>>
    BY <2>2, <2>3, <2>5
  <2>11. \/ tpc'[h] = to /\ s # <<>> /\ (MessageRest(s) => way'[h] = <<>>)
         \/ tpc'[h] = from /\ s # <<>>
         \/ tpc'[h] = "over"
    BY <2>7, <2>5, <2>2, <2>3, <1>1
  <2> QED  BY <2>8, <2>9, <2>10, <2>11, <1>1 DEF s
<1>4. CASE ~ReadGets(h, TPACKSIZE)
  <2>1. Fails(h) /\ (way' = way \/ way' = [way EXCEPT ![h] = IF h \in Os2 THEN <<>> ELSE @])
    BY <1>4 DEF trdmsg, ReadLost, ReadTimeout
  <2>2. tpc' = [tpc EXCEPT ![h] = "over"] /\ tpc'[h] = "over"
    BY <2>1, <1>2 DEF Fails, Goto
  <2>3. way'[h] \in {way[h], <<>>} /\ way' = [way EXCEPT ![h] = way'[h]]
    BY <2>1, <1>2 DEF TTypes
  <2>4. MessageRest(<<>>) /\ <<>> \in Seq(TTokens)
    BY DEF MessageRest
  <2> QED  BY <2>2, <2>3, <2>4, <1>1, <1>2
<1> QED  BY <1>3, <1>4

\* What a file with its end in it rules out.
LEMMA WholeIsOver ==
    ASSUME PacketsOk, WholeFile
    PROVE  TSends \notin {"say_S", "hear_SY", "next"}
BY DEF PacketsOk, WholeFile

\* The sender's S.
LEMMA SayS ==
    ASSUME TWell, twrmsg(Sender, "say_S", "hear_SY") \/ twrmsgLost(Sender, "say_S")
    PROVE  TWell'
<1> USE TEnds DEF TWell
<1>1. /\ TSends = "say_S" /\ todo' = todo /\ given' = given /\ taken' = taken
      /\ TSends' \in {"hear_SY", "over"} /\ tpc' = [tpc EXCEPT ![Sender] = TSends']
  BY MessageStep DEF TSends, Both
<1>2. PICK m \in Seq(TTokens) : MessageRest(m) /\ way' = [way EXCEPT ![Receiver] = @ \o m]
  BY MessageStep DEF Both
<1>3. TStream = <<>> /\ TReplies = <<>> /\ TGets \in {"hear_S", "over"} /\ given = <<>>
  BY <1>1 DEF TPhases, PacketsOk
<1>4. TGets' = TGets /\ TReplies' = TReplies
  BY <1>1, <1>2 DEF TGets, TReplies, TTypes, Both
<1>5. TStream' = m
  <2>1. TStream' = TStream \o m
    BY <1>2 DEF TStream, TTypes, Both
  <2> QED  BY <2>1, <1>3
<1>6. TTypes'
  <2>1. way' \in [Both -> Seq(TTokens)]
    BY <1>2, <1>5 DEF TTypes, TStream, Both
  <2>2. tpc' \in [Both -> SenderPlaces \cup ReceiverPlaces]
    BY <1>1 DEF TTypes, SenderPlaces, Both
  <2> QED  BY <2>1, <2>2, <1>1, <1>4 DEF TTypes, SenderPlaces
<1>7. PacketsOk' /\ TakenOk'
  BY <1>1, PacketsKept
<1>8. TPhases'
  BY <1>1, <1>2, <1>3, <1>4, <1>5 DEF TPhases, MessageRest
<1>9. StreamOk'
  BY <1>3, <1>4, StreamKept
<1> QED  BY <1>6, <1>7, <1>8, <1>9

\* The receiver's SY.
LEMMA SaySY ==
    ASSUME TWell, twrmsg(Receiver, "say_SY", "get_length") \/ twrmsgLost(Receiver, "say_SY")
    PROVE  TWell'
<1> USE TEnds DEF TWell
<1>1. /\ TGets = "say_SY" /\ todo' = todo /\ given' = given /\ taken' = taken
      /\ TGets' \in {"get_length", "over"} /\ tpc' = [tpc EXCEPT ![Receiver] = TGets']
  BY MessageStep DEF TGets, Both
<1>2. PICK m \in Seq(TTokens) : MessageRest(m) /\ way' = [way EXCEPT ![Sender] = @ \o m]
  BY MessageStep DEF Both
<1>3. TStream = <<>> /\ TReplies = <<>> /\ TSends \in {"hear_SY", "over"} /\ given = <<>>
  BY <1>1 DEF TPhases
<1>4. TSends' = TSends /\ TStream' = TStream
  BY <1>1, <1>2 DEF TSends, TStream, TTypes, Both
<1>5. TReplies' = m
  <2>1. TReplies' = TReplies \o m
    BY <1>2 DEF TReplies, TTypes, Both
  <2> QED  BY <2>1, <1>3
<1>6. TTypes'
  <2>1. way' \in [Both -> Seq(TTokens)]
    BY <1>2, <1>5 DEF TTypes, TReplies, Both
  <2>2. tpc' \in [Both -> SenderPlaces \cup ReceiverPlaces]
    BY <1>1 DEF TTypes, ReceiverPlaces, Both
  <2> QED  BY <2>1, <2>2, <1>1, <1>4 DEF TTypes, ReceiverPlaces
<1>7. PacketsOk' /\ TakenOk'
  BY <1>1, <1>4, PacketsKept
<1>8. TPhases'
  BY <1>1, <1>2, <1>3, <1>4, <1>5 DEF TPhases, MessageRest
<1>9. StreamOk'
  <2>1. Len(taken) = 0
    BY <1>3 DEF TakenOk, TTypes
  <2>2. DOMAIN TStream' = {} /\ Len(given') = 0
    BY <1>1, <1>3, <1>4
  <2>3. StreamWhole'
    BY <2>2 DEF StreamWhole
  <2>4. TGets' # "get_bytes" /\ TSends' \in {"hear_SY", "over"}
    BY <1>1, <1>3, <1>4
  <2>5. StreamFront'
    BY <2>4, <1>3, <1>4 DEF StreamFront
  <2>6. BackWhole'
    BY <2>1, <2>2, <2>4, <1>1 DEF BackWhole, WrittenTo
  <2>7. StreamBack'
    BY <2>4, <2>6 DEF StreamBack
  <2> QED  BY <2>3, <2>5, <2>7 DEF StreamOk
<1> QED  BY <1>6, <1>7, <1>8, <1>9

\* The receiver's CY.
LEMMA SayCY ==
    ASSUME TWell, twrmsg(Receiver, "say_CY", "done") \/ twrmsgLost(Receiver, "say_CY")
    PROVE  TWell'
<1> USE TEnds DEF TWell
<1>1. /\ TGets = "say_CY" /\ todo' = todo /\ given' = given /\ taken' = taken
      /\ TGets' \in {"done", "over"} /\ tpc' = [tpc EXCEPT ![Receiver] = TGets']
  BY MessageStep DEF TGets, Both
<1>2. PICK m \in Seq(TTokens) : way' = [way EXCEPT ![Sender] = @ \o m]
  BY MessageStep DEF Both
<1>3. WholeFile /\ TSends \notin {"say_S", "hear_SY", "next"}
  BY <1>1, WholeIsOver DEF TPhases
<1>4. TSends' = TSends /\ TStream' = TStream
  BY <1>1, <1>2 DEF TSends, TStream, TTypes, Both
<1>5. TReplies' = TReplies \o m
  BY <1>2 DEF TReplies, TTypes, Both
<1>6. TTypes'
  <2>0. TReplies' \in Seq(TTokens)
    BY <1>5, GrownStream DEF TReplies, TTypes, Both
  <2>1. way' \in [Both -> Seq(TTokens)]
    BY <1>2, <2>0 DEF TTypes, TReplies, Both
  <2>2. tpc' \in [Both -> SenderPlaces \cup ReceiverPlaces]
    BY <1>1 DEF TTypes, ReceiverPlaces, Both
  <2> QED  BY <2>1, <2>2, <1>1, <1>4 DEF TTypes, ReceiverPlaces
<1>7. PacketsOk' /\ TakenOk'
  BY <1>1, <1>4, PacketsKept
<1>8. TPhases'
  BY <1>1, <1>3, <1>4 DEF TPhases, FileConfirmed, WholeFile
<1>9. StreamOk'
  BY <1>1, StreamKept
<1> QED  BY <1>6, <1>7, <1>8, <1>9

\* The sender waits for SY.
LEMMA HearSY ==
    ASSUME TWell, trdmsg(Sender, "hear_SY", "next")
    PROVE  TWell'
<1> USE TEnds DEF TWell
<1>0. Sender \in Both
  BY DEF Both
<1>1. /\ TSends = "hear_SY" /\ todo' = todo /\ given' = given /\ taken' = taken
      /\ tpc' = [tpc EXCEPT ![Sender] = TSends']
      /\ way' = [way EXCEPT ![Sender] = TReplies'] /\ TReplies' \in Seq(TTokens)
      /\ MessageRest(TReplies) => MessageRest(TReplies')
      /\ \/ TSends' = "next" /\ (MessageRest(TReplies) => TReplies' = <<>>)
         \/ TSends' = "hear_SY"
         \/ TSends' = "over"
  BY <1>0, HearStep DEF TSends, TReplies
<1>2. MessageRest(TReplies)
  BY <1>1 DEF TPhases
<1>3. TGets' = TGets /\ TStream' = TStream
  BY <1>1 DEF TGets, TStream, TTypes, Both
<1>4. TTypes'
  <2>1. way' \in [Both -> Seq(TTokens)]
    BY <1>1 DEF TTypes, TReplies, Both
  <2>2. tpc' \in [Both -> SenderPlaces \cup ReceiverPlaces]
    BY <1>1 DEF TTypes, SenderPlaces, Both
  <2> QED  BY <2>1, <2>2, <1>1, <1>3 DEF TTypes, SenderPlaces
<1>5. PacketsOk' /\ TakenOk'
  BY <1>1, PacketsKept
<1>6. TReplies' = <<>> \/ TSends' # "next"
  BY <1>1, <1>2
<1>7. TGets \in {"hear_S", "say_SY"} => TReplies' = <<>> /\ TSends' # "next"
  <2>1. TGets \in {"hear_S", "say_SY"} => TReplies = <<>>
    BY DEF TPhases
  <2>2. TReplies = <<>> => TReplies' = <<>> /\ TSends' # "next"
    <3>1. CASE ReadGets(Sender, TPACKSIZE)
      BY <3>1 DEF ReadGets, TReplies, TPACKSIZE
    <3>2. CASE ~ReadGets(Sender, TPACKSIZE)
      <4>1. tpc' = [tpc EXCEPT ![Sender] = "over"]
        BY <3>2 DEF trdmsg, Fails, Goto
      <4>2. way' = way \/ way' = [way EXCEPT ![Sender] = IF Sender \in Os2 THEN <<>> ELSE @]
        BY <3>2 DEF trdmsg, ReadLost, ReadTimeout
      <4> QED  BY <4>1, <4>2 DEF TReplies, TSends, TTypes, Both
    <3> QED  BY <3>1, <3>2
  <2> QED  BY <2>1, <2>2
<1>8. TPhases'
  BY <1>1, <1>2, <1>3, <1>6, <1>7 DEF TPhases, WholeFile, FileConfirmed
<1>9. StreamOk'
  BY <1>1, <1>3, StreamKept
<1> QED  BY <1>4, <1>5, <1>8, <1>9

\* The sender waits for CY.
LEMMA HearCY ==
    ASSUME TWell, trdmsg(Sender, "hear_CY", "done")
    PROVE  TWell'
<1> USE TEnds DEF TWell
<1>0. Sender \in Both
  BY DEF Both
<1>1. /\ TSends = "hear_CY" /\ todo' = todo /\ given' = given /\ taken' = taken
      /\ tpc' = [tpc EXCEPT ![Sender] = TSends']
      /\ way' = [way EXCEPT ![Sender] = TReplies'] /\ TReplies' \in Seq(TTokens)
      /\ TSends' \in {"hear_CY", "done", "over"}
      /\ TSends' # "over" => TReplies # <<>>
  BY <1>0, HearStep DEF TSends, TReplies
<1>2. TReplies = <<>> \/ FileConfirmed
  BY <1>1 DEF TPhases
<1>3. TGets' = TGets /\ TStream' = TStream
  BY <1>1 DEF TGets, TStream, TTypes, Both
<1>4. TTypes'
  <2>1. way' \in [Both -> Seq(TTokens)]
    BY <1>1 DEF TTypes, TReplies, Both
  <2>2. tpc' \in [Both -> SenderPlaces \cup ReceiverPlaces]
    BY <1>1 DEF TTypes, SenderPlaces, Both
  <2> QED  BY <2>1, <2>2, <1>1, <1>3 DEF TTypes, SenderPlaces
<1>5. PacketsOk' /\ TakenOk'
  BY <1>1, PacketsKept
<1>6. TSends' # "over" => FileConfirmed'
  BY <1>1, <1>2, <1>3 DEF FileConfirmed, WholeFile
<1>7. TGets \notin {"hear_S", "say_SY"}
  BY <1>1 DEF TPhases
<1>8. TPhases'
  BY <1>1, <1>3, <1>6, <1>7 DEF TPhases, WholeFile
<1>9. StreamOk'
  BY <1>1, <1>3, StreamKept
<1> QED  BY <1>4, <1>5, <1>8, <1>9

\* The receiver waits for S.
LEMMA HearS ==
    ASSUME TWell, trdmsg(Receiver, "hear_S", "say_SY")
    PROVE  TWell'
<1> USE TEnds DEF TWell
<1>0. Receiver \in Both
  BY DEF Both
<1>1. /\ TGets = "hear_S" /\ todo' = todo /\ given' = given /\ taken' = taken
      /\ tpc' = [tpc EXCEPT ![Receiver] = TGets']
      /\ way' = [way EXCEPT ![Receiver] = TStream'] /\ TStream' \in Seq(TTokens)
      /\ MessageRest(TStream) => MessageRest(TStream')
      /\ \/ TGets' = "say_SY" /\ TStream # <<>> /\ (MessageRest(TStream) => TStream' = <<>>)
         \/ TGets' = "hear_S" /\ TStream # <<>>
         \/ TGets' = "over"
  BY <1>0, HearStep DEF TGets, TStream
<1>2. /\ MessageRest(TStream) /\ TReplies = <<>> /\ given = <<>>
      /\ TSends \in {"say_S", "hear_SY", "over"} /\ (TSends = "say_S" => TStream = <<>>)
  BY <1>1 DEF TPhases
<1>3. TSends' = TSends /\ TReplies' = TReplies
  BY <1>1 DEF TSends, TReplies, TTypes, Both
<1>4. TTypes'
  <2>1. way' \in [Both -> Seq(TTokens)]
    BY <1>1 DEF TTypes, TStream, Both
  <2>2. tpc' \in [Both -> SenderPlaces \cup ReceiverPlaces]
    BY <1>1 DEF TTypes, ReceiverPlaces, Both
  <2> QED  BY <2>1, <2>2, <1>1, <1>3 DEF TTypes, ReceiverPlaces
<1>5. PacketsOk' /\ TakenOk'
  BY <1>1, <1>3, PacketsKept
<1>6. TStream = <<>> => TStream' = <<>>
  <2>1. CASE ReadGets(Receiver, TPACKSIZE)
    BY <2>1 DEF ReadGets, TStream, TPACKSIZE
  <2>2. CASE ~ReadGets(Receiver, TPACKSIZE)
    <3>1. way' = way \/ way' = [way EXCEPT ![Receiver] = IF Receiver \in Os2 THEN <<>> ELSE @]
      BY <2>2 DEF trdmsg, ReadLost, ReadTimeout
    <3> QED  BY <3>1 DEF TStream, TTypes, Both
  <2> QED  BY <2>1, <2>2
<1>7. MessageRest(TReplies')
  BY <1>2, <1>3 DEF MessageRest
<1>8. TPhases'
  BY <1>1, <1>2, <1>3, <1>6, <1>7 DEF TPhases
<1>9. StreamOk'
  BY <1>1, StreamKept
<1> QED  BY <1>4, <1>5, <1>8, <1>9

\* A hangup moves nothing.
LEMMA NothingMoves == ASSUME TWell, UNCHANGED <<tpc, todo, way, given, taken>> PROVE TWell'
<1> USE DEF TWell
<1>1. tpc' = tpc /\ todo' = todo /\ way' = way /\ given' = given /\ taken' = taken
  OBVIOUS
<1>2. TSends' = TSends /\ TGets' = TGets /\ TStream' = TStream /\ TReplies' = TReplies
  BY <1>1 DEF TSends, TGets, TStream, TReplies
<1>3. TTypes'
  BY <1>1, <1>2 DEF TTypes
<1>4. PacketsOk' /\ TakenOk'
  BY <1>1, <1>2, PacketsKept
<1>5. TPhases'
  BY <1>1, <1>2 DEF TPhases, MessageRest, WholeFile, FileConfirmed
<1>6. StreamOk'
  BY <1>1, <1>2, StreamKept
<1> QED  BY <1>3, <1>4, <1>5, <1>6

\* A length on its way is that of a packet.
LEMMA LengthsGiven ==
    ASSUME StreamWhole, NEW i \in DOMAIN TStream, NEW k, TStream[i] = LengthOf(k)
    PROVE  k \in DOMAIN given /\ LengthAt(i) /\ TStream[i].of = k
<1>1. LengthAt(i) /\ TStream[i].of = k
  BY DEF LengthAt, LengthOf
<1> QED  BY <1>1 DEF StreamWhole, PieceAt

\* Another packet.
LEMMA NextKeeps == ASSUME TWell, NextPacket PROVE TWell'
<1> USE TEnds DEF TWell
<1>0. Sender \in Both /\ Receiver \in Both
  BY DEF Both
<1>1. PICK n \in 0..PktSize : todo' = [todo EXCEPT ![Sender] = Bytes(Len(given) + 1, n)]
  BY DEF NextPacket
<1> DEFINE b == Bytes(Len(given) + 1, n)
<1>2. given \in Seq(Seq(TTokens)) /\ taken \in Seq(Seq(TTokens))
  BY DEF TTypes
<1>20. /\ Len(given) \in Nat /\ DOMAIN given = 1..Len(given) /\ Len(given) + 1 \in Nat
       /\ Len(taken) \in Nat /\ DOMAIN taken = 1..Len(taken)
  BY <1>2
<1>3. b \in Seq(TTokens) /\ Len(b) = n /\ n \in Nat /\ n <= PktSize
  <2>1. n \in Nat /\ n <= PktSize
    BY TPacketAssumption
  <2>2. \A k \in Nat : Bytes(k, n) \in Seq(TTokens) /\ Len(Bytes(k, n)) = n
    BY TBytes
  <2> QED  BY <1>20, <2>1, <2>2
<1>4. /\ TSends = "next" /\ TSends' = "send_length" /\ TGets' = TGets
      /\ tpc' = [tpc EXCEPT ![Sender] = "send_length"]
      /\ way' = way /\ taken' = taken
  BY <1>0 DEF NextPacket, At, Goto, TSends, TGets, TTypes
<1>5. todo'[Sender] = b /\ todo'[Receiver] = todo[Receiver] /\ given' = Append(given, b)
      /\ todo' = [todo EXCEPT ![Sender] = b]
  BY <1>0, <1>1 DEF NextPacket, TTypes
<1>6. b = Bytes(Len(given) + 1, Len(b))
  BY <1>3
<1> HIDE DEF b
<1>7. /\ given' \in Seq(Seq(TTokens)) /\ Len(given') = Len(given) + 1
      /\ \A k \in 1..Len(given) : given'[k] = given[k]
      /\ given'[Len(given) + 1] = b
  BY <1>2, <1>3, <1>5
<1>8. TTypes'
  <2>1. todo' \in [Both -> Seq(TTokens) \cup Seq(Nat)]
    BY <1>0, <1>3, <1>5 DEF TTypes
  <2> QED  BY <2>1, <1>2, <1>3, <1>4, <1>5, <1>7, <1>0 DEF TTypes, SenderPlaces, TSends, TGets
<1>70. DOMAIN given' = 1..(Len(given) + 1)
  BY <1>7, <1>20
<1>9. PacketsOk'
  <2>1. ASSUME NEW k \in 1..Len(given)
        PROVE  /\ given[k] = Bytes(k, Len(given[k])) /\ Len(given[k]) <= PktSize
               /\ Len(given[k]) > 0
    <3>1. given[k] \in Seq(TTokens) /\ Len(given[k]) \in Nat
      BY <1>2, <2>1
    <3> QED  BY <3>1, <1>4, <1>20 DEF PacketsOk
  <2>2. ASSUME NEW k \in 1..(Len(given) + 1)
        PROVE  /\ given'[k] = Bytes(k, Len(given'[k])) /\ Len(given'[k]) <= PktSize
               /\ k < Len(given) + 1 => Len(given'[k]) > 0
    <3>1. CASE k \in 1..Len(given)
      <4>1. given'[k] = given[k]
        BY <1>7, <3>1
      <4> QED  BY <2>1, <3>1, <4>1
    <3>2. CASE k = Len(given) + 1
      BY <1>3, <1>6, <1>7, <1>20, <3>2
    <3> QED  BY <3>1, <3>2, <1>20
  <2>3. todo'[Sender] = given'[Len(given')]
    BY <1>5, <1>7
  <2>4. given' # <<>>
    BY <1>7, <1>20
  <2>5. \A k \in DOMAIN given' :
           /\ given'[k] = Bytes(k, Len(given'[k])) /\ Len(given'[k]) <= PktSize
           /\ k < Len(given') => Len(given'[k]) > 0
    BY <2>2, <1>7, <1>70
  <2> QED  BY <2>3, <2>4, <2>5, <1>4 DEF PacketsOk, Bytes
<1>10. TakenOk'
  <2>1. ASSUME NEW i \in 1..Len(taken) PROVE taken[i] = given'[i]
    <3>1. i \in 1..Len(given) /\ taken[i] = given[i]
      BY <1>20 DEF TakenOk
    <3> QED  BY <3>1, <1>7
  <2>2. Len(taken) <= Len(given')
    BY <1>20, <1>7 DEF TakenOk
  <2> QED  BY <2>1, <2>2, <1>4, <1>20 DEF TakenOk
<1>11. ~WholeFile
  BY <1>4, WholeIsOver
<1>12. TReplies = <<>> /\ TGets \notin {"hear_S", "say_SY", "say_CY", "done"}
  BY <1>4, <1>11 DEF TPhases, FileConfirmed
<1>13. TPhases'
  BY <1>4, <1>12 DEF TPhases, TReplies, TGets
<1>14. StreamOk'
  <2> SUFFICES ASSUME TGets \in {"get_length", "get_bytes"} PROVE StreamOk'
    BY <1>4 DEF StreamOk
  <2>1. StreamWhole /\ StreamFront /\ BackWhole
    BY <1>4 DEF StreamOk, StreamBack
  <2>2. TStream' = TStream /\ NowAt' = NowAt
    BY <1>4 DEF TStream, NowAt
  <2>3. \A k \in DOMAIN given : k \in DOMAIN given' /\ given'[k] = given[k]
    BY <1>7, <1>20, <1>70
  <2>7. /\ DOMAIN TStream = 1..Len(TStream) /\ Len(TStream) \in Nat
        /\ \A k \in DOMAIN given : Len(given[k]) \in Nat
    <3>1. TStream \in Seq(TTokens)
      BY <1>0 DEF TStream, TTypes
    <3>2. \A k \in DOMAIN given : given[k] \in Seq(TTokens)
      BY <1>2
    <3> QED  BY <3>1, <3>2
  <2>4. StreamWhole' /\ \A i \in DOMAIN TStream : LengthAt(i) => PacketAt(i)' = PacketAt(i)
    <3> SUFFICES ASSUME NEW i \in DOMAIN TStream, LengthAt(i)
                 PROVE  PieceAt(i, TStream[i].of, PacketAt(i))' /\ PacketAt(i)' = PacketAt(i)
      BY <2>2 DEF StreamWhole, LengthAt
    <3>1. PieceAt(i, TStream[i].of, PacketAt(i))
      BY <2>1 DEF StreamWhole
    <3>2. TStream[i].of \in DOMAIN given /\ TStream'[i].of = TStream[i].of
      BY <3>1, <2>2 DEF PieceAt
    <3>3. PacketAt(i)' = PacketAt(i)
      BY <3>2, <2>2, <2>3 DEF PacketAt
    <3>4. LengthOf(TStream[i].of)' = LengthOf(TStream[i].of)
      BY <3>2, <2>3, <2>2 DEF LengthOf
    <3> DEFINE k == TStream[i].of
               m == PacketAt(i)
               j == i + m + 1
    <3>5. ASSUME j <= Len(TStream)
          PROVE  TStream'[j] = LengthOf(k + 1)'
      <4>1. TStream[j] = LengthOf(k + 1)
        BY <3>1, <3>5 DEF PieceAt
      <4>2. m \in Nat /\ i \in Nat /\ i > 0 /\ Len(TStream) \in Nat
        BY <3>2, <2>7 DEF PacketAt
      <4>3. j \in DOMAIN TStream
        BY <4>2, <3>5, <2>7
      <4>4. k + 1 \in DOMAIN given
        BY <4>1, <4>3, <2>1, LengthsGiven
      <4>5. LengthOf(k + 1)' = LengthOf(k + 1)
        BY <4>4, <2>3, <3>2 DEF LengthOf
      <4> QED  BY <4>1, <4>5, <2>2
    <3> HIDE DEF j
    <3>6. PieceAt(i, k, m)'
      BY <3>1, <3>2, <3>3, <3>4, <3>5, <2>2, <2>3 DEF PieceAt, ByteOf, j
    <3> QED  BY <3>3, <3>6
  <2>5. StreamFront'
    <3>0. NowAt \in Nat /\ NowAt' = NowAt
      BY <1>20, <2>2 DEF NowAt
    <3>1. ASSUME NEW k \in {NowAt, NowAt + 1}, NEW i \in DOMAIN TStream, TStream[i] = LengthOf(k)
          PROVE  TStream'[i] = LengthOf(k)'
      BY <3>1, <2>1, <2>2, <2>3, LengthsGiven DEF LengthOf
    <3>2. TGets' = "get_length" => TStream' = <<>> \/ TStream'[1] = LengthOf(NowAt)'
      <4>1. TStream # <<>> => 1 \in DOMAIN TStream
        BY <2>7
      <4> QED  BY <4>1, <3>0, <3>1, <2>1, <2>2, <1>4 DEF StreamFront
    <3>3. ASSUME TGets = "get_bytes"
          PROVE  /\ NowAt' \in DOMAIN given' /\ Len(todo'[Receiver]) = NowLeft'
                 /\ NowLeft' = NowLeft /\ NowLeft > 0 /\ NowLeft \in Nat
                 /\ \A d \in 1..NowLeft : d <= Len(TStream') => TStream'[d] = ByteOf(NowAt, d)'
                 /\ NowLeft + 1 <= Len(TStream') => TStream'[NowLeft + 1] = LengthOf(NowAt + 1)'
      <4>1. NowAt \in DOMAIN given /\ Len(todo[Receiver]) = NowLeft /\ NowLeft > 0
        BY <3>3, <2>1 DEF StreamFront
      <4>2. NowLeft' = NowLeft /\ NowLeft \in Nat
        BY <4>1, <2>2, <2>3, <2>7 DEF NowLeft
      <4>3. \A d \in 1..NowLeft : d <= Len(TStream') => TStream'[d] = ByteOf(NowAt, d)'
        BY <3>3, <2>1, <2>2 DEF StreamFront, ByteOf
      <4>4. ASSUME NowLeft + 1 <= Len(TStream)
            PROVE  TStream'[NowLeft + 1] = LengthOf(NowAt + 1)'
        <5>1. TStream[NowLeft + 1] = LengthOf(NowAt + 1)
          BY <4>4, <3>3, <2>1 DEF StreamFront
        <5>2. NowLeft + 1 \in DOMAIN TStream
          BY <4>2, <4>4, <2>7
        <5>3. NowAt + 1 \in DOMAIN given
          BY <5>1, <5>2, <2>1, LengthsGiven
        <5> QED  BY <5>1, <5>3, <3>0, <2>2, <2>3 DEF LengthOf
      <4> QED  BY <4>1, <4>2, <4>3, <4>4, <2>2, <2>3, <1>5
    <3> QED  BY <3>0, <3>2, <3>3, <1>4, <2>2 DEF StreamFront
  <2>6. BackWhole'
    <3>1. WrittenTo' = WrittenTo
      BY <1>4, <1>7, <1>20 DEF WrittenTo
    <3>2. TGets = "get_bytes" => NowLeft' = NowLeft
      BY <2>1, <2>2, <2>3 DEF StreamFront, NowLeft
    <3>3. \A i \in DOMAIN TStream : LengthAt(i)' = LengthAt(i)
      BY <2>2 DEF LengthAt
    <3> QED  BY <3>1, <3>2, <3>3, <2>1, <2>2, <2>4, <1>4 DEF BackWhole
  <2> QED  BY <2>4, <2>5, <2>6, <1>4 DEF StreamOk, StreamBack
<1> QED  BY <1>8, <1>9, <1>10, <1>13, <1>14

LEMMA StreamTypes ==
    ASSUME TTypes
    PROVE  /\ TStream \in Seq(TTokens) /\ DOMAIN TStream = 1..Len(TStream) /\ Len(TStream) \in Nat
           /\ given \in Seq(Seq(TTokens)) /\ DOMAIN given = 1..Len(given) /\ Len(given) \in Nat
           /\ taken \in Seq(Seq(TTokens)) /\ DOMAIN taken = 1..Len(taken) /\ Len(taken) \in Nat
           /\ \A k \in DOMAIN given : given[k] \in Seq(TTokens) /\ Len(given[k]) \in Nat
<1>1. TStream \in Seq(TTokens) /\ given \in Seq(Seq(TTokens)) /\ taken \in Seq(Seq(TTokens))
  BY DEF TStream, TTypes, Both
<1>2. \A k \in DOMAIN given : given[k] \in Seq(TTokens)
  BY <1>1
<1> QED  BY <1>1, <1>2

\* A length is written behind whole packets.
LEMMA LengthFits ==
    ASSUME TTypes, StreamOk, TGets \in {"get_length", "get_bytes"}, TSends = "send_length",
           given # <<>>, given' = given, taken' = taken, todo'[Receiver] = todo[Receiver],
           TGets' = TGets, TSends' = "send_bytes", TStream' = TStream \o <<LengthOf(Len(given))>>
    PROVE  StreamOk'
<1> DEFINE L == Len(TStream)
           K == Len(given)
           x == LengthOf(K)
<1>1. /\ DOMAIN TStream = 1..L /\ L \in Nat /\ DOMAIN given = 1..K /\ K \in Nat /\ Len(taken) \in Nat
      /\ TStream \in Seq(TTokens) /\ \A k \in DOMAIN given : Len(given[k]) \in Nat
  BY StreamTypes
<1>2. K \in DOMAIN given /\ K > 0
  BY <1>1
<1>3. x \in TTokens /\ x.kind = "length" /\ x.of = K
  BY <1>1, <1>2 DEF LengthOf, TTokens
<1>4. /\ Len(TStream') = L + 1 /\ TStream'[L + 1] = x
      /\ \A i \in 1..L : TStream'[i] = TStream[i]
      /\ DOMAIN TStream' = 1..(L + 1)
  BY <1>1, <1>3
<1>5. StreamWhole /\ StreamFront /\ BackWhole /\ WrittenTo = K - 1
  BY DEF StreamOk, StreamBack, WrittenTo
<1>6. \A k : LengthOf(k)' = LengthOf(k) /\ \A d : ByteOf(k, d)' = ByteOf(k, d)
  BY DEF LengthOf, ByteOf
<1> HIDE DEF L, K, x
<1>7. ASSUME NEW i \in 1..(L + 1), LengthAt(i)'
      PROVE  /\ PieceAt(i, TStream[i].of, PacketAt(i))'
             /\ i + PacketAt(i)' < L + 1 \/ (i = L + 1 /\ TStream'[i].of = K)
  <2>1. CASE i = L + 1
    <3>1. TStream'[i].of = K /\ TStream'[i] = LengthOf(K)
      BY <2>1, <1>3, <1>4 DEF x
    <3>2. PacketAt(i)' = Len(given[K]) /\ Len(given[K]) \in Nat
      BY <3>1, <1>1, <1>2 DEF PacketAt
    <3>3. PieceAt(i, K, Len(given[K]))'
      BY <3>1, <3>2, <2>1, <1>1, <1>2, <1>4, <1>6 DEF PieceAt, K
    <3>4. K' = K
      BY DEF K
    <3> QED  BY <3>1, <3>2, <3>3, <3>4, <2>1
  <2>2. CASE i \in 1..L
    <3>1. TStream'[i] = TStream[i] /\ LengthAt(i)
      BY <2>2, <1>4, <1>7 DEF LengthAt
    <3> DEFINE k == TStream[i].of
               n == PacketAt(i)
    <3>2. PieceAt(i, k, n) /\ (i + n < L \/ (i + n = L /\ k = K - 1))
      BY <3>1, <2>2, <1>1, <1>5 DEF StreamWhole, BackWhole, L
    <3>3. k \in DOMAIN given /\ n \in Nat /\ PacketAt(i)' = n /\ TStream'[i].of = k
      BY <3>1, <3>2, <1>1 DEF PieceAt, PacketAt
    <3>4. TStream'[i] = LengthOf(k) /\ k \in DOMAIN given'
      BY <3>1, <3>2, <3>3 DEF PieceAt
    <3>5. \A d \in 1..n : i + d <= L + 1 => TStream'[i + d] = ByteOf(k, d)
      <4>1. \A d \in 1..n : i + d \in 1..L
        BY <3>2, <3>3, <2>2, <1>1
      <4> HIDE DEF n, k
      <4>2. \A d \in 1..n : TStream[i + d] = ByteOf(k, d)
        BY <3>2, <4>1, <1>1 DEF PieceAt, L
      <4> QED  BY <4>1, <4>2, <1>4
    <3>6. ASSUME i + n + 1 <= L + 1 PROVE TStream'[i + n + 1] = LengthOf(k + 1)
      <4> HIDE DEF n, k
      <4>1. CASE i + n < L
        <5>0. i + n + 1 \in 1..L
          BY <3>3, <4>1, <2>2, <1>1 DEF n
        <5>1. TStream[i + n + 1] = LengthOf(k + 1)
          BY <3>2, <5>0 DEF PieceAt, L
        <5> QED  BY <5>0, <5>1, <1>4
      <4>2. CASE i + n = L /\ k = K - 1
        <5>1. i + n + 1 = L + 1 /\ k + 1 = K
          BY <4>2, <3>3, <1>1, <2>2
        <5> QED  BY <5>1, <1>4 DEF x
      <4> QED  BY <4>1, <4>2, <3>2
    <3> HIDE DEF n, k
    <3>7. PieceAt(i, k, n)'
      BY <3>3, <3>4, <3>5, <3>6, <1>4, <1>6 DEF PieceAt, k, n
    <3> QED  BY <3>2, <3>3, <3>7, <2>2, <1>1 DEF k, n
  <2> QED  BY <2>1, <2>2, <1>1
<1>8. NowAt' = NowAt /\ NowAt \in Nat /\ NowLeft' = NowLeft
  BY <1>1 DEF NowAt, NowLeft
<1>9. TGets = "get_length" => TStream'[1] = LengthOf(NowAt)
  <2>1. CASE TStream = <<>>
    BY <2>1, <1>1, <1>4, <1>5 DEF BackWhole, NowAt, x, L
  <2>2. CASE TStream # <<>>
    BY <2>2, <1>1, <1>4, <1>5 DEF StreamFront
  <2> QED  BY <2>1, <2>2
<1>10. ASSUME TGets = "get_bytes"
       PROVE  /\ NowAt \in DOMAIN given /\ Len(todo[Receiver]) = NowLeft /\ NowLeft > 0
              /\ NowLeft \in Nat /\ NowLeft <= L
              /\ \A d \in 1..NowLeft : TStream'[d] = ByteOf(NowAt, d)
              /\ TStream'[NowLeft + 1] = LengthOf(NowAt + 1)
  <2>1. NowAt \in DOMAIN given /\ Len(todo[Receiver]) = NowLeft /\ NowLeft > 0
    BY <1>5, <1>10 DEF StreamFront
  <2>2. NowLeft \in Nat /\ (NowLeft < L \/ (NowLeft = L /\ NowAt = K - 1))
    BY <2>1, <1>1, <1>5, <1>10 DEF BackWhole, NowLeft, L
  <2>3. \A d \in 1..NowLeft : d \in 1..L
    BY <2>2, <1>1
  <2>4. \A d \in 1..NowLeft : TStream[d] = ByteOf(NowAt, d)
    BY <2>3, <1>1, <1>5, <1>10 DEF StreamFront, L
  <2>5. TStream'[NowLeft + 1] = LengthOf(NowAt + 1)
    <3>1. CASE NowLeft < L
      <4>0. NowLeft + 1 \in 1..L /\ NowLeft + 1 <= L
        BY <3>1, <2>2, <1>1
      <4>1. TStream[NowLeft + 1] = LengthOf(NowAt + 1)
        BY <4>0, <1>5, <1>10 DEF StreamFront, L
      <4> QED  BY <4>0, <4>1, <1>4
    <3>2. CASE NowLeft = L /\ NowAt = K - 1
      <4>1. NowAt + 1 = K
        BY <3>2, <1>1
      <4> QED  BY <4>1, <3>2, <1>4 DEF x
    <3> QED  BY <3>1, <3>2, <2>2
  <2> QED  BY <2>1, <2>2, <2>3, <2>4, <2>5, <1>4, <1>1
<1>11. StreamWhole'
  BY <1>4, <1>7 DEF StreamWhole
<1>12. StreamFront'
  BY <1>6, <1>8, <1>9, <1>10 DEF StreamFront
<1>13. BackLength'
  <2>1. \A i \in DOMAIN TStream' : LengthAt(i)' =>
           \/ i + PacketAt(i)' < Len(TStream')
           \/ i = Len(TStream') /\ TStream'[i].of = Len(given')
    BY <1>4, <1>7 DEF K
  <2>2. TStream' # <<>>
    BY <1>4, <1>1
  <2>3. TGets = "get_bytes" => NowLeft' < Len(TStream')
    BY <1>8, <1>10, <1>4, <1>1
  <2> QED  BY <2>1, <2>2, <2>3 DEF BackLength
<1> QED  BY <1>11, <1>12, <1>13 DEF StreamOk, StreamBack

\* The bytes of a packet, or the first of them, are written behind its length.
LEMMA BytesFit ==
    ASSUME TTypes, StreamOk, TGets \in {"get_length", "get_bytes"}, TSends = "send_bytes",
           given # <<>>, given' = given, taken' = taken, todo'[Receiver] = todo[Receiver],
           TGets' = TGets,
           NEW m \in 0..Len(given[Len(given)]),
           TStream' \in Seq(TTokens), Len(TStream') = Len(TStream) + m,
           \A i \in 1..Len(TStream) : TStream'[i] = TStream[i],
           \A d \in 1..m : TStream'[Len(TStream) + d] = ByteOf(Len(given), d),
           \/ TSends' \in {"over", "hear_CY"}
           \/ TSends' = "next" /\ m = Len(given[Len(given)]) /\ m > 0
    PROVE  StreamOk'
<1> DEFINE L == Len(TStream)
           K == Len(given)
           N == Len(given[K])
<1>1. /\ DOMAIN TStream = 1..L /\ L \in Nat /\ DOMAIN given = 1..K /\ K \in Nat /\ Len(taken) \in Nat
      /\ TStream \in Seq(TTokens) /\ \A k \in DOMAIN given : Len(given[k]) \in Nat
  BY StreamTypes
<1>2. K \in DOMAIN given /\ K > 0 /\ N \in Nat /\ m \in Nat /\ m <= N
  BY <1>1
<1>4. /\ Len(TStream') = L + m /\ DOMAIN TStream' = 1..(L + m)
      /\ \A i \in 1..L : TStream'[i] = TStream[i]
      /\ \A d \in 1..m : TStream'[L + d] = ByteOf(K, d)
  BY <1>1, <1>2
<1>5. StreamWhole /\ StreamFront /\ BackLength
  BY DEF StreamOk, StreamBack
<1>6. \A k : LengthOf(k)' = LengthOf(k) /\ \A d : ByteOf(k, d)' = ByteOf(k, d)
  BY DEF LengthOf, ByteOf
<1> HIDE DEF L, K, N
<1>7. ASSUME NEW i \in 1..(L + m), LengthAt(i)'
      PROVE  /\ PieceAt(i, TStream[i].of, PacketAt(i))'
             /\ i + PacketAt(i)' < L \/ (i + PacketAt(i)' = L + N /\ TStream'[i].of = K)
  <2>1. i \in 1..L
    <3>1. ASSUME NEW d \in 1..m PROVE TStream'[L + d].kind # "length"
      <4>1. TStream'[L + d] = ByteOf(K, d)
        BY <1>4
      <4>2. ByteOf(K, d).kind = "byte"
        BY DEF ByteOf
      <4> QED  BY <4>1, <4>2
    <3>2. i \notin 1..L => i - L \in 1..m /\ i = L + (i - L)
      BY <1>1, <1>2
    <3> QED  BY <3>1, <3>2, <1>7 DEF LengthAt
  <2>2. TStream'[i] = TStream[i] /\ LengthAt(i)
    BY <2>1, <1>4, <1>7 DEF LengthAt
  <2> DEFINE k == TStream[i].of
             n == PacketAt(i)
  <2>3. PieceAt(i, k, n) /\ (i + n < L \/ (i = L /\ k = K))
    BY <2>1, <2>2, <1>1, <1>5 DEF StreamWhole, BackLength, L, K
  <2>4. k \in DOMAIN given /\ n \in Nat /\ PacketAt(i)' = n /\ TStream'[i].of = k
    BY <2>2, <2>3, <1>1 DEF PieceAt, PacketAt
  <2>5. TStream'[i] = LengthOf(k) /\ k \in DOMAIN given' /\ (k = K => n = N)
    BY <2>2, <2>3, <2>4 DEF PieceAt, PacketAt, N
  <2> HIDE DEF k, n
  <2>6. ASSUME NEW d \in 1..n, i + d <= L + m PROVE TStream'[i + d] = ByteOf(k, d)
    <3>1. CASE i + n < L
      <4>1. i + d \in 1..L /\ d \in 1..n
        BY <3>1, <2>1, <2>4, <1>1
      <4>2. TStream[i + d] = ByteOf(k, d)
        <5>1. i + d <= Len(TStream)
          BY <4>1, <1>1 DEF L
        <5> QED  BY <4>1, <5>1, <2>3 DEF PieceAt
      <4> QED  BY <4>1, <4>2, <1>4
    <3>2. CASE i = L /\ k = K
      <4>1. d \in 1..m
        BY <3>2, <2>6, <2>4, <1>1, <1>2
      <4> QED  BY <4>1, <3>2, <1>4
    <3> QED  BY <3>1, <3>2, <2>3
  <2>7. ASSUME i + n + 1 <= L + m PROVE TStream'[i + n + 1] = LengthOf(k + 1)
    <3>1. i + n < L
      BY <2>3, <2>4, <2>5, <2>7, <1>1, <1>2
    <3>2. i + n + 1 \in 1..L /\ TStream[i + n + 1] = LengthOf(k + 1)
      BY <2>1, <2>3, <2>4, <3>1, <1>1 DEF PieceAt, L
    <3> QED  BY <3>2, <1>4
  <2>8. PieceAt(i, k, n)'
    BY <2>4, <2>5, <2>6, <2>7, <1>4, <1>6 DEF PieceAt, k, n
  <2>9. i + n < L \/ (i + n = L + N /\ k = K)
    BY <2>3, <2>5
  <2> QED  BY <2>4, <2>8, <2>9 DEF k, n
<1>8. NowAt' = NowAt /\ NowAt \in Nat /\ NowLeft' = NowLeft
  BY <1>1 DEF NowAt, NowLeft
<1>9. TGets = "get_length" => TStream'[1] = LengthOf(NowAt) /\ L > 0
  <2>1. TGets = "get_length" => TStream # <<>> /\ TStream[1] = LengthOf(NowAt)
    BY <1>5 DEF BackLength, StreamFront
  <2>2. TStream # <<>> => 1 \in 1..L
    BY <1>1 DEF L
  <2> QED  BY <2>1, <2>2, <1>4, <1>1
<1>10. ASSUME TGets = "get_bytes"
       PROVE  /\ NowAt \in DOMAIN given /\ Len(todo[Receiver]) = NowLeft /\ NowLeft > 0
              /\ NowLeft \in Nat
              /\ NowLeft < L \/ (L = 0 /\ NowAt = K /\ NowLeft = N)
              /\ \A d \in 1..NowLeft : d <= L + m => TStream'[d] = ByteOf(NowAt, d)
              /\ NowLeft + 1 <= L + m => TStream'[NowLeft + 1] = LengthOf(NowAt + 1)
  <2>1. NowAt \in DOMAIN given /\ Len(todo[Receiver]) = NowLeft /\ NowLeft > 0
    BY <1>5, <1>10 DEF StreamFront
  <2>2. NowLeft \in Nat /\ (NowLeft < L \/ (TStream = <<>> /\ NowAt = K))
    BY <2>1, <1>1, <1>5, <1>10 DEF BackLength, NowLeft, L, K
  <2>3. CASE NowLeft < L
    <3>1. \A d \in 1..NowLeft : d \in 1..L
      BY <2>2, <2>3, <1>1
    <3>2. \A d \in 1..NowLeft : TStream[d] = ByteOf(NowAt, d)
      BY <3>1, <1>1, <1>5, <1>10 DEF StreamFront, L
    <3>3. NowLeft + 1 \in 1..L /\ TStream[NowLeft + 1] = LengthOf(NowAt + 1)
      BY <2>2, <2>3, <1>1, <1>5, <1>10 DEF StreamFront, L
    <3> QED  BY <2>1, <2>2, <2>3, <3>1, <3>2, <3>3, <1>4
  <2>4. CASE TStream = <<>> /\ NowAt = K
    <3>1. L = 0 /\ NowLeft = N
      BY <2>4 DEF L, NowLeft, N
    <3>2. \A d \in 1..NowLeft : d <= L + m => d \in 1..m /\ L + d = d
      BY <3>1, <1>2, <2>2
    <3>3. ~(NowLeft + 1 <= L + m)
      BY <3>1, <1>2
    <3>4. \A d \in 1..NowLeft : d <= L + m => TStream'[d] = ByteOf(NowAt, d)
      BY <3>2, <2>4, <1>4
    <3> QED  BY <2>1, <2>2, <2>4, <3>1, <3>3, <3>4
  <2> QED  BY <2>2, <2>3, <2>4
<1>11. StreamWhole'
  BY <1>4, <1>7 DEF StreamWhole
<1>12. StreamFront'
  BY <1>4, <1>6, <1>8, <1>9, <1>10 DEF StreamFront
<1>13. ASSUME TSends' = "next" PROVE BackWhole'
  <2>1. WrittenTo' = K /\ m = N /\ m > 0
    BY <1>13 DEF WrittenTo, K, N
  <2>2. ASSUME NEW i \in DOMAIN TStream', LengthAt(i)'
        PROVE  \/ i + PacketAt(i)' < Len(TStream')
               \/ i + PacketAt(i)' = Len(TStream') /\ TStream'[i].of = WrittenTo'
    <3>1. i \in 1..(L + m)
      BY <1>4
    <3>2. i + PacketAt(i)' < L \/ (i + PacketAt(i)' = L + N /\ TStream'[i].of = K)
      BY <3>1, <2>2, <1>7
    <3>3. i + PacketAt(i)' < L => i + PacketAt(i)' < L + m
      <4>1. TStream'[i].of \in DOMAIN given' /\ i \in Nat
        BY <3>1, <2>2, <1>11, <1>1, <1>2 DEF StreamWhole, PieceAt
      <4>2. PacketAt(i)' \in Nat
        BY <4>1, <1>1 DEF PacketAt
      <4> QED  BY <4>1, <4>2, <1>1, <1>2
    <3> QED  BY <3>2, <3>3, <2>1, <1>4
  <2>3. TGets = "get_length" => TStream' # <<>>
    BY <1>9, <1>4, <1>1, <1>2
  <2>4. TGets = "get_bytes" => \/ NowLeft' < Len(TStream')
                               \/ NowLeft' = Len(TStream') /\ NowAt' = WrittenTo'
    BY <1>10, <1>8, <1>4, <1>1, <1>2, <2>1
  <2> QED  BY <2>2, <2>3, <2>4 DEF BackWhole
<1>14. StreamBack'
  BY <1>13 DEF StreamBack
<1> QED  BY <1>11, <1>12, <1>14 DEF StreamOk

\* The sender goes on from a length or from the bytes of a packet.
LEMMA SenderMoves ==
    ASSUME TWell, TSends \in {"send_length", "send_bytes"},
           NEW p \in {"send_bytes", "next", "hear_CY", "over"},
           p = "next" => todo[Sender] # <<>>,
           tpc' = [tpc EXCEPT ![Sender] = p], UNCHANGED <<todo, given, taken>>,
           way' = [way EXCEPT ![Receiver] = TStream'], TStream' \in Seq(TTokens)
    PROVE  TTypes' /\ PacketsOk' /\ TakenOk' /\ TPhases' /\ TSends' = p /\ TGets' = TGets
<1> USE TEnds DEF TWell
<1>0. Sender \in Both /\ Receiver \in Both
  BY DEF Both
<1>1. TSends' = p /\ TGets' = TGets /\ TReplies' = TReplies
  BY <1>0 DEF TSends, TGets, TReplies, TTypes
<1>2. TTypes'
  <2>1. way' \in [Both -> Seq(TTokens)] /\ tpc' \in [Both -> SenderPlaces \cup ReceiverPlaces]
    BY <1>0 DEF TTypes, SenderPlaces
  <2> QED  BY <2>1, <1>1 DEF TTypes, SenderPlaces
<1>3. given # <<>> /\ todo[Sender] = given[Len(given)]
  BY DEF PacketsOk
<1>4. TakenOk'
  BY DEF TakenOk
<1>5. p = "next" => \A k \in DOMAIN given : Len(given[k]) # 0
  <2>1. DOMAIN given = 1..Len(given) /\ Len(given) \in Nat
    BY StreamTypes
  <2>2. \A k \in DOMAIN given : k # Len(given) => k < Len(given)
    BY <2>1
  <2>3. \A k \in DOMAIN given : k # Len(given) => Len(given[k]) # 0
    BY <2>2 DEF PacketsOk
  <2>4. given[Len(given)] \in Seq(TTokens)
    BY <1>3, <2>1, StreamTypes
  <2>5. given[Len(given)] # <<>> => Len(given[Len(given)]) # 0
    BY <2>4
  <2> QED  BY <2>3, <2>5, <1>3
<1>6. /\ \A k \in DOMAIN given : /\ given[k] = Bytes(k, Len(given[k])) /\ Len(given[k]) <= PktSize
                                 /\ (k < Len(given) => Len(given[k]) > 0)
  BY DEF PacketsOk
<1>7. PacketsOk'
  BY <1>1, <1>3, <1>5, <1>6 DEF PacketsOk, Bytes
<1>8. TGets \notin {"hear_S", "say_SY"} /\ (TReplies = <<>> \/ FileConfirmed)
  BY DEF TPhases
<1>9. TPhases'
  BY <1>1, <1>8 DEF TPhases, FileConfirmed, WholeFile
<1> QED  BY <1>1, <1>2, <1>4, <1>7, <1>9

\* The sender writes a length.
LEMMA SendLengthKeeps == ASSUME TInv, SendLength PROVE TInv'
<1> USE TEnds
<1>0. Sender \in Both /\ Receiver \in Both
  BY DEF Both
<1>1. CASE mistimed
  <2>1. mistimed' = mistimed \/ mistimed' = TRUE
    BY DEF SendLength
  <2> QED  BY <1>1, <2>1 DEF TInv
<1>2. CASE WriteTimeout(Sender, Length(Len(given), Len(todo[Sender]))) /\ mistimed' = TRUE
  BY <1>2 DEF TInv
<1>3. CASE ~mistimed /\ ~(WriteTimeout(Sender, Length(Len(given), Len(todo[Sender]))) /\ mistimed' = TRUE)
  <2>1. TWell
    BY <1>3 DEF TInv
  <2>2. /\ TSends = "send_length" /\ UNCHANGED <<todo, up, given, taken>>
        /\ \/ WriteLost /\ IF todo[Sender] = Eof THEN Sent ELSE Fails(Sender)
           \/ /\ Writes(Sender, Length(Len(given), Len(todo[Sender])))
              /\ Goto(Sender, "send_bytes")
    BY <1>3 DEF SendLength, At, TSends
  <2>3. given # <<>> /\ todo[Sender] = given[Len(given)]
    BY <2>1, <2>2 DEF TWell, PacketsOk
  <2>4. TStream \in Seq(TTokens) /\ DOMAIN way = Both /\ way \in [Both -> Seq(TTokens)]
    BY <2>1, <1>0 DEF TWell, TTypes, TStream
  <2>5. CASE WriteLost
    <3>1. \E p \in {"hear_CY", "over"} : tpc' = [tpc EXCEPT ![Sender] = p]
      BY <2>2, <2>5 DEF WriteLost, Writes, Goto, Fails, Sent
    <3>2. way' = [way EXCEPT ![Receiver] = TStream'] /\ TStream' = TStream
      BY <2>5, <2>4, <1>0 DEF WriteLost, TStream
    <3>3. PICK p \in {"hear_CY", "over"} : tpc' = [tpc EXCEPT ![Sender] = p]
      BY <3>1
    <3>4. TTypes' /\ PacketsOk' /\ TakenOk' /\ TPhases' /\ TSends' = p /\ TGets' = TGets
      BY <2>1, <2>2, <2>4, <3>2, <3>3, SenderMoves
    <3>5. StreamOk'
      BY <2>1, <2>2, <3>2, <3>4, StreamKept DEF TWell
    <3> QED  BY <3>4, <3>5 DEF TInv, TWell
  <2>6. CASE /\ Writes(Sender, Length(Len(given), Len(todo[Sender])))
             /\ Goto(Sender, "send_bytes")
    <3>1. Length(Len(given), Len(todo[Sender])) = <<LengthOf(Len(given))>>
      BY <2>3 DEF Length, LengthOf
    <3>2. TStream' = TStream \o <<LengthOf(Len(given))>>
      BY <3>1, <2>4, <2>6, <1>0 DEF Writes, TStream
    <3>3. LengthOf(Len(given)) \in TTokens
      <4>1. Len(given) \in Nat /\ Len(given) \in DOMAIN given
        BY <2>1, <2>3, StreamTypes DEF TWell
      <4>2. Len(given[Len(given)]) \in Nat
        BY <2>1, <4>1, StreamTypes DEF TWell
      <4> QED  BY <4>1, <4>2 DEF LengthOf, TTokens
    <3>4. TStream' \in Seq(TTokens)
      BY <3>2, <3>3, <2>4
    <3>5. way' = [way EXCEPT ![Receiver] = TStream']
      BY <3>1, <3>2, <2>4, <2>6, <1>0 DEF Writes, TStream
    <3>6. TTypes' /\ PacketsOk' /\ TakenOk' /\ TPhases' /\ TSends' = "send_bytes" /\ TGets' = TGets
      BY <2>1, <2>2, <2>6, <3>4, <3>5, SenderMoves DEF Goto
    <3>7. StreamOk'
      <4>1. CASE TGets \in {"get_length", "get_bytes"}
        BY <4>1, <2>1, <2>2, <2>3, <3>2, <3>6, LengthFits DEF TWell
      <4>2. CASE TGets \notin {"get_length", "get_bytes"}
        BY <4>2, <3>6 DEF StreamOk
      <4> QED  BY <4>1, <4>2
    <3> QED  BY <3>6, <3>7 DEF TInv, TWell
  <2> QED  BY <2>2, <2>5, <2>6
<1> QED  BY <1>1, <1>2, <1>3

\* The sender writes the bytes of a packet, all of them or the first.
LEMMA SendBytesKeeps == ASSUME TWell, SendBytes PROVE TWell'
<1> USE TEnds DEF TWell
<1>0. Sender \in Both /\ Receiver \in Both
  BY DEF Both
<1> DEFINE s == todo[Sender]
           K == Len(given)
<1>1. /\ TSends = "send_bytes" /\ UNCHANGED <<todo, up, given, taken, mistimed>>
      /\ \/ Writes(Sender, s) /\ Sent
         \/ (WriteLost \/ WriteTimeout(Sender, s)) /\ Fails(Sender)
  BY DEF SendBytes, At, TSends
<1>2. given # <<>> /\ s = given[K] /\ s \in Seq(TTokens)
  BY <1>1 DEF PacketsOk, TTypes
<1>3. TStream \in Seq(TTokens) /\ DOMAIN way = Both /\ way \in [Both -> Seq(TTokens)]
  BY <1>0 DEF TTypes, TStream
<1>4. K \in DOMAIN given /\ K \in Nat /\ Len(s) \in Nat /\ Len(s) <= PktSize
  <2>1. K \in DOMAIN given /\ K \in Nat
    BY <1>2, StreamTypes
  <2> QED  BY <2>1, <1>2 DEF PacketsOk
<1>5. \A d \in 1..Len(s) : s[d] = ByteOf(K, d)
  <2>1. s = Bytes(K, Len(s))
    BY <1>2, <1>4 DEF PacketsOk
  <2> QED  BY <2>1 DEF Bytes, ByteOf
<1>6. \E m \in 0..Len(s), p \in {"over", "hear_CY", "next"} :
         /\ way' = [way EXCEPT ![Receiver] = TStream \o SubSeq(s, 1, m)]
         /\ tpc' = [tpc EXCEPT ![Sender] = p]
         /\ p = "next" => m = Len(s) /\ s # <<>>
  <2>1. CASE Writes(Sender, s) /\ Sent
    <3>1. SubSeq(s, 1, Len(s)) = s
      BY <1>2
    <3>2. way' = [way EXCEPT ![Receiver] = TStream \o SubSeq(s, 1, Len(s))]
      BY <2>1, <3>1 DEF Writes, TStream
    <3>3. \/ tpc' = [tpc EXCEPT ![Sender] = "hear_CY"]
          \/ tpc' = [tpc EXCEPT ![Sender] = "next"] /\ s # <<>>
      BY <2>1 DEF Sent, Goto, Eof
    <3>4. Len(s) \in 0..Len(s)
      BY <1>4
    <3> HIDE DEF s
    <3>5. CASE tpc' = [tpc EXCEPT ![Sender] = "hear_CY"]
      <4> WITNESS Len(s) \in 0..Len(s), "hear_CY" \in {"over", "hear_CY", "next"}
      <4> QED  BY <3>2, <3>5
    <3>6. CASE tpc' = [tpc EXCEPT ![Sender] = "next"] /\ s # <<>>
      <4> WITNESS Len(s) \in 0..Len(s), "next" \in {"over", "hear_CY", "next"}
      <4> QED  BY <3>2, <3>6
    <3> QED  BY <3>3, <3>5, <3>6
  <2>2. CASE WriteTimeout(Sender, s) /\ Fails(Sender)
    <3>1. PICK m \in 0..(Len(s) - 1) : way' = [way EXCEPT ![Receiver] = TStream \o SubSeq(s, 1, m)]
      BY <2>2 DEF WriteTimeout, TStream
    <3>2. m \in 0..Len(s)
      BY <3>1, <1>4
    <3> QED  BY <3>1, <3>2, <2>2 DEF Fails, Goto
  <2>3. CASE WriteLost /\ Fails(Sender)
    <3>1. way' = way
      BY <2>3 DEF WriteLost
    <3>2. SubSeq(s, 1, 0) = <<>> /\ TStream \o <<>> = TStream
      BY <1>2, <1>3
    <3>3. way' = [way EXCEPT ![Receiver] = TStream \o SubSeq(s, 1, 0)]
      BY <3>1, <3>2, <1>3 DEF TStream
    <3>4. 0 \in 0..Len(s)
      BY <1>4
    <3> HIDE DEF s
    <3> WITNESS 0 \in 0..Len(s), "over" \in {"over", "hear_CY", "next"}
    <3> QED  BY <3>3, <2>3 DEF Fails, Goto
  <2> QED  BY <1>1, <2>1, <2>2, <2>3
<1>7. PICK m \in 0..Len(s), p \in {"over", "hear_CY", "next"} :
         /\ way' = [way EXCEPT ![Receiver] = TStream \o SubSeq(s, 1, m)]
         /\ tpc' = [tpc EXCEPT ![Sender] = p]
         /\ p = "next" => m = Len(s) /\ s # <<>>
  BY <1>6
<1> HIDE DEF s, K
<1>8. /\ SubSeq(s, 1, m) \in Seq(TTokens) /\ Len(SubSeq(s, 1, m)) = m
      /\ \A d \in 1..m : SubSeq(s, 1, m)[d] = s[d]
  BY <1>2, CutStream
<1>9. TStream' = TStream \o SubSeq(s, 1, m)
  BY <1>7, <1>0, <1>3 DEF TStream
<1>10. /\ TStream' \in Seq(TTokens) /\ Len(TStream') = Len(TStream) + m
       /\ \A i \in 1..Len(TStream) : TStream'[i] = TStream[i]
       /\ \A d \in 1..m : TStream'[Len(TStream) + d] = SubSeq(s, 1, m)[d]
  BY <1>3, <1>8, <1>9, GrownStream
<1>11. \A d \in 1..m : TStream'[Len(TStream) + d] = ByteOf(K, d)
  BY <1>4, <1>5, <1>8, <1>10
<1>12. TTypes' /\ PacketsOk' /\ TakenOk' /\ TPhases' /\ TSends' = p /\ TGets' = TGets
  BY <1>1, <1>7, <1>9, <1>10, SenderMoves DEF s
<1>13. StreamOk'
  <2>1. CASE TGets \in {"get_length", "get_bytes"}
    <3>1. p = "next" => m > 0
      BY <1>2, <1>4, <1>7
    <3>2. m \in 0..Len(given[Len(given)])
      BY <1>2 DEF K
    <3>3. \A d \in 1..m : TStream'[Len(TStream) + d] = ByteOf(Len(given), d)
      BY <1>11 DEF K
    <3> QED  BY <2>1, <3>1, <3>2, <3>3, <1>1, <1>2, <1>7, <1>10, <1>12, BytesFit DEF K
  <2>2. CASE TGets \notin {"get_length", "get_bytes"}
    BY <2>2, <1>12 DEF StreamOk
  <2> QED  BY <2>1, <2>2
<1> QED  BY <1>12, <1>13

\* The receiver reads the first n tokens: the rest is a piece still.
LEMMA StreamShrinks ==
    ASSUME TTypes, StreamWhole, given' = given, NEW n \in 0..Len(TStream),
           TStream' \in Seq(TTokens), Len(TStream') = Len(TStream) - n,
           \A i \in 1..(Len(TStream) - n) : TStream'[i] = TStream[n + i]
    PROVE  /\ StreamWhole'
           /\ \A i \in DOMAIN TStream' : LengthAt(i)' =>
                 /\ n + i \in DOMAIN TStream /\ LengthAt(n + i)
                 /\ PacketAt(i)' = PacketAt(n + i) /\ PacketAt(n + i) \in Nat
                 /\ TStream'[i].of = TStream[n + i].of
<1> DEFINE L == Len(TStream)
<1>1. /\ DOMAIN TStream = 1..L /\ L \in Nat /\ n \in Nat /\ n <= L
      /\ \A k \in DOMAIN given : Len(given[k]) \in Nat
  BY StreamTypes
<1>2. DOMAIN TStream' = 1..(L - n) /\ Len(TStream') = L - n
  BY <1>1
<1>3. \A k : LengthOf(k)' = LengthOf(k) /\ \A d : ByteOf(k, d)' = ByteOf(k, d)
  BY DEF LengthOf, ByteOf
<1>4. \A i \in 1..(L - n) : TStream'[i] = TStream[n + i] /\ n + i \in 1..L
  BY <1>1
<1> HIDE DEF L
<1>5. ASSUME NEW i \in DOMAIN TStream', LengthAt(i)'
      PROVE  /\ n + i \in DOMAIN TStream /\ LengthAt(n + i)
             /\ PacketAt(i)' = PacketAt(n + i) /\ PacketAt(n + i) \in Nat
             /\ TStream'[i].of = TStream[n + i].of
             /\ PieceAt(i, TStream[i].of, PacketAt(i))'
  <2> DEFINE j == n + i
  <2>0. PICK k, m : k = TStream[j].of /\ m = PacketAt(j)
    OBVIOUS
  <2>1. i \in 1..(L - n) /\ i \in Nat /\ TStream'[i] = TStream[j] /\ j \in 1..L
    BY <1>2, <1>4, <1>1
  <2>2. LengthAt(j) /\ TStream'[i].of = k
    BY <1>5, <2>0, <2>1 DEF LengthAt
  <2>3. PieceAt(j, k, m)
    BY <2>0, <2>1, <2>2, <1>1 DEF StreamWhole
  <2>4. k \in DOMAIN given /\ m \in Nat /\ PacketAt(i)' = m
    BY <2>0, <2>2, <2>3, <1>1 DEF PieceAt, PacketAt
  <2>5. \A x \in Nat : i + x <= L - n /\ x > 0 => TStream'[i + x] = TStream[j + x] /\ j + x <= Len(TStream)
    <3> SUFFICES ASSUME NEW x \in Nat, i + x <= L - n, x > 0
                 PROVE  TStream'[i + x] = TStream[j + x] /\ j + x <= Len(TStream)
      OBVIOUS
    <3>1. i + x \in 1..(L - n) /\ n + (i + x) = j + x /\ j + x <= L
      BY <2>1, <1>1
    <3> QED  BY <3>1, <1>4 DEF L
  <2> HIDE DEF j
  <2>6. ASSUME NEW d \in 1..m, i + d <= L - n PROVE TStream'[i + d] = ByteOf(k, d)
    <3>1. d \in Nat /\ d > 0
      BY <2>4
    <3> QED  BY <3>1, <2>3, <2>5, <2>6 DEF PieceAt
  <2>7. ASSUME i + m + 1 <= L - n PROVE TStream'[i + m + 1] = LengthOf(k + 1)
    <3>1. m + 1 \in Nat /\ m + 1 > 0 /\ i + (m + 1) = i + m + 1 /\ j + (m + 1) = j + m + 1
      <4>1. i \in Nat /\ j \in Nat /\ m \in Nat
        BY <2>1, <2>4, <1>1
      <4> QED  BY <4>1
    <3>2. TStream'[i + m + 1] = TStream[j + m + 1] /\ j + m + 1 <= Len(TStream)
      BY <3>1, <2>5, <2>7
    <3> QED  BY <3>2, <2>3 DEF PieceAt
  <2>8. TStream'[i] = LengthOf(k)
    BY <2>1, <2>3 DEF PieceAt
  <2>9. PieceAt(i, k, m)'
    BY <2>4, <2>2, <2>6, <2>7, <2>8, <1>2, <1>3 DEF PieceAt
  <2> QED  BY <2>0, <2>1, <2>2, <2>4, <2>9, <1>1 DEF j
<1>6. StreamWhole'
  BY <1>5 DEF StreamWhole
<1> QED  BY <1>5, <1>6

\* The receiver goes on, with what it has taken and what is left of the stream.
LEMMA ReceiverMoves ==
    ASSUME TWell, TGets \in {"get_length", "get_bytes"},
           NEW p \in {"get_length", "get_bytes", "say_CY", "over"}, TakenOk', p = "say_CY" => WholeFile',
           tpc' = [tpc EXCEPT ![Receiver] = p], given' = given, taken' \in Seq(Seq(TTokens)),
           todo' = [todo EXCEPT ![Receiver] = todo'[Receiver]], todo'[Receiver] \in Seq(Nat),
           way' = [way EXCEPT ![Receiver] = TStream'], TStream' \in Seq(TTokens)
    PROVE  TTypes' /\ PacketsOk' /\ TPhases' /\ TSends' = TSends /\ TGets' = p
<1> USE TEnds DEF TWell
<1>0. Sender \in Both /\ Receiver \in Both
  BY DEF Both
<1>1. TGets' = p /\ TSends' = TSends /\ TReplies' = TReplies /\ todo'[Sender] = todo[Sender]
  BY <1>0 DEF TSends, TGets, TReplies, TTypes
<1>2. TTypes'
  <2>1. way' \in [Both -> Seq(TTokens)] /\ tpc' \in [Both -> SenderPlaces \cup ReceiverPlaces]
    BY <1>0 DEF TTypes, ReceiverPlaces
  <2>2. todo' \in [Both -> Seq(TTokens) \cup Seq(Nat)]
    BY <1>0 DEF TTypes
  <2> QED  BY <2>1, <2>2, <1>1 DEF TTypes, ReceiverPlaces
<1>3. PacketsOk'
  BY <1>1 DEF PacketsOk, Bytes
<1>4. /\ TSends # "say_S" /\ TSends # "done"
      /\ TSends \in {"next", "send_length", "send_bytes", "hear_CY"} => TReplies = <<>>
      /\ TSends = "hear_SY" => MessageRest(TReplies)
  BY DEF TPhases, FileConfirmed
<1>5. TPhases'
  BY <1>1, <1>4 DEF TPhases, MessageRest
<1> QED  BY <1>1, <1>2, <1>3, <1>5

\* The receiver reads a length.
LEMMA GetLengthKeeps == ASSUME TInv, GetLength PROVE TInv'
<1> USE TEnds
<1>0. Sender \in Both /\ Receiver \in Both
  BY DEF Both
<1>1. CASE mistimed
  <2>1. mistimed' = mistimed \/ mistimed' = TRUE
    BY DEF GetLength
  <2> QED  BY <1>1, <2>1 DEF TInv
<1>2. CASE ReadTimeout(Receiver, 1) /\ mistimed' = TRUE
  BY <1>2 DEF TInv
<1>3. CASE ~mistimed /\ ReadLost /\ Fails(Receiver) /\ UNCHANGED <<todo, taken, mistimed, given>>
  <2>1. TWell /\ TGets = "get_length"
    BY <1>3 DEF TInv, GetLength, At, TGets
  <2>2. way' = way /\ tpc' = [tpc EXCEPT ![Receiver] = "over"]
    BY <1>3 DEF ReadLost, Fails, Goto
  <2>3. /\ way \in [Both -> Seq(TTokens)] /\ taken \in Seq(Seq(TTokens)) /\ todo[Receiver] \in Seq(Nat)
        /\ todo \in [Both -> Seq(TTokens) \cup Seq(Nat)]
    BY <2>1 DEF TWell, TTypes
  <2>4. TStream' \in Seq(TTokens) /\ way' = [way EXCEPT ![Receiver] = TStream']
    BY <2>2, <2>3, <1>0 DEF TStream
  <2>5. todo' = [todo EXCEPT ![Receiver] = todo'[Receiver]] /\ todo'[Receiver] \in Seq(Nat)
    BY <1>3, <2>3, <1>0
  <2>6. TakenOk'
    BY <2>1, <1>3 DEF TakenOk, TWell
  <2>7. TTypes' /\ PacketsOk' /\ TPhases' /\ TSends' = TSends /\ TGets' = "over"
    BY <2>1, <2>2, <2>3, <2>4, <2>5, <2>6, <1>3, ReceiverMoves
  <2>8. StreamOk'
    BY <2>7 DEF StreamOk
  <2> QED  BY <2>6, <2>7, <2>8 DEF TInv, TWell
<1>4. CASE /\ ~mistimed /\ ReadGets(Receiver, 1) /\ UNCHANGED <<mistimed, up, given>>
           /\ IF Head(way[Receiver]).kind = "length" THEN Announced(Head(way[Receiver]).n)
              ELSE \E n \in Anything : Announced(n)
  <2>1. TWell /\ TGets = "get_length"
    BY <1>4 DEF TInv, GetLength, At, TGets
  <2> DEFINE L == Len(TStream)
             N == Len(given[NowAt])
  <2>2. /\ TTypes /\ PacketsOk /\ TakenOk /\ TPhases /\ StreamWhole /\ StreamFront /\ StreamBack
    BY <2>1 DEF TWell, StreamOk
  <2>3. /\ TStream \in Seq(TTokens) /\ DOMAIN TStream = 1..L /\ L \in Nat /\ L >= 1
        /\ way' = [way EXCEPT ![Receiver] = SubSeq(TStream, 1 + 1, Len(TStream))]
        /\ way \in [Both -> Seq(TTokens)]
    BY <2>2, <1>4, StreamTypes DEF ReadGets, TStream, TTypes
  <2>4. /\ DOMAIN given = 1..Len(given) /\ Len(given) \in Nat /\ DOMAIN taken = 1..Len(taken)
        /\ Len(taken) \in Nat /\ taken \in Seq(Seq(TTokens))
        /\ \A k \in DOMAIN given : given[k] \in Seq(TTokens) /\ Len(given[k]) \in Nat
    BY <2>2, StreamTypes
  <2>5. 1 \in DOMAIN TStream /\ TStream # <<>> /\ Head(TStream) = TStream[1]
    BY <2>3
  <2>6. /\ TStream[1] = LengthOf(NowAt) /\ NowAt \in DOMAIN given /\ LengthAt(1)
        /\ TStream[1].of = NowAt
    BY <2>1, <2>2, <2>5, LengthsGiven DEF StreamFront
  <2>7. N \in Nat /\ N <= PktSize /\ PacketAt(1) = N /\ PieceAt(1, NowAt, N)
    BY <2>2, <2>4, <2>5, <2>6 DEF PacketsOk, PacketAt, StreamWhole
  <2>8. Announced(N)
    <3>1. Head(way[Receiver]) = LengthOf(NowAt)
      BY <2>5, <2>6 DEF TStream
    <3>2. LengthOf(NowAt).kind = "length" /\ LengthOf(NowAt).n = N
      BY DEF LengthOf
    <3> QED  BY <1>4, <3>1, <3>2
  <2>9. PktSize \in Nat /\ ~(N > PktSize)
    BY <2>7, TPacketAssumption
  <2>10. /\ todo' = [todo EXCEPT ![Receiver] = [i \in 1..N |-> i]]
         /\ N = 0 => taken' = Append(taken, <<>>) /\ tpc' = [tpc EXCEPT ![Receiver] = "say_CY"]
         /\ N # 0 => taken' = taken /\ tpc' = [tpc EXCEPT ![Receiver] = "get_bytes"]
    BY <2>8, <2>9 DEF Announced, Goto, Eof
  <2>11. /\ todo' = [todo EXCEPT ![Receiver] = todo'[Receiver]] /\ todo'[Receiver] \in Seq(Nat)
         /\ Len(todo'[Receiver]) = N
    <3>1. [i \in 1..N |-> i] \in Seq(Nat) /\ Len([i \in 1..N |-> i]) = N
      <4>1. [i \in 1..N |-> i] \in [1..N -> Nat]
        BY <2>7
      <4> QED  BY <4>1, <2>7, SeqDef
    <3>2. todo'[Receiver] = [i \in 1..N |-> i]
      BY <2>2, <2>10, <1>0 DEF TTypes
    <3> QED  BY <3>1, <3>2, <2>10
  <2>12. /\ TStream' = SubSeq(TStream, 1 + 1, Len(TStream))
         /\ way' = [way EXCEPT ![Receiver] = TStream']
    BY <2>3, <1>0 DEF TStream
  <2> HIDE DEF N
  <2>13. /\ TStream' \in Seq(TTokens) /\ Len(TStream') = L - 1
         /\ \A i \in 1..(L - 1) : TStream'[i] = TStream[1 + i]
    BY <2>3, <2>12, CutStream, 1 \in 0..Len(TStream)
  <2>16. L \in Nat /\ L >= 1 /\ Len(TStream') = L - 1 /\ DOMAIN TStream' = 1..(L - 1)
    BY <2>3, <2>13
  <2>17. L = 1 => TStream' = <<>>
    BY <2>13
  <2>14. CASE N = 0
    <3>1. NowAt = Len(given) /\ Len(given) = Len(taken) + 1 /\ given[NowAt] = <<>>
      <4>1. ~(NowAt < Len(given))
        BY <2>2, <2>6, <2>14 DEF PacketsOk, N
      <4>2. NowAt = Len(given)
        BY <4>1, <2>4, <2>6
      <4>3. given[NowAt] = <<>>
        BY <2>14, <2>4, <2>6 DEF N
      <4> QED  BY <4>2, <4>3, <2>4 DEF NowAt
    <3>2. taken' = Append(taken, <<>>) /\ tpc' = [tpc EXCEPT ![Receiver] = "say_CY"]
      BY <2>10, <2>14
    <3>3. /\ taken' \in Seq(Seq(TTokens)) /\ Len(taken') = Len(given)
          /\ \A i \in 1..Len(given) : taken'[i] = given[i]
      <4>1. <<>> \in Seq(TTokens)
        OBVIOUS
      <4>2. /\ taken' \in Seq(Seq(TTokens)) /\ Len(taken') = Len(taken) + 1
            /\ \A i \in 1..Len(taken) : taken'[i] = taken[i]
            /\ taken'[Len(taken) + 1] = <<>>
        BY <4>1, <3>2, <2>4
      <4>3. \A i \in 1..Len(taken) : taken[i] = given[i]
        BY <2>2, <2>4 DEF TakenOk
      <4>4. \A i \in 1..Len(given) : i \in 1..Len(taken) \/ i = Len(taken) + 1
        BY <3>1, <2>4
      <4>5. given[Len(taken) + 1] = <<>>
        BY <3>1
      <4>6. \A i \in 1..Len(given) : taken'[i] = given[i]
        BY <4>2, <4>3, <4>4, <4>5
      <4> QED  BY <4>2, <4>6, <3>1
    <3>4. taken' = given
      <4>1. given \in Seq(Seq(TTokens))
        BY <2>2 DEF TTypes
      <4> QED  BY <4>1, <3>3, SeqEqual
    <3>5. TakenOk' /\ WholeFile'
      BY <1>4, <2>4, <2>14, <3>1, <3>3, <3>4 DEF TakenOk, WholeFile, N
    <3>6. TTypes' /\ PacketsOk' /\ TPhases' /\ TSends' = TSends /\ TGets' = "say_CY"
      BY <1>4, <2>1, <2>11, <2>12, <2>13, <3>2, <3>3, <3>5, ReceiverMoves
    <3>7. StreamOk'
      BY <3>6 DEF StreamOk
    <3> QED  BY <3>5, <3>6, <3>7 DEF TInv, TWell
  <2>15. CASE N # 0
    <3>1. taken' = taken /\ tpc' = [tpc EXCEPT ![Receiver] = "get_bytes"] /\ given' = given
      BY <1>4, <2>10, <2>15
    <3>2. TakenOk'
      BY <3>1, <2>2 DEF TakenOk
    <3>3. TTypes' /\ PacketsOk' /\ TPhases' /\ TSends' = TSends /\ TGets' = "get_bytes"
      BY <1>4, <2>1, <2>4, <2>11, <2>12, <2>13, <3>1, <3>2, ReceiverMoves
    <3>4. 1 \in 0..Len(TStream)
      BY <2>3
    <3>5. /\ StreamWhole'
          /\ \A i \in DOMAIN TStream' : LengthAt(i)' =>
                 /\ 1 + i \in DOMAIN TStream /\ LengthAt(1 + i)
                 /\ PacketAt(i)' = PacketAt(1 + i) /\ PacketAt(1 + i) \in Nat
                 /\ TStream'[i].of = TStream[1 + i].of
      BY <2>2, <2>13, <3>1, <3>4, StreamShrinks
    <3>6. NowAt' = NowAt /\ NowLeft' = N /\ N > 0 /\ NowAt \in DOMAIN given'
      BY <3>1, <2>6, <2>7, <2>15 DEF NowAt, NowLeft, N
    <3>7. \A k : LengthOf(k)' = LengthOf(k) /\ \A d : ByteOf(k, d)' = ByteOf(k, d)
      BY <3>1 DEF LengthOf, ByteOf
    <3>8. ASSUME NEW d \in 1..N, d <= L - 1 PROVE TStream'[d] = ByteOf(NowAt, d)
      <4>1. d \in 1..(L - 1) /\ 1 + d <= Len(TStream)
        BY <3>8, <2>3, <2>7
      <4> QED  BY <4>1, <2>7, <2>13 DEF PieceAt
    <3>9. ASSUME N + 1 <= L - 1 PROVE TStream'[N + 1] = LengthOf(NowAt + 1)
      <4>1. N + 1 \in 1..(L - 1) /\ 1 + (N + 1) = 1 + N + 1 /\ 1 + N + 1 <= Len(TStream)
        BY <3>9, <2>3, <2>7
      <4>2. TStream[1 + N + 1] = LengthOf(NowAt + 1)
        BY <4>1, <2>7 DEF PieceAt
      <4> QED  BY <4>1, <4>2, <2>13
    <3>10. StreamFront'
      BY <3>3, <3>6, <3>7, <3>8, <3>9, <2>11, <2>13 DEF StreamFront
    <3>11. ASSUME BackWhole PROVE BackWhole'
      <4>1. WrittenTo' = WrittenTo
        BY <3>1, <3>3 DEF WrittenTo
      <4>2. ASSUME NEW i \in DOMAIN TStream', LengthAt(i)'
            PROVE  \/ i + PacketAt(i)' < Len(TStream')
                   \/ i + PacketAt(i)' = Len(TStream') /\ TStream'[i].of = WrittenTo'
        <5>1. /\ 1 + i \in DOMAIN TStream /\ LengthAt(1 + i)
              /\ PacketAt(i)' = PacketAt(1 + i) /\ PacketAt(1 + i) \in Nat
              /\ TStream'[i].of = TStream[1 + i].of
          BY <4>2, <3>5
        <5>2. \/ (1 + i) + PacketAt(1 + i) < L
              \/ (1 + i) + PacketAt(1 + i) = L /\ TStream[1 + i].of = WrittenTo
          BY <5>1, <3>11 DEF BackWhole
        <5>3. i \in Nat
          BY <2>16
        <5> HIDE DEF L
        <5> QED  BY <5>1, <5>2, <5>3, <4>1, <2>16
      <4>3. \/ NowLeft' < Len(TStream')
            \/ NowLeft' = Len(TStream') /\ NowAt' = WrittenTo'
        <5>1. 1 + N < L \/ (1 + N = L /\ NowAt = WrittenTo)
          BY <2>5, <2>6, <2>7, <3>11, Zenon DEF BackWhole, L
        <5> HIDE DEF L
        <5> QED  BY <5>1, <3>6, <4>1, <2>7, <2>16
      <4> QED  BY <4>2, <4>3, <3>3 DEF BackWhole
    <3>12. ASSUME BackLength PROVE BackLength'
      <4>2. ASSUME NEW i \in DOMAIN TStream', LengthAt(i)'
            PROVE  \/ i + PacketAt(i)' < Len(TStream')
                   \/ i = Len(TStream') /\ TStream'[i].of = Len(given')
        <5>1. /\ 1 + i \in DOMAIN TStream /\ LengthAt(1 + i)
              /\ PacketAt(i)' = PacketAt(1 + i) /\ PacketAt(1 + i) \in Nat
              /\ TStream'[i].of = TStream[1 + i].of
          BY <4>2, <3>5
        <5>2. \/ (1 + i) + PacketAt(1 + i) < L
              \/ 1 + i = L /\ TStream[1 + i].of = Len(given)
          BY <5>1, <3>12 DEF BackLength
        <5>3. i \in Nat
          BY <2>16
        <5> HIDE DEF L
        <5> QED  BY <5>1, <5>2, <5>3, <3>1, <2>16
      <4>3. NowLeft' < Len(TStream') \/ (TStream' = <<>> /\ NowAt' = Len(given'))
        <5>1. 1 + N < L \/ (1 = L /\ NowAt = Len(given))
          BY <2>5, <2>6, <2>7, <3>12, Zenon DEF BackLength, L
        <5> HIDE DEF L
        <5> QED  BY <5>1, <3>1, <3>6, <2>7, <2>16, <2>17
      <4> QED  BY <4>2, <4>3, <3>3 DEF BackLength
    <3>13. StreamBack'
      BY <2>2, <3>3, <3>11, <3>12 DEF StreamBack
    <3> QED  BY <3>2, <3>3, <3>5, <3>10, <3>13 DEF TInv, TWell, StreamOk
  <2> QED  BY <2>14, <2>15
<1> QED  BY <1>1, <1>2, <1>3, <1>4 DEF GetLength

\* Counting from behind the n tokens that have been read.
LEMMA ShiftedEnd ==
    ASSUME NEW n \in Nat, NEW i \in Nat, NEW q \in Nat, NEW l \in Nat
    PROVE  /\ (n + i) + q < l => i + q < l - n
           /\ (n + i) + q = l => i + q = l - n
           /\ n + i = l => i = l - n
OBVIOUS

\* The receiver reads the bytes of a packet.
LEMMA GetBytesKeeps == ASSUME TWell, GetBytes PROVE TWell'
<1> USE TEnds
<1>0. Sender \in Both /\ Receiver \in Both
  BY DEF Both
<1> DEFINE L == Len(TStream)
           N == NowLeft
<1>1. /\ TGets = "get_bytes" /\ UNCHANGED <<todo, up, given, mistimed>>
      /\ \/ /\ ReadGets(Receiver, Len(todo[Receiver])) /\ Goto(Receiver, "get_length")
            /\ taken' = Append(taken, SubSeq(way[Receiver], 1, Len(todo[Receiver])))
         \/ /\ ReadLost \/ ReadTimeout(Receiver, Len(todo[Receiver]))
            /\ Fails(Receiver) /\ taken' = taken
  BY DEF GetBytes, At, TGets
<1>2. TTypes /\ PacketsOk /\ TakenOk /\ TPhases /\ StreamWhole /\ StreamFront /\ StreamBack
  BY <1>1 DEF TWell, StreamOk
<1>3. /\ way \in [Both -> Seq(TTokens)] /\ todo[Receiver] \in Seq(Nat) /\ todo' = todo
      /\ todo \in [Both -> Seq(TTokens) \cup Seq(Nat)] /\ taken \in Seq(Seq(TTokens))
  BY <1>1, <1>2 DEF TTypes
<1>4. todo' = [todo EXCEPT ![Receiver] = todo'[Receiver]] /\ todo'[Receiver] \in Seq(Nat)
  BY <1>0, <1>3
<1>5. CASE /\ ReadLost \/ ReadTimeout(Receiver, Len(todo[Receiver]))
           /\ Fails(Receiver) /\ taken' = taken
  <2>1. tpc' = [tpc EXCEPT ![Receiver] = "over"]
    BY <1>5 DEF Fails, Goto
  <2>2. way' = [way EXCEPT ![Receiver] = TStream'] /\ TStream' \in Seq(TTokens)
    <3>1. way' = way \/ way' = [way EXCEPT ![Receiver] = IF Receiver \in Os2 THEN <<>> ELSE @]
      BY <1>5 DEF ReadLost, ReadTimeout
    <3>2. way'[Receiver] \in {way[Receiver], <<>>}
      BY <3>1, <1>0, <1>3
    <3>3. way' = [way EXCEPT ![Receiver] = way'[Receiver]]
      BY <3>1, <1>0, <1>3
    <3>4. way'[Receiver] \in Seq(TTokens)
      <4>1. way[Receiver] \in Seq(TTokens) /\ <<>> \in Seq(TTokens)
        BY <1>0, <1>3
      <4> QED  BY <3>2, <4>1
    <3> QED  BY <3>3, <3>4 DEF TStream
  <2>3. TakenOk'
    BY <1>1, <1>2, <1>5 DEF TakenOk
  <2>4. TTypes' /\ PacketsOk' /\ TPhases' /\ TSends' = TSends /\ TGets' = "over"
    BY <1>1, <1>3, <1>4, <1>5, <2>1, <2>2, <2>3, ReceiverMoves
  <2>5. StreamOk'
    BY <2>4 DEF StreamOk
  <2> QED  BY <2>3, <2>4, <2>5 DEF TWell
<1>6. CASE /\ ReadGets(Receiver, Len(todo[Receiver])) /\ Goto(Receiver, "get_length")
           /\ taken' = Append(taken, SubSeq(way[Receiver], 1, Len(todo[Receiver])))
  <2>1. /\ DOMAIN given = 1..Len(given) /\ Len(given) \in Nat /\ DOMAIN taken = 1..Len(taken)
        /\ Len(taken) \in Nat
        /\ \A k \in DOMAIN given : given[k] \in Seq(TTokens) /\ Len(given[k]) \in Nat
        /\ TStream \in Seq(TTokens) /\ DOMAIN TStream = 1..L /\ L \in Nat
    BY <1>2, StreamTypes
  <2>2. NowAt \in DOMAIN given /\ Len(todo[Receiver]) = N /\ N > 0
    BY <1>1, <1>2 DEF StreamFront
  <2>3. N \in Nat /\ N = Len(given[NowAt]) /\ N <= PktSize
    BY <1>2, <2>1, <2>2 DEF NowLeft, PacketsOk
  <2>4. L >= N /\ way' = [way EXCEPT ![Receiver] = SubSeq(TStream, N + 1, L)]
    BY <1>6, <2>2 DEF ReadGets, TStream
  <2>5. TStream' = SubSeq(TStream, N + 1, L) /\ way' = [way EXCEPT ![Receiver] = TStream']
    BY <2>4, <1>0, <1>3 DEF TStream
  <2>6. N \in 0..L
    BY <2>1, <2>3, <2>4
  <2>7. /\ TStream' \in Seq(TTokens) /\ Len(TStream') = L - N
        /\ \A i \in 1..(L - N) : TStream'[i] = TStream[N + i]
        /\ SubSeq(TStream, 1, N) \in Seq(TTokens) /\ Len(SubSeq(TStream, 1, N)) = N
        /\ \A i \in 1..N : SubSeq(TStream, 1, N)[i] = TStream[i]
    BY <2>1, <2>5, <2>6, CutStream
  <2> HIDE DEF N, L
  <2>8. DOMAIN TStream' = 1..(L - N)
    BY <2>1, <2>3, <2>4, <2>7
  <2>9. SubSeq(TStream, 1, N) = given[NowAt]
    <3>1. \A i \in 1..N : TStream[i] = ByteOf(NowAt, i)
      BY <1>1, <1>2, <2>1, <2>3, <2>4 DEF StreamFront, N, L
    <3>2. \A i \in 1..N : given[NowAt][i] = ByteOf(NowAt, i)
      <4>1. given[NowAt] = Bytes(NowAt, N)
        BY <1>2, <2>2, <2>3 DEF PacketsOk
      <4> QED  BY <4>1 DEF Bytes, ByteOf
    <3>3. \A i \in 1..N : SubSeq(TStream, 1, N)[i] = given[NowAt][i]
      BY <2>7, <3>1, <3>2
    <3>4. given[NowAt] \in Seq(TTokens) /\ Len(given[NowAt]) = N
      BY <2>1, <2>2, <2>3
    <3> QED  BY <2>7, <3>3, <3>4, SeqEqual
  <2>10. taken' = Append(taken, given[NowAt]) /\ tpc' = [tpc EXCEPT ![Receiver] = "get_length"]
    BY <1>6, <2>2, <2>9 DEF TStream, Goto
  <2>11. /\ taken' \in Seq(Seq(TTokens)) /\ Len(taken') = NowAt /\ DOMAIN taken' = 1..NowAt
         /\ \A i \in 1..Len(taken) : taken'[i] = taken[i]
         /\ taken'[NowAt] = given[NowAt] /\ NowAt = Len(taken) + 1
    BY <1>3, <2>1, <2>2, <2>10 DEF NowAt
  <2>12. TakenOk'
    <3>1. \A i \in 1..Len(taken) : taken[i] = given[i]
      BY <1>2, <2>1 DEF TakenOk
    <3>2. \A i \in 1..NowAt : taken'[i] = given[i]
      <4>1. \A i \in 1..NowAt : i \in 1..Len(taken) \/ i = NowAt
        BY <2>11, <2>1
      <4> QED  BY <4>1, <3>1, <2>11
    <3>3. NowAt <= Len(given)
      BY <2>1, <2>2
    <3> QED  BY <3>2, <3>3, <2>11, <1>1 DEF TakenOk
  <2>13. TTypes' /\ PacketsOk' /\ TPhases' /\ TSends' = TSends /\ TGets' = "get_length"
    BY <1>1, <1>4, <2>5, <2>7, <2>10, <2>11, <2>12, ReceiverMoves
  <2>14. /\ StreamWhole'
         /\ \A i \in DOMAIN TStream' : LengthAt(i)' =>
                /\ N + i \in DOMAIN TStream /\ LengthAt(N + i)
                /\ PacketAt(i)' = PacketAt(N + i) /\ PacketAt(N + i) \in Nat
                /\ TStream'[i].of = TStream[N + i].of
    BY <1>1, <1>2, <2>6, <2>7, StreamShrinks DEF L
  <2>15. NowAt' = NowAt + 1
    BY <2>11 DEF NowAt
  <2>16. TStream' = <<>> \/ TStream'[1] = LengthOf(NowAt + 1)
    <3>1. CASE L = N
      BY <3>1, <2>7, <2>1
    <3>2. CASE N < L
      <4>1. N + 1 <= L /\ 1 \in 1..(L - N)
        BY <3>2, <2>1, <2>3
      <4>2. TStream[N + 1] = LengthOf(NowAt + 1)
        BY <4>1, <1>1, <1>2 DEF StreamFront, N, L
      <4> QED  BY <4>1, <4>2, <2>7
    <3> QED  BY <3>1, <3>2, <2>1, <2>3, <2>4
  <2>17. StreamFront'
    <3>1. \A k : LengthOf(k)' = LengthOf(k)
      BY <1>1 DEF LengthOf
    <3> QED  BY <3>1, <2>13, <2>15, <2>16 DEF StreamFront
  <2>21. L \in Nat /\ N \in Nat /\ Len(TStream') = L - N
    BY <2>1, <2>3, <2>7
  <2>18. ASSUME BackWhole PROVE BackWhole'
    <3>1. WrittenTo' = WrittenTo
      BY <1>1, <2>13 DEF WrittenTo
    <3>2. ASSUME NEW i \in DOMAIN TStream', LengthAt(i)'
          PROVE  \/ i + PacketAt(i)' < Len(TStream')
                 \/ i + PacketAt(i)' = Len(TStream') /\ TStream'[i].of = WrittenTo'
      <4>1. /\ N + i \in DOMAIN TStream /\ LengthAt(N + i)
            /\ PacketAt(i)' = PacketAt(N + i) /\ PacketAt(N + i) \in Nat
            /\ TStream'[i].of = TStream[N + i].of
        BY <3>2, <2>14
      <4>2. \/ (N + i) + PacketAt(N + i) < L
            \/ (N + i) + PacketAt(N + i) = L /\ TStream[N + i].of = WrittenTo
        BY <4>1, <2>18 DEF BackWhole, L
      <4>3. i \in Nat
        BY <2>8
      <4>4. \/ i + PacketAt(N + i) < L - N
            \/ i + PacketAt(N + i) = L - N /\ TStream[N + i].of = WrittenTo
        BY <4>1, <4>2, <4>3, <2>21, ShiftedEnd
      <4> QED  BY <4>1, <4>4, <3>1, <2>21
    <3>3. TStream' # <<>> \/ Len(taken') = WrittenTo'
      <4>1. N < L \/ (N = L /\ NowAt = WrittenTo)
        BY <1>1, <2>18 DEF BackWhole, N, L
      <4>2. N < L => Len(TStream') # 0
        BY <2>1, <2>3, <2>7
      <4> QED  BY <4>1, <4>2, <3>1, <2>11
    <3> QED  BY <3>2, <3>3, <2>13 DEF BackWhole
  <2>19. ASSUME BackLength PROVE BackLength'
    <3>2. ASSUME NEW i \in DOMAIN TStream', LengthAt(i)'
          PROVE  \/ i + PacketAt(i)' < Len(TStream')
                 \/ i = Len(TStream') /\ TStream'[i].of = Len(given')
      <4>1. /\ N + i \in DOMAIN TStream /\ LengthAt(N + i)
            /\ PacketAt(i)' = PacketAt(N + i) /\ PacketAt(N + i) \in Nat
            /\ TStream'[i].of = TStream[N + i].of
        BY <3>2, <2>14
      <4>2. \/ (N + i) + PacketAt(N + i) < L
            \/ N + i = L /\ TStream[N + i].of = Len(given)
        BY <4>1, <2>19 DEF BackLength, L
      <4>3. i \in Nat
        BY <2>8
      <4>4. \/ i + PacketAt(N + i) < L - N
            \/ i = L - N /\ TStream[N + i].of = Len(given)
        BY <4>1, <4>2, <4>3, <2>21, ShiftedEnd
      <4> QED  BY <4>1, <4>4, <1>1, <2>21
    <3>3. TStream' # <<>>
      <4>1. N < L \/ TStream = <<>>
        BY <1>1, <2>19 DEF BackLength, N, L
      <4>2. TStream = <<>> => L = 0
        BY DEF L
      <4>3. Len(TStream') # 0
        BY <4>1, <4>2, <2>1, <2>2, <2>3, <2>4, <2>7 DEF N
      <4> QED  BY <4>3
    <3> QED  BY <3>2, <3>3, <2>13 DEF BackLength
  <2>20. StreamBack'
    BY <1>2, <2>13, <2>18, <2>19 DEF StreamBack
  <2> QED  BY <2>12, <2>13, <2>14, <2>17, <2>20 DEF TWell, StreamOk
<1> QED  BY <1>1, <1>5, <1>6

\* Every step keeps it.
LEMMA TSteps == TInv /\ [TPacketNext]_tVars => TInv'
<1> SUFFICES ASSUME TInv, [TPacketNext]_tVars PROVE TInv'
  OBVIOUS
<1>1. CASE SendLength
  BY <1>1, SendLengthKeeps
<1>2. CASE GetLength
  BY <1>2, GetLengthKeeps
<1>3. CASE ~SendLength /\ ~GetLength
  <2>1. mistimed' = mistimed
    BY <1>3 DEF TPacketNext, SenderStep, ReceiverStep, tVars, twrmsg, twrmsgLost, trdmsg,
                NextPacket, SendBytes, GetBytes, Hangs
  <2>2. CASE mistimed
    BY <2>1, <2>2 DEF TInv
  <2>3. CASE ~mistimed
    <3>1. TWell
      BY <2>3 DEF TInv
    <3> SUFFICES TWell'
      BY DEF TInv
    <3>2. CASE UNCHANGED tVars
      BY <3>1, <3>2, NothingMoves DEF tVars
    <3>3. CASE twrmsg(Sender, "say_S", "hear_SY") \/ twrmsgLost(Sender, "say_S")
      BY <3>1, <3>3, SayS
    <3>4. CASE trdmsg(Sender, "hear_SY", "next")
      BY <3>1, <3>4, HearSY
    <3>5. CASE NextPacket
      BY <3>1, <3>5, NextKeeps
    <3>6. CASE SendBytes
      BY <3>1, <3>6, SendBytesKeeps
    <3>7. CASE trdmsg(Sender, "hear_CY", "done")
      BY <3>1, <3>7, HearCY
    <3>8. CASE trdmsg(Receiver, "hear_S", "say_SY")
      BY <3>1, <3>8, HearS
    <3>9. CASE twrmsg(Receiver, "say_SY", "get_length") \/ twrmsgLost(Receiver, "say_SY")
      BY <3>1, <3>9, SaySY
    <3>10. CASE GetBytes
      BY <3>1, <3>10, GetBytesKeeps
    <3>11. CASE twrmsg(Receiver, "say_CY", "done") \/ twrmsgLost(Receiver, "say_CY")
      BY <3>1, <3>11, SayCY
    <3>12. CASE Hangs
      BY <3>1, <3>12, NothingMoves DEF Hangs
    <3> QED
      BY <1>3, <3>2, <3>3, <3>4, <3>5, <3>6, <3>7, <3>8, <3>9, <3>10, <3>11, <3>12
         DEF TPacketNext, SenderStep, ReceiverStep
  <2> QED  BY <2>2, <2>3
<1> QED  BY <1>1, <1>2, <1>3

THEOREM TPacketInvariant == TPacketSpec => []TInv
<1> QED  BY TStarts, TSteps, PTL DEF TPacketSpec

\* As long as no length is late in being read or written, what the receiver
\* hands over is what was given to the sender, packet for packet and in
\* order, however the line hangs up and whatever times out besides; and a
\* sender that hears its file confirmed has had all of it taken (tsendpkt,
\* tgetpkt, teofpkt).
THEOREM TPacketIsALink == TPacketSpec => []TLink
<1>1. TInv => TLink
  <2> SUFFICES ASSUME TWell PROVE PacketByPacket /\ Confirmed
    BY DEF TInv, TLink
  <2>1. PacketByPacket
    <3>1. /\ taken \in Seq(Seq(TTokens)) /\ given \in Seq(Seq(TTokens))
          /\ Len(taken) \in Nat /\ DOMAIN taken = 1..Len(taken) /\ Len(taken) <= Len(given)
          /\ \A i \in DOMAIN taken : taken[i] = given[i]
      BY StreamTypes DEF TWell, TakenOk
    <3>2. Len(taken) \in 0..Len(taken) /\ Len(taken) \in 0..Len(given)
      BY <3>1
    <3>3. /\ SubSeq(taken, 1, Len(taken)) \in Seq(Seq(TTokens))
          /\ Len(SubSeq(taken, 1, Len(taken))) = Len(taken)
          /\ \A i \in 1..Len(taken) : SubSeq(taken, 1, Len(taken))[i] = taken[i]
      BY <3>1, <3>2, CutStream
    <3>4. /\ SubSeq(given, 1, Len(taken)) \in Seq(Seq(TTokens))
          /\ Len(SubSeq(given, 1, Len(taken))) = Len(taken)
          /\ \A i \in 1..Len(taken) : SubSeq(given, 1, Len(taken))[i] = given[i]
      BY <3>1, <3>2, CutStream
    <3>5. SubSeq(taken, 1, Len(taken)) = SubSeq(given, 1, Len(taken))
      BY <3>1, <3>3, <3>4, SeqEqual
    <3> QED  BY <3>1, <3>5 DEF PacketByPacket, IsPrefix
  <2>2. Confirmed
    BY DEF TWell, TPhases, TSends, FileConfirmed, WholeFile, Confirmed, At
  <2> QED  BY <2>1, <2>2
<1> QED  BY <1>1, TPacketInvariant, PTL
=============================================================================
