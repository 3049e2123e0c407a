------------------------------- MODULE MCLine --------------------------------
(***************************************************************************)
(* Line.tla and Call.tla, each in behaviours of its own: `which` says      *)
(* whose steps are taken.                                                  *)
(*                                                                         *)
(* Call has four lines for three hosts: a host with a modem of two speeds  *)
(* and two phones, the same host by a direct line, a host with one speed   *)
(* and another limit, a host whose modem is broken.  In SpeedSpec there is *)
(* one line, and a modem of two speeds.                                    *)
(***************************************************************************)
EXTENDS Line, Call, TLC

SystemsLine(h, m, phones, count, seq, longest, window, expect) ==
    [host |-> h, modem |-> m, phones |-> phones, count |-> count, seq |-> seq,
     idle |-> longest, window |-> window, script |-> expect]

mcModems == "fast"   :> [kind |-> "dial",   speeds |-> 2] @@
            "slow"   :> [kind |-> "dial",   speeds |-> 1] @@
            "DIR"    :> [kind |-> "direct", speeds |-> 1] @@
            "broken" :> [kind |-> "broken", speeds |-> 1]

mcSystems == << SystemsLine("c", "broken", 1, 1, 1, -1, FALSE, <<>>),
                SystemsLine("a", "fast",   2, 2, 1, 0,  FALSE, <<1>>),
                SystemsLine("a", "DIR",    1, 1, 1, 0,  TRUE,  <<>>),
                SystemsLine("b", "slow",   2, 2, 2, 1,  FALSE, <<1>>) >>
mcFast == << SystemsLine("a", "fast", 1, 1, 1, 0, FALSE, <<>>) >>

VARIABLE which

\* Call with one line of the systems file, and without faults.
Speed == INSTANCE Call WITH Systems <- mcFast, MaxFaults <- 0

ASSUME Speed!CallConstants

allVars == <<lineVars, vars, which>>

NoLine == /\ LineInit /\ system = CHOOSE s \in Platforms : TRUE
          /\ NoCheckCarrier = CHOOSE b \in Checks : TRUE
NoCalls == Speed!Init /\ mode = "slave"

MCInit == \/ which = "line" /\ LineInit /\ NoCalls
          \/ which = "call" /\ NoLine /\ Init

MCNext == /\ UNCHANGED which
          /\ \/ which = "line" /\ LineNext /\ UNCHANGED vars
             \/ which = "call" /\ Next /\ UNCHANGED lineVars

\* The fairness of Line and of Call, each of its own steps only.
On(w, A) == which = w /\ A
MCSpec == /\ MCInit /\ [][MCNext]_allVars
          /\ WF_lineVars(On("line", Turn)) /\ SF_lineVars(On("line", Tick))
          /\ WF_lineVars(On("line", Transmit)) /\ WF_lineVars(On("line", CallSread))
          /\ WF_vars(On("call", Steps))

SpeedInit == which = "speed" /\ NoLine /\ Speed!Init
SpeedNext == Speed!Next /\ UNCHANGED <<lineVars, which>>
SpeedSpec == SpeedInit /\ [][SpeedNext]_allVars /\ WF_vars(Speed!Steps)

\* A run of dcpmain comes to its end.
RunEnds == which = "call" => Ends
=============================================================================
