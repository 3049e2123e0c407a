----------------------------- MODULE MCPrograms -----------------------------
(***************************************************************************)
(* The programs around a call, each in behaviours of its own: `which` says *)
(* whose steps are taken.                                                  *)
(*   two:    Status.tla with two uucico processes, which make a call each  *)
(*   reset:  Status.tla with a uucico process, which makes two calls, and  *)
(*           a uusub                                                       *)
(*   uustat: Ustat.tla with three hosts, one named like the start of       *)
(*           another                                                       *)
(*   names:  Names.tla with the program's own character set and lengths    *)
(*   telnet: Telnet.tla                                                    *)
(***************************************************************************)
EXTENDS Status, Ustat, Telnet

CONSTANTS
    c1, c2, r1, s1,
    \* of Names.tla
    HostLen, NameLen, ExtLen, MaxDigits, UnixStart, UnixEnd, DosChars,
    Nodes, Remotes, Tails, Starts, Letters, MaxMore, MaxMade

VARIABLES node, remote, made, dir, typed, more, which

N == INSTANCE Names

ASSUME N!NamesAssumption

namesVars == <<node, remote, made, dir, typed, more>>
allVars == <<vars, usVars, namesVars, tnVars, which>>

\* Front ends a program after one call, as an aborted call does: Talk sets last.
NoStatus == Init /\ \A x \in Procs : ~p[x].last
NoUstat  == /\ UsInit /\ calls = CHOOSE J \in Queues : TRUE
            /\ cmd = CHOOSE c \in Commands : TRUE
NoNames  == /\ node = <<>> /\ remote = <<>> /\ typed = <<>>
            /\ made = {} /\ dir = <<>> /\ more = 0

MCInit ==
    /\ TnInit
    /\ \/ which \in {"two", "reset"} /\ NoStatus /\ NoUstat /\ NoNames
       \/ which = "uustat" /\ NoStatus /\ UsInit /\ NoNames
       \/ which = "names" /\ NoStatus /\ NoUstat /\ N!Init
       \/ which = "telnet" /\ NoStatus /\ NoUstat /\ NoNames

\* Not all processes of Status.tla run in one behaviour.
Two   == Next /\ p'[r1] = p[r1] /\ \A x \in Callers : p'[x].calls <= 1
Again == Next /\ \E x \in Callers : \A y \in Callers \ {x} : p'[y].at = "load"

MCNext ==
    /\ UNCHANGED which
    /\ \/ /\ \/ which = "two" /\ Two
             \/ which = "reset" /\ Again
          /\ UNCHANGED <<usVars, namesVars, tnVars>>
       \/ /\ which = "uustat" /\ UsNext
          /\ UNCHANGED <<vars, namesVars, tnVars>>
       \/ /\ which = "names" /\ N!Next
          /\ UNCHANGED <<vars, usVars, tnVars>>
       \/ /\ which = "telnet" /\ TnNext
          /\ UNCHANGED <<vars, usVars, namesVars>>

MCSpec == MCInit /\ [][MCNext]_allVars

NamesSafe == which = "names" => N!NamesSafe

TwoCallers  == {c1, c2}
SameCallers == Permutations(TwoCallers)   \* no definition tells them apart
OneResetter == {r1}
OneSystem   == {s1}

special == {"IAC", "CR", "NUL"}
mcData == {<<a>> : a \in special} \cup {<<a, b>> : a, b \in special}
mcAsks == {<<"IAC">>, <<"CR">>, <<"NUL">>, <<"GA">>, <<"DO", "opt">>}

mcHosts == <<"kre", "bob", "kremvax">>
mcJobs == {"k1", "b1", "kre0", "bob0", "vax0"}
mcHostOf == [k1 |-> "kremvax", b1 |-> "bob",
             kre0 |-> "kre", bob0 |-> "bob", vax0 |-> "kremvax"]
mcUserOf == [j \in mcJobs |-> IF j = "b1" THEN "you" ELSE "me"]
mcKindOf == [k1 |-> "command", b1 |-> "straight",
             kre0 |-> "poll", bob0 |-> "poll", vax0 |-> "poll"]
mcStartsWith == [kre |-> {"kre", "kremvax"}, bob |-> {"bob"},
                 kremvax |-> {"kremvax"}]
mcQueues == {{"k1", "b1", "kre0", "vax0"}, {"k1", "bob0"}}
mcCommands ==
    [op : {"list"}, kill : BOOLEAN, user : {"Absent", "All"},
     system : {"Absent"}, job : {"Absent"}]
    \cup [op : {"list"}, kill : {TRUE}, user : {"Absent"},
          system : {"kremvax"}, job : {"Absent"}]
    \cup [op : {"kill", "refresh"}, kill : {FALSE}, user : {"Absent"},
          system : {"Absent"}, job : {"k1"}]
    \cup [op : {"poll"}, kill : {FALSE}, user : {"Absent"},
          system : {"All", "bob"}, job : {"Absent"}]

\* "!#$&()-0123456789@^_`abc...xyz{}~"
mcDos == <<33, 35, 36, 38, 40, 41, 45>> \o [i \in 1..10 |-> 47 + i]
           \o <<64, 94, 95, 96>> \o [i \in 1..26 |-> 96 + i] \o <<123, 125, 126>>

lower_a == 97
kremvax == <<107, 114, 101, 109, 118, 97, 120>>
mcNodes   == {kremvax, <<107, 114>>, <<lower_a>>, kremvax \o <<50>>}
mcRemotes == {kremvax \o <<49>>, <<107, 114, 101>>, <<98, 98>>}
\* N0001, N0z#1 and one that goes on like kremvax
mcTails   == {<<78, 48, 48, 48, 49>>, <<109, 122, 90, 48, 49>>, <<35, 35, 35, 35, 35>>}
mcStarts  == {[i \in 1..k |-> lower_a] : k \in {1, 5, 7, 8}} \cup {<<46>>}
\* 'b', 'B', '.', '+' (not for DOS)
mcLetters == {98, 66, 46, 43}
=============================================================================
