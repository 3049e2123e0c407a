-------------------------------- MODULE Call --------------------------------
(***************************************************************************)
(* uucico finds somebody to talk to: the systems file, the modem and the   *)
(* login script of a caller (dcpmain and getsystem; callup, cdial and      *)
(* direct of modem.c; sendalt and script.c), and the ring and the login    *)
(* of an answerer (callin of modem.c, login of dcplib.c).                  *)
(*                                                                         *)
(* A caller works through the lines of the systems file.  A line names a   *)
(* host, a modem, a list of phones, how many attempts may fail (0: no      *)
(* limit), how many follow one another without a wait, and how long a wait *)
(* may grow.  One attempt (cdial) makes MaxTry passes for each phone.      *)
(* When nobody has been reached by the end of the file it is read again.   *)
(*                                                                         *)
(* What the two systems say to one another once they are connected is a    *)
(* single step here.  Front (uucico behind another program) is left out.   *)
(***************************************************************************)
EXTENDS Integers, Sequences, FiniteSets

CONSTANTS
    Systems,   \* the systems file: a sequence of lines, see Lines
    Modems,    \* the dialers file: [modem -> [kind, speeds]]
    InModem,   \* E_inmodem
    MaxTry,    \* option -A
    MIN_IDLE,
    MaxLogins, \* 5 in login()
    Modes,     \* "master" (-r1), "slave" (-r0)
    MaxFaults, \* bound: failures no attempt counter counts
    MaxRings   \* bound: how often the answerer waits for a ring

(***************************************************************************)
(* kind is "dial" for a modem of the file, "direct" for DIR, TELNET and    *)
(* UUCP, and "broken" for a modem whose line of the file has an error      *)
(* after its speeds.  script holds, for every string a login script        *)
(* expects, how many alternatives it sends before it gives up.             *)
(***************************************************************************)
Lines == [host : STRING, modem : DOMAIN Modems, phones : Nat \ {0}, count : Nat,
          seq : Nat \ {0}, idle : Int, window : BOOLEAN, script : Seq(Nat)]

CallConstants ==
    /\ Systems \in Seq(Lines)
    /\ \A m \in DOMAIN Modems : /\ Modems[m].kind \in {"dial", "direct", "broken"}
                                /\ Modems[m].speeds \in Nat \ {0}
    /\ InModem \in DOMAIN Modems /\ Modes \subseteq {"master", "slave"}
    /\ MaxTry \in Nat \ {0} /\ MIN_IDLE \in Nat \ {0}
    /\ MaxFaults \in Nat /\ MaxLogins \in Nat /\ MaxRings \in Nat

ASSUME CallAssumption == CallConstants

Hosts == {Systems[i].host : i \in DOMAIN Systems}

VARIABLES
    mode, state,   \* poll_mode; m_state or s_state
    at,            \* how far callup or callin has got
    line,          \* lines of the systems file read
    cur,           \* the line of the host being called, 0 if none: hostp
    limit,         \* the line MaxFailAttempts, Seq_Attempts, Max_Idle are of
    host,          \* [host -> [status, attempts, idlewait]]
    fail_attempts, reseek, WorthTrying, AnyContacted, Aborted,
    port,          \* port_active
    speeds,        \* entries of commrate
    dial,          \* cdial's variables, and what it has tried
    field, alt,    \* login script: strings matched, alternatives sent
    failed,        \* [host -> failed attempts of this run]
    faults, rings

hostvars == <<host, failed>>
runvars  == <<line, cur, limit, reseek, AnyContacted, Aborted>>
modem    == <<speeds, dial, WorthTrying>>
script   == <<field, alt>>
vars == <<mode, state, at, runvars, hostvars, fail_attempts, port, modem, script,
          faults, rings>>

None == 0
NoCall == [irate |-> 0, frate |-> 0, trycount |-> 0, changed |-> FALSE, first |-> TRUE,
           passes |-> <<>>, busy |-> {}, why |-> "none"]

Init ==
    /\ mode \in Modes
    /\ state = "INITIALIZE" /\ at = "none"
    /\ line = 0 /\ cur = None /\ limit = None
    /\ host = [h \in Hosts |-> [status |-> "nocall", attempts |-> 0, idlewait |-> 0]]
    /\ fail_attempts = 0
    /\ reseek = FALSE /\ WorthTrying = FALSE /\ AnyContacted = FALSE /\ Aborted = FALSE
    /\ port = FALSE /\ speeds = 0 /\ dial = NoCall /\ field = 0 /\ alt = 0
    /\ failed = [h \in Hosts |-> 0]
    /\ faults = 0 /\ rings = 0

Master == mode = "master"
Slave  == mode = "slave"
Line   == Systems[cur]
hostp  == Line.host
MaxFailAttempts == IF limit = None THEN 0 ELSE Systems[limit].count
Seq_Attempts    == IF limit = None THEN 1 ELSE Systems[limit].seq
Max_Idle        == IF limit = None THEN -1 ELSE Systems[limit].idle
Exhausted == MaxFailAttempts > 0 /\ fail_attempts >= MaxFailAttempts

goto(s)   == state' = s /\ at' = "none"
stay(a)   == at' = a /\ UNCHANGED state
Status(s) == host' = [host EXCEPT ![hostp].status = s]
Fault     == faults < MaxFaults /\ faults' = faults + 1

-----------------------------------------------------------------------------
(***************************************************************************)
(* The next line of the systems file: getsystem.                           *)
(***************************************************************************)
Initialize == Master /\ state = "INITIALIZE"

\* Again only if somebody was dialled since, and the last host read may be
\* tried again.
Again == reseek /\ WorthTrying /\ ~Exhausted

Rewind ==
    /\ Initialize /\ line = Len(Systems) /\ Again
    /\ reseek' = FALSE /\ WorthTrying' = FALSE /\ line' = 0 /\ cur' = None
    /\ UNCHANGED <<mode, state, at, limit, AnyContacted, Aborted, hostvars, fail_attempts, port,
                   speeds, dial, script, faults, rings>>

EndOfFile ==
    /\ Initialize /\ line = Len(Systems) /\ ~Again
    /\ reseek' = (reseek /\ ~WorthTrying) /\ cur' = None
    /\ goto("EXIT")
    /\ UNCHANGED <<mode, line, limit, AnyContacted, Aborted, hostvars, fail_attempts, port, modem,
                   script, faults, rings>>

getsystem ==
    /\ Initialize /\ line < Len(Systems)
    /\ LET n == line + 1 h == Systems[n].host IN
       /\ line' = n
       /\ \/ /\ host[h].status = "called" \/ Systems[n].window    \* or not the time
             /\ cur' = None
             /\ UNCHANGED <<state, at, limit, fail_attempts>>
          \/ /\ host[h].status # "called"
             /\ cur' = n /\ limit' = n
             /\ fail_attempts' = host[h].attempts
             /\ goto("CALLUP1")
    /\ UNCHANGED <<mode, reseek, AnyContacted, Aborted, hostvars, port, modem, script, faults, rings>>

CallUp1 ==
    /\ state = "CALLUP1"
    /\ \/ /\ Status("autodial") /\ goto("CALLUP2") /\ UNCHANGED faults
       \/ /\ Fault /\ goto("INITIALIZE") /\ UNCHANGED host        \* LockSystem
    /\ UNCHANGED <<mode, runvars, failed, fail_attempts, port, modem, script, rings>>

-----------------------------------------------------------------------------
(***************************************************************************)
(* callup.  SetModem stores the speeds over those of the modem before it:  *)
(* the end of a longer list stays.                                         *)
(***************************************************************************)
Longer(s) == IF s > speeds THEN s ELSE speeds

WrongTime ==
    /\ state = "CALLUP2" /\ at = "none" /\ Line.window /\ Fault
    /\ Status("wrong_time") /\ goto("INITIALIZE")
    /\ UNCHANGED <<mode, runvars, failed, fail_attempts, port, modem, script, rings>>

callup ==
    /\ state = "CALLUP2" /\ at = "none"
    /\ LET m == Modems[Line.modem] IN
       \/ /\ m.kind = "broken"
          /\ Status("invalid_device") /\ goto("INITIALIZE")
          /\ speeds' = Longer(m.speeds) /\ UNCHANGED <<WorthTrying, dial>>
       \/ /\ m.kind = "direct"
          /\ Status("dial_script_failed") /\ stay("direct")
          /\ WorthTrying' = TRUE /\ UNCHANGED <<speeds, dial>>
       \/ /\ m.kind = "dial"
          /\ Status("dial_script_failed") /\ stay("speed")
          /\ WorthTrying' = TRUE /\ speeds' = Longer(m.speeds)
          /\ dial' = [NoCall EXCEPT !.passes = [f \in 0 .. Line.phones - 1 |-> 0]]
    /\ UNCHANGED <<mode, runvars, failed, fail_attempts, port, script, faults, rings>>

\* Label FailedAttempt of cdial, and DirFailedAttempt of direct.
FailedAttempt ==
    /\ fail_attempts' = fail_attempts + 1
    /\ host' = [host EXCEPT ![hostp] =
                   [@ EXCEPT !.attempts = fail_attempts,
                             !.status = IF MaxFailAttempts > 0 /\ fail_attempts + 1 >= MaxFailAttempts
                                        THEN "max_retry" ELSE "dial_failed"]]
    /\ failed' = [failed EXCEPT ![hostp] = @ + 1]
    /\ port' = FALSE
    /\ goto("DROPLINE")

increased(wait) ==
    LET w == (wait * 3) \div 2
        c == IF Max_Idle >= 0 /\ w > 60 * Max_Idle THEN 60 * Max_Idle ELSE w
    IN  IF c < MIN_IDLE THEN MIN_IDLE ELSE c

increase_idle == host' = [host EXCEPT ![hostp].idlewait = increased(@)]

\* The number of failures is looked at only after the line was opened.
direct ==
    /\ at = "direct"
    /\ \/ /\ increase_idle /\ port' = TRUE /\ stay("expect")
          /\ UNCHANGED <<failed, fail_attempts>>
       \/ FailedAttempt
    /\ field' = 0 /\ alt' = 0
    /\ UNCHANGED <<mode, runvars, modem, faults, rings>>

-----------------------------------------------------------------------------
(***************************************************************************)
(* cdial as the caller calls it.                                           *)
(***************************************************************************)
EndOfSpeeds(irate) == irate + 1 >= speeds
EndOfPhones == dial.frate + 1 >= Line.phones

\* The top of the loop over the speeds.
ChooseSpeed ==
    /\ at = "speed" /\ stay("redial")
    /\ dial' = IF dial.trycount >= MaxTry
               THEN [dial EXCEPT !.irate = @ + 1, !.trycount = 0] ELSE dial
    /\ UNCHANGED <<mode, runvars, hostvars, fail_attempts, port, speeds, WorthTrying, script, faults, rings>>

AgainHere == dial.first /\ fail_attempts > 0
GivesUpHere == dial.changed \/ (AgainHere /\ Exhausted)

GiveUp ==
    /\ at = "redial" /\ GivesUpHere
    /\ FailedAttempt
    /\ UNCHANGED <<mode, runvars, modem, script, faults, rings>>

\* The wait at the end of a series; the user may cut it short.
idle(wait) == IF AgainHere /\ (fail_attempts + 1) % Seq_Attempts = 0
              THEN {MIN_IDLE, increased(wait)} ELSE {wait}

Redial ==
    /\ at = "redial" /\ ~GivesUpHere
    /\ \E w \in idle(host[hostp].idlewait) :
          host' = [host EXCEPT ![hostp].idlewait = w]
    /\ dial' = [dial EXCEPT !.first = FALSE]
    /\ stay("open")
    /\ UNCHANGED <<mode, runvars, failed, fail_attempts, port, speeds, WorthTrying, script, faults, rings>>

Open ==
    /\ at = "open" /\ port' = TRUE /\ stay("init")
    /\ UNCHANGED <<mode, runvars, hostvars, fail_attempts, modem, script, faults, rings>>

\* The line cannot be opened, there is a carrier where there cannot be one,
\* or there is no dial tone.
BadLine ==
    /\ at \in {"open", "init", "reply"}
    /\ FailedAttempt
    /\ UNCHANGED <<mode, runvars, modem, script, faults, rings>>

Answers ==
    /\ at = "init" /\ stay("reply")
    /\ UNCHANGED <<mode, runvars, hostvars, fail_attempts, port, modem, script, faults, rings>>

\* What has been tried so far, as far as it is told apart.
Passed(d) == [d EXCEPT !.passes[d.frate] = IF @ < MaxTry THEN @ + 1 ELSE @]

\* ++trycount after the modem did not answer its initialization; the first
\* form begins again at the end of the speeds.
CountInit_Restarts(d) ==
    IF d.trycount + 1 >= MaxTry /\ EndOfSpeeds(d.irate)
    THEN [d EXCEPT !.irate = 0, !.trycount = 0]
    ELSE [d EXCEPT !.trycount = @ + 1]
CountInit(d) ==
    IF d.trycount + 1 >= MaxTry /\ EndOfSpeeds(d.irate)
    THEN [d EXCEPT !.irate = 0, !.trycount = 0, !.changed = TRUE, !.why = "modem"]
    ELSE [d EXCEPT !.trycount = @ + 1]

NoAnswer ==
    /\ at = "init" /\ stay("speed")
    /\ dial' = CountInit(Passed(dial))
    /\ port' = FALSE
    /\ UNCHANGED <<mode, runvars, hostvars, fail_attempts, speeds, WorthTrying, script, faults, rings>>

\* ++trycount after nobody answered the phone.
CountReply(d) ==
    CASE d.trycount + 1 < MaxTry -> [d EXCEPT !.trycount = @ + 1]
      [] d.trycount + 1 >= MaxTry /\ ~EndOfPhones -> [d EXCEPT !.trycount = 0, !.frate = @ + 1]
      [] OTHER -> [d EXCEPT !.trycount = 0, !.frate = 0,
                            !.irate   = IF EndOfSpeeds(d.irate) THEN 0 ELSE @,
                            !.changed = @ \/ EndOfSpeeds(d.irate),
                            !.why     = IF EndOfSpeeds(d.irate) THEN "phones" ELSE @]

\* After the last phone cdial goes on at the top of the loop.
AfterReply(d) == stay(IF d.trycount + 1 >= MaxTry /\ EndOfPhones THEN "speed" ELSE "redial")

NoReply ==
    /\ at = "reply"
    /\ \E busy \in BOOLEAN :
       LET d == IF busy THEN [dial EXCEPT !.trycount = MaxTry - 1, !.busy = @ \union {dial.frate}]
                        ELSE dial
       IN  dial' = CountReply(Passed(d)) /\ AfterReply(d)
    /\ port' = FALSE
    /\ UNCHANGED <<mode, runvars, hostvars, fail_attempts, speeds, WorthTrying, script, faults, rings>>

\* CONNECT; the carrier may be gone again when commdm looks at it, and this
\* is no failed attempt.
Connect ==
    /\ at = "reply"
    /\ \/ /\ stay("expect") /\ increase_idle /\ UNCHANGED faults
       \/ /\ Fault /\ goto("DROPLINE") /\ UNCHANGED host
    /\ field' = 0 /\ alt' = 0
    /\ UNCHANGED <<mode, runvars, failed, fail_attempts, port, modem, rings>>

-----------------------------------------------------------------------------
(***************************************************************************)
(* The login script: sendalt waits for a string and, each time it does not *)
(* come, sends an alternative and waits again.                             *)
(***************************************************************************)
Scripted == at = "expect" /\ field < Len(Line.script)

Matched ==
    /\ Scripted
    /\ \/ field' = field + 1 /\ alt' = 0 /\ UNCHANGED <<state, at, host, faults>>
       \/ /\ Fault /\ Status("script_failed") /\ goto("DROPLINE")  \* sendstr
          /\ UNCHANGED script
    /\ UNCHANGED <<mode, runvars, failed, fail_attempts, port, modem, rings>>

TimedOut ==
    /\ Scripted /\ alt < Line.script[field + 1]
    /\ alt' = alt + 1
    /\ UNCHANGED <<mode, state, at, runvars, hostvars, fail_attempts, port, modem, field, faults, rings>>

ScriptFails ==      \* the last alternative, or S_LOST
    /\ Scripted /\ Fault
    /\ Status("script_failed") /\ goto("DROPLINE")
    /\ UNCHANGED <<mode, runvars, failed, fail_attempts, port, modem, script, rings>>

ScriptDone ==
    /\ at = "expect" /\ field = Len(Line.script)
    /\ Status("startup_failed") /\ goto("PROTOCOL")
    /\ UNCHANGED <<mode, runvars, failed, fail_attempts, port, modem, script, faults, rings>>

-----------------------------------------------------------------------------
(***************************************************************************)
(* The answerer: callin and login.  cdial has no host and no limit here.   *)
(***************************************************************************)
Answer ==
    /\ Slave /\ state = "INITIALIZE"
    /\ goto("ANSWER")
    /\ UNCHANGED <<mode, runvars, hostvars, fail_attempts, port, modem, script, faults, rings>>

\* The login window is over, the modem unknown or the line not to be had.
NotToday ==
    /\ state = "ANSWER" /\ at = "none" /\ goto("EXIT")
    /\ UNCHANGED <<mode, runvars, hostvars, fail_attempts, port, modem, script, faults, rings>>

callin ==
    /\ state = "ANSWER" /\ at = "none" /\ rings < MaxRings
    /\ Modems[InModem].kind # "broken"
    /\ rings' = rings + 1 /\ port' = TRUE
    /\ stay(IF Modems[InModem].kind = "direct" THEN "answer" ELSE "init_in")
    /\ UNCHANGED <<mode, runvars, hostvars, fail_attempts, modem, script, faults>>

FailedIn(s) == fail_attempts' = fail_attempts + 1 /\ port' = FALSE /\ goto(s)

\* After a carrier that cannot be there callin leaves the port open.
InitIn ==
    /\ at = "init_in"
    /\ \/ stay("ring") /\ UNCHANGED <<fail_attempts, port>>
       \/ FailedIn("EXIT")
       \/ goto("EXIT") /\ UNCHANGED <<fail_attempts, port>>
    /\ UNCHANGED <<mode, runvars, hostvars, modem, script, faults, rings>>

Ring ==
    /\ at = "ring"
    /\ \/ stay("answer") /\ UNCHANGED <<fail_attempts, port>>
       \/ FailedIn("DROPLINE")
    /\ UNCHANGED <<mode, runvars, hostvars, modem, script, faults, rings>>

\* MDM_ANSWER, the carrier, and then the prompts of login.
AnswerCall ==
    /\ at = "answer"
    /\ \/ goto("LOGIN") /\ UNCHANGED <<fail_attempts, port>>
       \/ FailedIn("DROPLINE")
       \/ goto("DROPLINE") /\ UNCHANGED <<fail_attempts, port>>
    /\ field' = 0 /\ alt' = 0
    /\ UNCHANGED <<mode, runvars, hostvars, modem, faults, rings>>

\* A wrong name or password is another of MaxLogins attempts; a shell of
\* the user's own is run here.
login ==
    /\ state = "LOGIN"
    /\ \/ field < MaxLogins /\ goto("PROTOCOL") /\ UNCHANGED field
       \/ field < MaxLogins /\ field' = field + 1 /\ UNCHANGED <<state, at>>
       \/ goto("DROPLINE") /\ UNCHANGED field
    /\ UNCHANGED <<mode, runvars, hostvars, fail_attempts, port, modem, alt, faults, rings>>

-----------------------------------------------------------------------------
(***************************************************************************)
(* The session, from startup to sysend: see Conv, GHandshake, Xfer.  It    *)
(* fails, is aborted, or the host has been called.                         *)
(***************************************************************************)
Session ==
    /\ state = "PROTOCOL" /\ goto("DROPLINE")
    /\ \/ /\ AnyContacted' = TRUE /\ UNCHANGED <<Aborted, faults>>
          /\ host' = IF Master THEN [host EXCEPT ![hostp] = [@ EXCEPT !.status = "called", !.idlewait = MIN_IDLE]]
                               ELSE host
       \/ /\ Fault /\ UNCHANGED <<AnyContacted, Aborted>>
          /\ host' = IF Master THEN [host EXCEPT ![hostp].status = "call_failed"] ELSE host
       \/ /\ Fault /\ Aborted' = TRUE /\ UNCHANGED AnyContacted
          /\ host' = IF Master THEN [host EXCEPT ![hostp].status = "call_failed"] ELSE host
    /\ UNCHANGED <<mode, line, cur, limit, reseek, failed, fail_attempts, port, modem, script, rings>>

\* hattempts stays what FailedAttempt has made it.
KeepAttempts_Not == host
KeepAttempts == IF Master THEN [host EXCEPT ![hostp].attempts = fail_attempts] ELSE host

DropLine ==
    /\ state = "DROPLINE"
    /\ port' = FALSE                                              \* Sshutdown
    /\ host' = KeepAttempts
    /\ reseek' = (reseek \/ (Master /\ ~AnyContacted))
    /\ goto(IF Aborted \/ (Slave /\ AnyContacted) THEN "EXIT" ELSE "INITIALIZE")
    /\ dial' = NoCall /\ field' = 0 /\ alt' = 0
    /\ UNCHANGED <<mode, line, cur, limit, AnyContacted, Aborted, failed, fail_attempts, speeds,
                   WorthTrying, faults, rings>>

\* dcpmain returns; a port that is still open makes it panic.
Exit == state = "EXIT" /\ UNCHANGED vars

Calls == \/ Rewind \/ EndOfFile \/ getsystem \/ CallUp1 \/ WrongTime \/ callup \/ direct
         \/ ChooseSpeed \/ GiveUp \/ Redial \/ Open \/ BadLine \/ Answers \/ NoAnswer \/ NoReply
         \/ Connect \/ Matched \/ TimedOut \/ ScriptFails \/ ScriptDone
IsCalled == Answer \/ NotToday \/ callin \/ InitIn \/ Ring \/ AnswerCall \/ login
Steps == Calls \/ IsCalled \/ Session \/ DropLine

Next == Steps \/ Exit

Spec     == Init /\ [][Next]_vars
FairSpec == Spec /\ WF_vars(Steps)

-----------------------------------------------------------------------------
(***************************************************************************)
(* The port is closed whenever the caller looks for the next system to     *)
(* call and when it ends, whatever has failed in modem.c, the script or    *)
(* the session, and whenever the answerer starts to wait for a call.  (At  *)
(* the end of an answerer it may be open: see InitIn and the README.)      *)
(***************************************************************************)
PortClosed ==
    /\ state \in {"INITIALIZE", "CALLUP1"} \/ at \in {"speed", "redial", "open"} => ~port
    /\ Master /\ state = "EXIT" => ~port

(***************************************************************************)
(* No line is dialled for a host once as many attempts to reach it have    *)
(* failed, in the whole run and over all its lines, as this line of the    *)
(* systems file allows.                                                    *)
(***************************************************************************)
NeverExhausted ==
    Master /\ at \in {"init", "reply"} => Line.count = 0 \/ failed[hostp] < Line.count

(***************************************************************************)
(* cdial gives up for want of a reply only when every phone of the list    *)
(* has had its MaxTry passes or was busy.                                  *)
(***************************************************************************)
EveryPhone ==
    Master /\ at = "redial" /\ dial.changed /\ dial.why = "phones" =>
        \A f \in DOMAIN dial.passes : dial.passes[f] = MaxTry \/ f \in dial.busy

(***************************************************************************)
(* A run ends, when the hosts have limits, nobody else holds their locks   *)
(* for ever and only so many calls fail after they were connected, unless  *)
(* it stays with one host whose modem has another speed (see GivesUp).     *)
(***************************************************************************)
OtherSpeed == at # "none" /\ ~EndOfSpeeds(dial.irate)
Ends == <>(state = "EXIT") \/ <>[]OtherSpeed

(***************************************************************************)
(* The run always ends: cdial "choose next speed from list" (modem.c:577)  *)
(* and gives up at the end of the list.                                    *)
(***************************************************************************)
GivesUp == <>(state = "EXIT")

\* Attempts are counted and phones gone through as the systems file and -A say,
\* and no call is begun on a port that is still open from another.
DialsRight == NeverExhausted /\ EveryPhone /\ PortClosed
=============================================================================
