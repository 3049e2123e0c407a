-------------------------------- MODULE Line ---------------------------------
(***************************************************************************)
(* The serial line under every protocol and script: sread, swrite, w_flush, *)
(* the carrier's loss, the hang up; as on DOS with a FOSSIL driver (ulib.c, *)
(* fossil.c) and as on OS/2 (ulib2.c, sio.c).                               *)
(*                                                                         *)
(* One program calls these functions one after the other; the driver, the  *)
(* modem, the other side, the clock and the keyboard go on by themselves   *)
(* between two turns of the loops that poll them.  Characters are counted, *)
(* and time is in units of a character at 1200 baud, the speed that the    *)
(* loops' limits allow for.                                                *)
(***************************************************************************)
EXTENDS Integers, Sequences

CONSTANTS
    Platforms,  \* "dos", "os2"
    OSize,      \* fs_osize, room in the driver for output
    ISize,      \* fs_isize, for input
    WLens, RLens,  \* lengths of what is written and read
    Timeouts,   \* of reads
    MAXSPIN,    \* times the flow control is released
    Checks      \* values NoCheckCarrier may have

ASSUME LineAssumption ==
    /\ Platforms \subseteq {"dos", "os2"} /\ Platforms # {}
    /\ OSize \in Nat /\ ISize \in Nat
    /\ WLens \subseteq 1..OSize /\ RLens \subseteq 1..ISize
    /\ Timeouts \subseteq Nat /\ MAXSPIN \in Nat \ {0}
    /\ Checks \subseteq BOOLEAN

\* Bound of the loops' clocks: later than each of their limits.
Oldest == LET limits == Timeouts \cup {OSize}
          IN  1 + CHOOSE t \in limits : \A u \in limits : u <= t

VARIABLES
    system, NoCheckCarrier,
    cd,         \* the modem reports a carrier
    held,       \* output stands: "far" wants it, or an XON got "lost"
    out,        \* characters in the driver, of "this" call or the "last"
    in,         \* how many it has received
    moved,      \* the driver has sent something since the clock's last tick
    esc,        \* a key was pressed
    waittime,   \* 0, or time + 1 since a look at the carrier missed it
    connected, need_out_flush,
    op,         \* the function the program is in, and its arguments
    have,       \* OS/2: characters read or written so far
    age, spin, old,   \* of the loop that waits for room: start, spin, old_s_free
    flush, fage, fspin, fold,  \* s_w_flush is running; its own
    ret,        \* what the last function returned
    away,       \* history: time since the carrier left
    blinked,    \* history: it came back and left and no look has seen it
    excuse,     \* history: why the last write may time out
    stuck       \* history: XONs lost during it

driver  == <<cd, held, out, in, moved, esc>>
loop    == <<age, spin, old>>
floop   == <<flush, fage, fspin, fold>>
history == <<away, blinked>>
lineVars == <<system, NoCheckCarrier, driver, waittime, connected,
              need_out_flush, op, have, loop, floop, ret, history,
              excuse, stuck>>

Unset == -1
Idle == [f |-> "idle", n |-> 0, timeout |-> 0]

LineInit ==
    /\ system \in Platforms /\ NoCheckCarrier \in Checks
    /\ cd = FALSE /\ held = "no" /\ out = <<>> /\ in = 0 /\ moved = FALSE
    /\ esc = FALSE /\ waittime = 0 /\ connected = FALSE
    /\ need_out_flush = FALSE
    /\ op = Idle /\ have = 0 /\ age = Unset /\ spin = 0 /\ old = 0
    /\ flush = FALSE /\ fage = Unset /\ fspin = 0 /\ fold = 0
    /\ ret = "none" /\ away = 0 /\ blinked = FALSE
    /\ excuse = FALSE /\ stuck = 0

-----------------------------------------------------------------------------
(***************************************************************************)
(* What goes on by itself.                                                 *)
(***************************************************************************)
Modem ==
    /\ cd' = ~cd
    /\ away' = 0
    /\ blinked' = IF cd THEN blinked ELSE waittime # 0
    /\ UNCHANGED <<system, NoCheckCarrier, held, out, in, moved, esc, waittime,
                   connected, need_out_flush, op, have, loop, floop, ret,
                   excuse, stuck>>

Stop ==
    /\ held = "no" /\ held' \in {"far", "lost"}
    /\ stuck' = IF held' = "lost" /\ op.f = "swrite" /\ stuck <= MAXSPIN
                THEN stuck + 1 ELSE stuck
    /\ excuse' = (excuse \/ (held' = "far" /\ op.f = "swrite"))
    /\ UNCHANGED <<system, NoCheckCarrier, cd, out, in, moved, esc, waittime,
                   connected, need_out_flush, op, have, loop, floop, ret, history>>

Go ==
    /\ held = "far" /\ held' = "no"
    /\ UNCHANGED <<system, NoCheckCarrier, cd, out, in, moved, esc, waittime,
                   connected, need_out_flush, op, have, loop, floop, ret, history, excuse, stuck>>

Transmit ==
    /\ held = "no" /\ out # <<>>
    /\ out' = Tail(out) /\ moved' = TRUE
    /\ UNCHANGED <<system, NoCheckCarrier, cd, held, in, esc, waittime, connected,
                   need_out_flush, op, have, loop, floop, ret, history,
                   excuse, stuck>>

Receive ==
    /\ cd /\ in < ISize /\ in' = in + 1
    /\ UNCHANGED <<system, NoCheckCarrier, cd, held, out, moved, esc, waittime,
                   connected, need_out_flush, op, have, loop, floop, ret, history, excuse, stuck>>

Press ==
    /\ ~esc /\ esc' = TRUE
    /\ excuse' = (excuse \/ op.f = "swrite")
    /\ UNCHANGED <<system, NoCheckCarrier, cd, held, out, in, moved, waittime,
                   connected, need_out_flush, op, have, loop, floop, ret, history, stuck>>

Older(t) == IF t = Unset \/ t >= Oldest THEN t ELSE t + 1

\* The line sends at least one character in a unit of time.
Tick ==
    /\ out = <<>> \/ held # "no" \/ moved
    /\ moved' = FALSE
    /\ waittime' = IF waittime \in 1..2 THEN waittime + 1 ELSE waittime
    /\ away' = IF ~cd /\ away < 2 THEN away + 1 ELSE away
    /\ age' = Older(age) /\ fage' = Older(fage)
    /\ UNCHANGED <<system, NoCheckCarrier, cd, held, out, in, esc, connected,
                   need_out_flush, op, have, spin, old, flush, fspin, fold, ret,
                   blinked, excuse, stuck>>

World == Modem \/ Stop \/ Go \/ Transmit \/ Receive \/ Press \/ Tick

-----------------------------------------------------------------------------
(***************************************************************************)
(* carrier( FALSE )                                                        *)
(***************************************************************************)

\* Does a look find it lost?  Away for more than a second.
Lost == ~cd /\ waittime = 3

\* Mutant: a look that sees the carrier forgets nothing.
Look_NoReset ==
    /\ waittime' = IF cd \/ waittime # 0 THEN waittime ELSE 1
    /\ blinked' = (blinked /\ ~cd)

\* Mutant: every look starts the second anew.
Look_Anew ==
    /\ waittime' = IF cd THEN 0 ELSE 1
    /\ blinked' = (blinked /\ ~cd)

Look ==
    /\ waittime' = IF cd THEN 0 ELSE IF waittime = 0 THEN 1 ELSE waittime
    /\ blinked' = (blinked /\ ~cd)

\* On OS/2 carrier and sread forget about NoCheckCarrier.
Looks == connected /\ ~NoCheckCarrier
ReadLooks == connected /\ (system = "os2" \/ ~NoCheckCarrier)

LookIf(looks) == IF looks THEN Look ELSE UNCHANGED <<waittime, blinked>>

\* The function is over; what is due to its own variables is reset.
Return(r) ==
    /\ op' = Idle /\ ret' = r
    /\ have' = 0 /\ age' = Unset /\ spin' = 0 /\ old' = 0
    /\ UNCHANGED floop

GoOn == UNCHANGED <<op, ret, have, floop>>

Room == OSize - Len(out)
These(n) == [i \in 1..n |-> "this"]

\* flowcontrol( fs_xon ): the transmitter is enabled.
Release == held' = IF held = "lost" THEN "no" ELSE held

-----------------------------------------------------------------------------
(***************************************************************************)
(* swrite                                                                  *)
(***************************************************************************)
CallSwrite ==
    /\ op = Idle /\ \E n \in WLens : op' = [f |-> "swrite", n |-> n, timeout |-> 0]
    /\ excuse' = (esc \/ held = "far" \/ ~connected)
    /\ stuck' = IF held = "lost" THEN 1 ELSE 0
    /\ ret' = "none"
    /\ UNCHANGED <<system, NoCheckCarrier, driver, waittime, connected,
                   need_out_flush, have, loop, floop, history>>

\* On the way in any room will do, later more than half of the buffer.
Fits == Room >= op.n /\ ((age = Unset /\ spin = 0) \/ 2 * Room > OSize)
Began == IF age = Unset THEN 0 ELSE age
OldRoom == IF age = Unset THEN Room ELSE old

\* The time for half a buffer, or for what there is no room for.
Needed ==
    LET half == OSize \div 2
        more == op.n - OldRoom
    IN  IF more > half THEN more ELSE half

\* Mutant: nobody releases the flow control.
Waits_Stuck ==
    /\ op.f = "swrite" /\ system = "dos" /\ ~(Looks /\ Lost) /\ ~Fits
    /\ IF esc \/ Began > Needed
       THEN IF connected /\ spin < MAXSPIN
            THEN /\ spin' = spin + 1
                 /\ age' = Unset /\ old' = 0 /\ UNCHANGED held
                 /\ GoOn
            ELSE Return("timeout") /\ UNCHANGED held
       ELSE /\ age' = Began /\ old' = OldRoom /\ UNCHANGED <<spin, held>>
            /\ GoOn
    /\ esc' = (esc /\ Began > Needed)
    /\ LookIf(Looks)
    /\ UNCHANGED <<system, NoCheckCarrier, cd, out, in, moved, connected,
                   need_out_flush, away, excuse, stuck>>

\* No space, wait some time.
Waits ==
    /\ op.f = "swrite" /\ system = "dos" /\ ~(Looks /\ Lost) /\ ~Fits
    /\ IF esc \/ Began > Needed
       THEN IF connected /\ spin < MAXSPIN
            THEN /\ IF OldRoom = Room \/ Began <= Needed
                    THEN spin' = spin + 1 /\ Release
                    ELSE UNCHANGED <<spin, held>>
                 /\ age' = Unset /\ old' = 0
                 /\ GoOn
            ELSE Return("timeout") /\ UNCHANGED held
       ELSE /\ age' = Began /\ old' = OldRoom /\ UNCHANGED <<spin, held>>
            /\ GoOn
    /\ esc' = (esc /\ Began > Needed)
    /\ LookIf(Looks)
    /\ UNCHANGED <<system, NoCheckCarrier, cd, out, in, moved, connected,
                   need_out_flush, away, excuse, stuck>>

Writes ==
    /\ op.f = "swrite" /\ system = "dos"
    /\ IF Looks /\ Lost
       THEN Return("lost") /\ UNCHANGED <<out, need_out_flush>>
       ELSE /\ Fits
            /\ out' = out \o These(op.n) /\ need_out_flush' = TRUE
            /\ Return("ok")
    /\ LookIf(Looks)
    /\ UNCHANGED <<system, NoCheckCarrier, cd, held, in, moved, esc, connected,
                   away, excuse, stuck>>

\* write_block on OS/2: until all is with the driver; nobody looks.  swrite
\* leaves need_out_flush alone.
WriteBlock ==
    /\ op.f = "swrite" /\ system = "os2"
    /\ LET k == IF Room < op.n - have THEN Room ELSE op.n - have
       IN  /\ out' = out \o These(k)
           /\ IF have + k = op.n THEN Return("ok")
              ELSE have' = have + k /\ UNCHANGED <<op, ret, loop, floop>>
    /\ UNCHANGED <<system, NoCheckCarrier, cd, held, in, moved, esc, waittime,
                   connected, need_out_flush, history, excuse, stuck>>

swrite == CallSwrite \/ Writes \/ Waits \/ WriteBlock

-----------------------------------------------------------------------------
(***************************************************************************)
(* w_flush and s_w_flush                                                   *)
(***************************************************************************)

\* need_out_flush is reset before anything is flushed.
StartFlush ==
    /\ need_out_flush' = FALSE /\ flush' = TRUE
    /\ fage' = Unset /\ fspin' = 0 /\ fold' = 0

CallFlush ==
    /\ op = Idle
    /\ excuse' = FALSE /\ stuck' = 0
    /\ IF need_out_flush
       THEN /\ op' = [f |-> "w_flush", n |-> 0, timeout |-> 0]
            /\ StartFlush /\ ret' = "none" /\ UNCHANGED <<waittime, blinked>>
       ELSE /\ ret' = IF Looks /\ Lost THEN "lost" ELSE "ok"
            /\ LookIf(Looks) /\ UNCHANGED <<op, floop, need_out_flush>>
    /\ UNCHANGED <<system, NoCheckCarrier, driver, connected, have, loop, away>>

FBegan == IF fage = Unset THEN 0 ELSE fage
FOld == IF fage = Unset THEN Len(out) ELSE fold

\* s_w_flush is over, key is still to be read: for w_flush's caller, or for
\* sread's ddelay( 0 ), which goes on to the keyboard.
Flushed(r, key) ==
    /\ flush' = FALSE /\ fage' = Unset /\ fspin' = 0 /\ fold' = 0
    /\ CASE op.f = "w_flush" ->
              op' = Idle /\ ret' = r /\ esc' = key /\ UNCHANGED <<have, loop>>
         [] op.f = "sread" /\ (r = "lost" \/ key) ->
              /\ op' = Idle /\ ret' = IF r = "lost" THEN "lost" ELSE "timeout"
              /\ have' = 0 /\ age' = Unset /\ esc' = (key /\ r = "lost")
              /\ UNCHANGED <<spin, old>>
         [] OTHER -> esc' = FALSE /\ UNCHANGED <<op, ret, have, loop>>

Wait ==
    /\ fage' = FBegan /\ fold' = FOld
    /\ UNCHANGED <<flush, fspin, op, ret, have, loop, esc, held>>

\* The transmitter is released if nothing has moved, or a key was pressed.
TryAgain ==
    /\ IF FOld = Len(out) \/ FBegan <= FOld
       THEN fspin' = fspin + 1 /\ Release ELSE UNCHANGED <<fspin, held>>
    /\ fage' = Unset /\ fold' = 0 /\ esc' = (esc /\ FBegan > FOld)
    /\ UNCHANGED <<flush, op, ret, have, loop>>

\* Not on OS/2, where need_out_flush is never set.
s_w_flush ==
    /\ flush
    /\ CASE Looks /\ Lost -> Flushed("lost", esc) /\ UNCHANGED held
         [] ~(Looks /\ Lost) /\ out = <<>> -> Flushed("ok", esc) /\ UNCHANGED held
         [] OTHER ->
              IF ~esc /\ FBegan <= FOld THEN Wait
              ELSE IF connected /\ fspin < MAXSPIN THEN TryAgain
              ELSE Flushed("no", esc /\ FBegan > FOld) /\ UNCHANGED held
    /\ LookIf(Looks)
    /\ UNCHANGED <<system, NoCheckCarrier, cd, out, in, moved, connected,
                   need_out_flush, away, excuse, stuck>>

-----------------------------------------------------------------------------
(***************************************************************************)
(* sread                                                                   *)
(***************************************************************************)
CallSread ==
    /\ op = Idle
    /\ \E n \in RLens, t \in Timeouts :
          op' = [f |-> "sread", n |-> n, timeout |-> t]
    /\ age' = 0 /\ excuse' = FALSE /\ stuck' = 0 /\ ret' = "none"
    /\ UNCHANGED <<system, NoCheckCarrier, driver, waittime, connected,
                   need_out_flush, have, spin, old, floop, history>>

Take(k) == in' = in - k

\* DOS: all of it or nothing.  ddelay( 0 ) flushes the output first.
ReadDos ==
    /\ op.f = "sread" /\ system = "dos" /\ ~flush
    /\ LookIf(Looks)
    /\ IF Looks /\ Lost
       THEN Return("lost") /\ UNCHANGED <<in, esc, need_out_flush>>
       ELSE IF in >= op.n
       THEN Return("ok") /\ Take(op.n) /\ UNCHANGED <<esc, need_out_flush>>
       ELSE IF age > op.timeout \/ op.timeout = 0
       THEN Return("timeout") /\ UNCHANGED <<in, esc, need_out_flush>>
       ELSE IF need_out_flush
       THEN /\ StartFlush
            /\ UNCHANGED <<in, esc, op, ret, have, loop>>
       ELSE /\ IF esc THEN Return("timeout")
               ELSE UNCHANGED <<op, ret, have, loop, floop>>
            /\ esc' = FALSE /\ UNCHANGED <<in, need_out_flush>>
    /\ UNCHANGED <<system, NoCheckCarrier, cd, held, out, moved, connected, away,
                   excuse, stuck>>

Lower(a, b) == IF a < b THEN a ELSE b

\* OS/2, no timeout: s_count_pending counts the characters that wait to go
\* out, as many are read, and thrown away.
PollOs2 ==
    /\ op.f = "sread" /\ system = "os2" /\ spin = 0
    /\ op.timeout = 0 /\ Len(out) < op.n
    /\ Take(Lower(Len(out), in))
    /\ Return("timeout")
    /\ UNCHANGED <<system, NoCheckCarrier, cd, held, out, moved, esc, waittime,
                   connected, need_out_flush, away, blinked, excuse, stuck>>

\* What has come is taken as it comes; a key, the end of the carrier or of the
\* time gives it up.  A key pressed before does not count (spin: not the first
\* turn).
ReadOs2 ==
    /\ op.f = "sread" /\ system = "os2"
    /\ op.timeout # 0 \/ Len(out) >= op.n \/ spin = 1
    /\ LET k == Lower(op.n - have, in)
       IN  /\ Take(k)
           /\ IF have + k = op.n
              THEN Return("ok") /\ UNCHANGED <<esc, waittime, blinked>>
              ELSE /\ LookIf(ReadLooks)
                   /\ esc' = FALSE
                   /\ IF ReadLooks /\ Lost THEN Return("lost")
                      ELSE IF (esc /\ spin = 1) \/ age > op.timeout
                           THEN Return("timeout")
                      ELSE /\ have' = have + k /\ spin' = 1
                           /\ UNCHANGED <<op, ret, age, old, floop>>
    /\ UNCHANGED <<system, NoCheckCarrier, cd, held, out, moved, connected,
                   need_out_flush, away, excuse, stuck>>

sread == CallSread \/ ReadDos \/ PollOs2 \/ ReadOs2

-----------------------------------------------------------------------------
(***************************************************************************)
(* set_connected( TRUE ), and hangup as closeline calls it.                *)
(***************************************************************************)

SetConnected ==
    /\ op = Idle /\ ~connected
    /\ connected' = (NoCheckCarrier \/ cd)
    /\ ret' = IF connected' THEN "ok" ELSE "no carrier"
    /\ IF NoCheckCarrier THEN UNCHANGED <<waittime, blinked>>
       ELSE waittime' = 0 /\ blinked' = FALSE
    /\ UNCHANGED <<system, NoCheckCarrier, driver, need_out_flush, op, have, loop,
                   floop, away, excuse, stuck>>

Olden(s) == [i \in DOMAIN s |-> "last"]

\* Mutant: only the input is purged.
Hangup_Output ==
    /\ op = Idle /\ connected
    /\ connected' = FALSE /\ cd' = FALSE /\ away' = 0
    /\ out' = Olden(out)
    /\ in' = 0
    /\ blinked' = FALSE /\ ret' = "none"
    /\ UNCHANGED <<system, NoCheckCarrier, held, moved, esc, waittime,
                   need_out_flush, op, have, loop, floop, excuse, stuck>>

\* DTR falls, the modem hangs up; output is purged (OS/2 has no such call),
\* then input.  Of closeline the rest (the descriptor, p_hangup's script, the
\* statistics) is left out.
Hangup ==
    /\ op = Idle /\ connected
    /\ connected' = FALSE /\ cd' = FALSE /\ away' = 0
    /\ out' = IF system = "dos" THEN <<>> ELSE Olden(out)
    /\ in' = 0
    /\ blinked' = FALSE /\ ret' = "none"
    /\ UNCHANGED <<system, NoCheckCarrier, held, moved, esc, waittime,
                   need_out_flush, op, have, loop, floop, excuse, stuck>>

Work == swrite \/ CallFlush \/ s_w_flush \/ sread
LineNext == World \/ Work \/ SetConnected \/ Hangup

Turn == Writes \/ Waits \/ WriteBlock \/ s_w_flush \/ ReadDos \/ PollOs2 \/ ReadOs2

LineSpec == LineInit /\ [][LineNext]_lineVars
LineFair ==
    /\ WF_lineVars(Turn) /\ SF_lineVars(Tick) /\ WF_lineVars(Transmit)
    /\ WF_lineVars(CallSread)
LineFairSpec == LineSpec /\ LineFair

-----------------------------------------------------------------------------
(***************************************************************************)
(* Properties                                                              *)
(***************************************************************************)

\* A line is reported lost only if the carrier has been away for more than a
\* second (carrier, "Wait 1 sec"), or has come and gone while nobody looked.
\* With NoCheckCarrier it never is, but on OS/2.
NoFalseLoss ==
    [][ret' = "lost" /\ ret # "lost" =>
          IF NoCheckCarrier THEN system = "os2"
          ELSE away = 2 \/ blinked]_lineVars

\* A carrier that is gone for good is noticed by a program that goes on reading
\* (DOS), whatever the output buffer holds.
LossNoticed ==
    system = "dos" /\ <>[](~cd /\ connected /\ ~NoCheckCarrier)
       => []<>(ret = "lost")

\* Every call of the three functions ends, also when the other side stops our
\* output for ever (DOS; write_block of OS/2 would wait).
CallsEnd ==
    op # Idle /\ system = "dos" ~> op = Idle

\* Nobody waits for ever for a line that is gone or stands still.
LineLive == LossNoticed /\ CallsEnd

\* swrite times out only if the other side held the output, or a key was
\* pressed: an XON that got lost is made up for (MAXSPIN).
StuckGivesWay ==
    [][op.f = "swrite" /\ ret' = "timeout" => excuse \/ stuck > MAXSPIN]_lineVars

\* No character of the last call is left in the driver when the next one is
\* connected (DOS): it would be the modem that hears it.
NextCallClean ==
    connected /\ system = "dos" => \A i \in DOMAIN out : out[i] = "this"

\* What grpack is promised of sread (dcpgpkt.c, "specifications for sread()"):
\* it reads n characters if there are so many, or it leaves them alone.
SreadSpec ==
    [][op.f = "sread" /\ op' = Idle =>
          /\ ret' # "ok" => have = 0 /\ in' = in
          /\ in >= op.n => ret' \in {"ok", "lost"}]_lineVars
=============================================================================
