----------------------------- MODULE LineProofs ------------------------------
(***************************************************************************)
(* Proofs about Line and Call, what the drivers and the modem show to the  *)
(* protocols, and about Telnet, what a TCP connection does to the data.    *)
(***************************************************************************)
EXTENDS Line, Call, Telnet, WellFoundedInduction, SequenceTheorems, TLAPS

(***************************************************************************)
(* The line: the inductive invariant.                                      *)
(***************************************************************************)
Functions == {"idle", "swrite", "w_flush", "sread"}

Flags ==
    /\ NoCheckCarrier \in BOOLEAN /\ cd \in BOOLEAN /\ moved \in BOOLEAN
    /\ esc \in BOOLEAN /\ connected \in BOOLEAN /\ need_out_flush \in BOOLEAN
    /\ flush \in BOOLEAN /\ blinked \in BOOLEAN /\ excuse \in BOOLEAN
LineTypeOK ==
    /\ system \in {"dos", "os2"} /\ held \in {"no", "far", "lost"}
    /\ in \in Nat /\ waittime \in 0..3 /\ away \in 0..2 /\ stuck \in Nat
    /\ op.f \in Functions /\ op.n \in Nat
    /\ have \in Nat /\ age \in Nat \cup {Unset} /\ spin \in Nat /\ old \in Nat

\* Which function a loop's variables belong to, and what they are outside.
Frames ==
    /\ op.f = "idle" => op = Idle
    /\ op.f \in {"idle", "w_flush"} => have = 0 /\ age = Unset /\ spin = 0 /\ old = 0
    /\ op.f = "sread" => have <= op.n /\ (system = "dos" => have = 0 /\ spin = 0 /\ old = 0)
    /\ op.f = "swrite" => op.n \in 1..OSize /\ have < op.n /\ ret = "none"
    /\ op.f = "swrite" /\ system = "dos" => have = 0
    /\ op.f = "swrite" /\ system = "os2" => age = Unset /\ spin = 0 /\ old = 0
    /\ flush => op.f \in {"w_flush", "sread"}
    /\ flush \/ need_out_flush => system = "dos"

\* DOS purges the output of a call that is over.
Output == /\ out \in Seq({"this", "last"}) /\ Len(out) <= OSize
          /\ system = "dos" => out \in Seq({"this"})

\* The second that a carrier is missed is counted from when it went away, unless
\* it has come back since.
Missed == connected /\ ~NoCheckCarrier /\ waittime # 0 =>
             blinked \/ (~cd /\ away + 1 >= waittime)

(***************************************************************************)
(* A write that nothing excuses.  For every turn without progress an XON   *)
(* was lost; while none is missing, a character has left the driver in     *)
(* every unit of time but, perhaps, in the first.  One that has left       *)
(* before the clock was started leaves room (the driver's queue may be     *)
(* full when the first wait begins, but never is after a release).         *)
(***************************************************************************)
One(b) == IF b THEN 1 ELSE 0
Releases ==
    op.f = "swrite" /\ ~excuse =>
       /\ ~esc /\ held # "far" /\ connected
       /\ stuck <= MAXSPIN => spin + One(held = "lost") <= stuck
Progress ==
    op.f = "swrite" /\ ~excuse /\ system = "dos" =>
       /\ age = Unset /\ spin >= 1 /\ moved => Room >= 1
       /\ age # Unset =>
            /\ old <= Room
            /\ age >= 1 /\ moved => Room > old
            /\ held = "no" /\ out # <<>> =>
                  age + One(moved) <= Room - old + One(spin = 0 \/ old >= 1)

LineInv == Flags /\ LineTypeOK /\ Frames /\ Output /\ Missed /\ Releases /\ Progress

-----------------------------------------------------------------------------
(***************************************************************************)
(* The line: each part is kept.                                            *)
(***************************************************************************)
LEMMA SameSystem ==
  ASSUME LineNext PROVE system' = system /\ NoCheckCarrier' = NoCheckCarrier
  <1>1. CASE World
    BY <1>1 DEF World, Modem, Stop, Go, Transmit, Receive, Press, Tick
  <1>2. CASE swrite \/ CallFlush \/ s_w_flush
    BY <1>2 DEF swrite, CallSwrite, Writes, Waits, WriteBlock, CallFlush, s_w_flush
  <1>3. CASE sread \/ SetConnected \/ Hangup
    BY <1>3 DEF sread, CallSread, ReadDos, PollOs2, ReadOs2, SetConnected, Hangup
  <1> QED
    BY <1>1, <1>2, <1>3 DEF LineNext, Work

\* The values of the flags, and then of the other variables.
LEMMA FlagsKept == ASSUME LineInv, LineNext PROVE Flags'
  <1> USE DEF LineInv, Flags
  <1>1. CASE Modem
    <2>1. cd' \in BOOLEAN
      BY <1>1 DEF Modem
    <2>2. blinked' \in BOOLEAN
      BY <1>1 DEF Modem
    <2> QED
      BY <1>1, <2>1, <2>2, Zenon DEF Modem, floop
  <1>2. CASE Stop
    <2>1. excuse' \in BOOLEAN
      BY <1>2 DEF Stop
    <2> QED
      BY <1>2, <2>1, Zenon DEF Stop, history, loop, floop
  <1>3. CASE Press
    <2>1. excuse' \in BOOLEAN
      BY <1>3 DEF Press
    <2>2. esc' \in BOOLEAN
      BY <1>3 DEF Press, driver
    <2> QED
      BY <1>3, <2>1, <2>2, Zenon DEF Press, loop, floop, history
  <1>4. CASE Tick
    BY <1>4, Zenon DEF Tick
  <1>5. CASE CallSwrite
    <2>1. excuse' \in BOOLEAN
      BY <1>5 DEF CallSwrite
    <2> QED
      BY <1>5, <2>1, Zenon DEF CallSwrite, driver, history, floop
  <1>6. CASE Waits
    BY <1>6, Zenon DEF Waits, LookIf, Look, Return, GoOn, floop
  <1>7. CASE Writes
    BY <1>7, Zenon DEF Writes, LookIf, Look, Return, floop
  <1>8. CASE WriteBlock
    BY <1>8, Zenon DEF WriteBlock, Return, floop, history
  <1>9. CASE CallFlush
    BY <1>9, Zenon DEF CallFlush, LookIf, Look, StartFlush, floop, driver
  <1>10. CASE s_w_flush
    BY <1>10, Zenon DEF s_w_flush, Flushed, Wait, TryAgain, LookIf, Look
  <1>12. CASE ReadDos
    BY <1>12, Zenon DEF ReadDos, Return, LookIf, Look, StartFlush, floop
  <1>14. CASE ReadOs2
    BY <1>14, Zenon DEF ReadOs2, Return, LookIf, Look, floop
  <1>15. CASE SetConnected
    BY <1>15, Zenon DEF SetConnected, driver, floop
  <1>16. CASE Hangup
    BY <1>16, Zenon DEF Hangup, floop
  <1>17. CASE Go \/ Transmit \/ Receive \/ CallSread \/ PollOs2
    BY <1>17, Zenon DEF Go, Transmit, Receive, CallSread, PollOs2, Return, floop, history, driver
  <1> QED
    BY <1>1, <1>2, <1>3, <1>4, <1>5, <1>6, <1>7, <1>8, <1>9, <1>10, <1>12, <1>14,
       <1>15, <1>16, <1>17 DEF LineNext, World, Work, swrite, sread

LEMMA TypesKept == ASSUME LineInv, LineNext PROVE LineTypeOK'
  <1> USE DEF LineInv, Flags, LineTypeOK
  <1>1. CASE Modem
    BY <1>1 DEF Modem, loop
  <1>2. CASE Stop
    <2>1. held' \in {"no", "far", "lost"}
      BY <1>2 DEF Stop
    <2>2. stuck' \in Nat
      BY <1>2 DEF Stop
    <2> QED
      BY <1>2, <2>1, <2>2, Zenon DEF Stop, loop, history
  <1>3. CASE Go \/ Transmit \/ Receive \/ Press
    BY <1>3 DEF Go, Transmit, Receive, Press, loop, history
  <1>4. CASE Tick
    BY <1>4 DEF Tick, Older, Unset, loop
  <1>5. CASE CallSwrite
    BY <1>5, LineAssumption DEF CallSwrite, driver, loop, history, Functions
  <1>6. CASE Waits
    <2>1. Room \in Nat /\ system' = system /\ in' = in /\ away' = away /\ stuck' = stuck
      BY <1>6, LineAssumption DEF Waits, Room, Output
    <2>2. waittime' \in 0..3
      BY <1>6 DEF Waits, LookIf, Look
    <2>3. held' \in {"no", "far", "lost"}
      BY <1>6 DEF Waits, Release
    <2>4. op'.f \in Functions /\ op'.n \in Nat
      BY <1>6 DEF Waits, Return, GoOn, Idle, Functions
    <2>5. have' \in Nat /\ age' \in Nat \cup {Unset}
      BY <1>6 DEF Waits, Return, GoOn, Began, Unset
    <2>6. spin' \in Nat
      BY <1>6 DEF Waits, Return, GoOn
    <2>7. old' \in Nat
      BY <1>6, <2>1 DEF Waits, Return, GoOn, OldRoom
    <2> QED
      BY <2>1, <2>2, <2>3, <2>4, <2>5, <2>6, <2>7
  <1>7. CASE Writes
    BY <1>7 DEF Writes, Return, LookIf, Look, Idle, Unset, Functions
  <1>8. CASE WriteBlock
    <2>1. Room \in Nat /\ op.n - have \in Nat
      BY <1>8, LineAssumption DEF WriteBlock, Room, Output, Frames
    <2>2. have' \in Nat
      BY <1>8, <2>1 DEF WriteBlock, Return
    <2>3. /\ age' \in {age, Unset} /\ spin' \in {spin, 0} /\ old' \in {old, 0}
          /\ op' \in {op, Idle}
      BY <1>8 DEF WriteBlock, Return, loop
    <2> QED
      BY <1>8, <2>2, <2>3 DEF WriteBlock, history, Idle, Functions
  <1>9. CASE CallFlush
    BY <1>9 DEF CallFlush, LookIf, Look, driver, loop, Functions
  <1>10. CASE s_w_flush
    <2>1. system' = system /\ in' = in /\ away' = away /\ stuck' = stuck
      BY <1>10 DEF s_w_flush
    <2>2. waittime' \in 0..3
      BY <1>10 DEF s_w_flush, LookIf, Look
    <2>3. held' \in {"no", "far", "lost"}
      BY <1>10 DEF s_w_flush, Wait, TryAgain, Release
    <2>4. op' \in {op, Idle} /\ have' \in {have, 0} /\ age' \in {age, Unset} /\ spin' = spin
          /\ old' = old
      BY <1>10 DEF s_w_flush, Flushed, Wait, TryAgain, loop
    <2> QED
      BY <2>1, <2>2, <2>3, <2>4 DEF Idle, Functions
  <1>11. CASE CallSread
    BY <1>11, LineAssumption DEF CallSread, driver, history, Functions
  <1>12. CASE ReadDos
    BY <1>12 DEF ReadDos, Return, LookIf, Look, Take, loop, Idle, Unset, Functions
  <1>13. CASE PollOs2
    BY <1>13 DEF PollOs2, Return, Take, Lower, Idle, Unset, Functions, Output
  <1>14. CASE ReadOs2
    BY <1>14 DEF ReadOs2, Return, LookIf, Look, Take, Lower, Idle, Unset, Functions, Frames
  <1>15. CASE SetConnected
    <2>0. waittime' = waittime \/ waittime' = 0
      BY <1>15, Zenon DEF SetConnected
    <2>1. waittime' \in 0..3
      BY <2>0
    <2> QED
      BY <1>15, <2>1, Zenon DEF SetConnected, driver, loop
  <1>16. CASE Hangup
    BY <1>16 DEF Hangup, loop
  <1> QED
    BY <1>1, <1>2, <1>3, <1>4, <1>5, <1>6, <1>7, <1>8, <1>9, <1>10, <1>11, <1>12, <1>13, <1>14,
       <1>15, <1>16 DEF LineNext, World, Work, swrite, sread

LEMMA OutputKept == ASSUME LineInv, LineNext PROVE Output'
  <1>1. CASE out' = out
    BY <1>1, SameSystem DEF LineInv, Output
  <1>2. CASE Transmit
    <2>1. out # <<>> /\ out' = Tail(out) /\ system' = system
      BY <1>2 DEF Transmit
    <2>2. Len(Tail(out)) = Len(out) - 1
      BY <2>1 DEF LineInv, Output
    <2>3. /\ out \in Seq({"this"}) => Tail(out) \in Seq({"this"})
          /\ out \in Seq({"this", "last"}) => Tail(out) \in Seq({"this", "last"})
      BY <2>1
    <2>4. Len(out) \in Nat /\ Len(out) <= OSize /\ OSize \in Nat
      BY LineAssumption DEF LineInv, Output
    <2>5. Len(out') <= OSize
      BY <2>1, <2>2, <2>4
    <2> QED
      BY <2>1, <2>3, <2>5 DEF LineInv, Output
  <1>3. CASE Writes \/ WriteBlock
    <2>1. PICK n \in Nat : out' = out \/ (out' = out \o These(n) /\ n <= Room)
      <3>1. CASE Writes
        BY <3>1 DEF Writes, Fits, LineInv, LineTypeOK
      <3>2. CASE WriteBlock
        <4>1. Room \in Nat /\ op.n - have \in Nat
          BY <3>2, LineAssumption DEF WriteBlock, LineInv, LineTypeOK, Frames, Room, Output
        <4> DEFINE k == IF Room < op.n - have THEN Room ELSE op.n - have
        <4>2. k \in Nat /\ k <= Room
          BY <4>1
        <4>3. out' = out \o These(k)
          BY <3>2 DEF WriteBlock
        <4> QED
          BY <4>2, <4>3
      <3> QED
        BY <1>3, <3>1, <3>2
    <2>2. These(n) \in Seq({"this"}) /\ Len(These(n)) = n
      BY DEF These
    <2>3. /\ out \in Seq({"this"}) => out \o These(n) \in Seq({"this"})
          /\ out \in Seq({"this", "last"}) => out \o These(n) \in Seq({"this", "last"})
      BY <2>2
    <2>4. Len(out \o These(n)) = Len(out) + n
      BY <2>2 DEF LineInv, Output
    <2>5. Len(out) \in Nat /\ OSize \in Nat
      BY LineAssumption DEF LineInv, Output
    <2>6. CASE out' # out
      <3>1. Len(out') <= OSize
        BY <2>1, <2>4, <2>5, <2>6 DEF Room
      <3> QED
        BY <2>1, <2>3, <2>6, <3>1, SameSystem DEF LineInv, Output
    <2> QED
      BY <1>1, <2>6
  <1>4. CASE Hangup
    <2>1. CASE system = "dos"
      BY <1>4, <2>1, LineAssumption DEF Hangup, Output
    <2>2. CASE system # "dos"
      <3>1. out' = Olden(out) /\ system' = system
        BY <1>4, <2>2 DEF Hangup
      <3>2. Olden(out) \in Seq({"last"}) /\ Len(Olden(out)) = Len(out)
        BY DEF Olden, LineInv, Output
      <3> QED
        BY <2>2, <3>1, <3>2 DEF LineInv, Output
    <2> QED
      BY <2>1, <2>2
  <1>5. out' = out \/ Transmit \/ Writes \/ WriteBlock \/ Hangup
    BY DEF LineNext, World, Modem, Stop, Go, Receive, Press, Tick, Work, swrite, CallSwrite, Waits,
       CallFlush, s_w_flush, sread, CallSread, ReadDos, PollOs2, ReadOs2, SetConnected, driver
  <1> QED
    BY <1>1, <1>2, <1>3, <1>4, <1>5

\* Who reads a line or writes to it looks at the carrier, or does not.
Looked == /\ UNCHANGED <<cd, away, connected>>
          /\ UNCHANGED <<waittime, blinked>> \/ Look
LEMMA CarrierSteps ==
  ASSUME LineNext PROVE Modem \/ Tick \/ SetConnected \/ Hangup \/ Looked
  <1>1. CASE Stop \/ Go \/ Transmit \/ Receive \/ Press
    BY <1>1, Zenon DEF Stop, Go, Transmit, Receive, Press, Looked, history
  <1>2. CASE swrite
    BY <1>2, Zenon DEF swrite, CallSwrite, Waits, Writes, WriteBlock, LookIf, Looked, driver, history
  <1>3. CASE CallFlush \/ s_w_flush
    BY <1>3, Zenon DEF CallFlush, s_w_flush, LookIf, Looked, driver
  <1>4. CASE sread
    BY <1>4, Zenon DEF sread, CallSread, ReadDos, PollOs2, ReadOs2, LookIf, Looked, driver, history
  <1> QED
    BY <1>1, <1>2, <1>3, <1>4 DEF LineNext, World, Work

LEMMA MissedKept == ASSUME LineInv, LineNext PROVE Missed'
  <1> SUFFICES ASSUME connected', ~NoCheckCarrier', waittime' # 0
               PROVE  blinked' \/ (~cd' /\ away' + 1 >= waittime')
    BY DEF Missed
  <1>0. ~NoCheckCarrier /\ waittime \in 0..3 /\ away \in 0..2
    BY SameSystem DEF LineInv, LineTypeOK
  <1>1. CASE Modem
    BY <1>0, <1>1 DEF Modem, LineInv, Flags, Missed
  <1>2. CASE Tick
    BY <1>0, <1>2 DEF Tick, LineInv, Flags, Missed
  <1>3. CASE SetConnected
    BY <1>0, <1>3, Zenon DEF SetConnected
  <1>4. CASE Hangup
    BY <1>4 DEF Hangup
  <1>5. CASE Looked
    <2>1. CASE UNCHANGED <<waittime, blinked>>
      BY <1>0, <1>5, <2>1 DEF Looked, LineInv, Missed
    <2>2. CASE Look
      BY <1>0, <1>5, <2>2 DEF Look, Looked, LineInv, Flags, Missed
    <2> QED
      BY <1>5, <2>1, <2>2 DEF Looked
  <1> QED
    BY <1>1, <1>2, <1>3, <1>4, <1>5, CarrierSteps

LEMMA FramesKept == ASSUME LineInv, LineNext PROVE Frames'
  <1> USE SameSystem DEF LineInv, Frames
  <1>1. CASE UNCHANGED <<op, have, age, spin, old, ret, flush, need_out_flush>>
    BY <1>1
  <1>2. CASE Tick
    BY <1>2 DEF Tick, Older, loop, floop
  <1>3. CASE CallSwrite
    <2>1. PICK n \in WLens : op' = [f |-> "swrite", n |-> n, timeout |-> 0]
      BY <1>3 DEF CallSwrite
    <2>2. n \in 1..OSize
      BY LineAssumption
    <2>3. UNCHANGED <<have, age, spin, old, flush, need_out_flush>> /\ op = Idle /\ ret' = "none"
      BY <1>3 DEF CallSwrite, loop, floop
    <2> QED
      BY <2>1, <2>2, <2>3 DEF Idle
  <1>4. CASE Waits
    BY <1>4 DEF Waits, GoOn, Return, Idle, floop
  <1>5. CASE Writes
    BY <1>5 DEF Writes, Return, Idle, floop
  <1>6. CASE WriteBlock
    <2>1. Room \in Nat /\ op.n \in Nat /\ have \in Nat
      BY LineAssumption DEF Room, Output, LineTypeOK
    <2> DEFINE k == IF Room < op.n - have THEN Room ELSE op.n - have
    <2>2. CASE have + k = op.n
      BY <1>6, <2>2 DEF WriteBlock, Return, Idle, floop
    <2>3. CASE have + k # op.n
      <3>1. have' = have + k /\ UNCHANGED <<op, ret, age, spin, old, flush, need_out_flush>>
        BY <1>6, <2>3 DEF WriteBlock, loop, floop
      <3>2. have + k < op.n
        BY <1>6, <2>1, <2>3 DEF WriteBlock
      <3>3. op.f = "swrite" /\ system = "os2"
        BY <1>6 DEF WriteBlock
      <3> QED
        BY <3>1, <3>2, <3>3
    <2> QED
      BY <2>2, <2>3
  <1>7. CASE CallFlush
    BY <1>7 DEF CallFlush, StartFlush, Idle, floop, loop
  <1>8. CASE s_w_flush
    <2>1. /\ system = "dos" /\ op.f \in {"w_flush", "sread"} /\ spin' = spin /\ old' = old
          /\ need_out_flush' = need_out_flush
      BY <1>8 DEF s_w_flush, Flushed, Wait, TryAgain, loop
    <2>2. \/ UNCHANGED <<op, have, age>>
          \/ op' = Idle /\ ~flush' /\ ((op.f = "w_flush" /\ UNCHANGED <<have, age>>) \/ (have' = 0 /\ age' = Unset))
      BY <1>8 DEF s_w_flush, Flushed, Wait, TryAgain, loop
    <2> QED
      BY <2>1, <2>2 DEF Idle
  <1>9. CASE CallSread
    <2>1. PICK n \in RLens, t \in Timeouts : op' = [f |-> "sread", n |-> n, timeout |-> t]
      BY <1>9 DEF CallSread
    <2>2. n \in Nat
      BY LineAssumption
    <2>3. UNCHANGED <<have, spin, old, flush, need_out_flush>> /\ op = Idle
      BY <1>9 DEF CallSread, floop
    <2> QED
      BY <2>1, <2>2, <2>3 DEF Idle
  <1>10. CASE ReadDos
    BY <1>10 DEF ReadDos, Return, StartFlush, Idle, loop, floop
  <1>11. CASE PollOs2
    BY <1>11 DEF PollOs2, Return, Idle, floop
  <1>12. CASE ReadOs2
    BY <1>12 DEF ReadOs2, Return, Take, Lower, Idle, floop, LineTypeOK
  <1>13. CASE SetConnected \/ Hangup
    <2>1. op = Idle /\ UNCHANGED <<op, have, age, spin, old, flush, need_out_flush>>
      BY <1>13, Zenon DEF SetConnected, Hangup, loop, floop
    <2> QED
      BY <2>1 DEF Idle
  <1>14. CASE Modem \/ Stop \/ Go \/ Transmit \/ Receive \/ Press
    BY <1>1, <1>14, Zenon DEF Modem, Stop, Go, Transmit, Receive, Press, loop, floop
  <1> QED
    BY <1>2, <1>3, <1>4, <1>5, <1>6, <1>7, <1>8, <1>9, <1>10, <1>11, <1>12, <1>13, <1>14
    DEF LineNext, World, Work, swrite, sread

\* Whatever the program does that is not a turn of swrite's loop is no swrite.
LEMMA WriteSteps ==
  ASSUME LineInv, LineNext, op'.f = "swrite"
  PROVE  \/ CallSwrite
         \/ op' = op /\ (World \/ Waits \/ WriteBlock)
  <1> USE DEF LineInv, Frames
  <1>1. CASE World
    BY <1>1, Zenon DEF World, Modem, Stop, Go, Transmit, Receive, Press, Tick
  <1>2. CASE Waits
    BY <1>2 DEF Waits, GoOn, Return, Idle
  <1>3. CASE WriteBlock
    BY <1>3 DEF WriteBlock, Return, Idle
  <1>4. CASE Writes
    BY <1>4 DEF Writes, Return, Idle
  <1>5. CASE CallFlush
    BY <1>5 DEF CallFlush, Idle
  <1>6. CASE s_w_flush
    <2>1. op.f # "swrite" /\ op' \in {op, Idle}
      BY <1>6 DEF s_w_flush, Flushed, Wait, TryAgain
    <2> QED
      BY <2>1 DEF Idle
  <1>7. CASE sread
    BY <1>7 DEF sread, CallSread, ReadDos, PollOs2, ReadOs2, Return, Idle
  <1>8. CASE SetConnected \/ Hangup
    <2>1. op' = Idle
      BY <1>8, Zenon DEF SetConnected, Hangup
    <2> QED
      BY <2>1 DEF Idle
  <1> QED
    BY <1>1, <1>2, <1>3, <1>4, <1>5, <1>6, <1>7, <1>8 DEF LineNext, Work, swrite

LEMMA Counts ==
  ASSUME LineInv
  PROVE  /\ Room \in Nat /\ OSize \in Nat /\ Len(out) \in Nat /\ Room = OSize - Len(out)
         /\ op.n \in Nat /\ OldRoom \in Nat /\ Began \in Nat
         /\ Needed \in Nat /\ 2 * Needed + 1 >= OSize /\ Needed >= op.n - OldRoom
  <1>1. Room \in Nat /\ OSize \in Nat /\ Len(out) \in Nat /\ Room = OSize - Len(out)
    BY LineAssumption DEF LineInv, Output, Room
  <1>2. op.n \in Nat /\ OldRoom \in Nat /\ Began \in Nat
    BY <1>1 DEF LineInv, LineTypeOK, OldRoom, Began, Unset
  <1>3. OSize \div 2 \in Nat /\ 2 * (OSize \div 2) + 1 >= OSize
    BY <1>1
  <1>4. Needed \in Nat /\ 2 * Needed + 1 >= OSize /\ Needed >= op.n - OldRoom
    BY <1>1, <1>2, <1>3 DEF Needed
  <1> QED
    BY <1>1, <1>2, <1>4

\* If all that was to go out has gone there is room.
LEMMA EmptyFits ==
  ASSUME LineInv, op.f = "swrite", out = <<>>
  PROVE  Fits
  <1>1. Room = OSize
    BY Counts
  <1>2. op.n \in 1..OSize
    BY DEF LineInv, Frames
  <1> QED
    BY <1>1, <1>2, Counts DEF Fits

\* The time is over: if nothing has gone out in it an XON is missing.
LEMMA NothingMoved ==
  ASSUME LineInv, op.f = "swrite", system = "dos", ~excuse,
         ~Fits, Began > Needed, OldRoom = Room
  PROVE  held = "lost" /\ ~moved
  <1>1. out # <<>>
    BY EmptyFits
  <1>2. age # Unset /\ age \in Nat /\ age > Needed /\ old = Room
    BY Counts DEF LineInv, LineTypeOK, Began, OldRoom
  <1>3. Needed >= 1
    <2>1. op.n \in 1..OSize
      BY DEF LineInv, Frames
    <2>2. Room < op.n \/ 2 * Room <= OSize
      BY Counts, <2>1 DEF Fits
    <2> QED
      BY Counts, <2>1, <2>2
  <1>4. ~moved
    BY <1>2, <1>3, Counts DEF LineInv, Progress
  <1>5. ASSUME held = "no" PROVE FALSE
    <2> DEFINE m == One(moved)
               b == One(spin = 0 \/ old >= 1)
    <2>1. age + m <= Room - old + b
      BY <1>1, <1>2, <1>5 DEF LineInv, Progress
    <2>2. m \in 0..1 /\ b \in 0..1
      BY DEF One
    <2>3. Room - old = 0
      BY <1>2, Counts
    <2> HIDE DEF m, b
    <2>4. age <= 1
      BY <1>2, <2>1, <2>2, <2>3
    <2> QED
      BY <1>2, <1>3, <2>4, Counts
  <1>6. held \in {"no", "far", "lost"} /\ held # "far"
    BY DEF LineInv, LineTypeOK, Releases
  <1> QED
    BY <1>4, <1>5, <1>6

\* After a release, as much goes out in the time as there must be room for.
LEMMA EnoughMoved ==
  ASSUME LineInv, op.f = "swrite", system = "dos", ~excuse,
         ~Fits, Began > Needed, spin >= 1
  PROVE  held = "lost"
  <1>1. out # <<>>
    BY EmptyFits
  <1>2. age # Unset /\ age \in Nat /\ age > Needed /\ OldRoom = old /\ old \in Nat
    BY Counts DEF LineInv, LineTypeOK, Began, OldRoom
  <1>3. ASSUME held = "no" PROVE FALSE
    <2>1. age + One(moved) <= Room - old + One(spin = 0 \/ old >= 1)
      BY <1>1, <1>2, <1>3 DEF LineInv, Progress
    <2>2. One(moved) \in 0..1 /\ spin # 0
      BY DEF One, LineInv, LineTypeOK
    <2>3. age <= Room - old + One(old >= 1)
      BY <1>2, <2>1, <2>2, Counts DEF One
    <2>4. Room >= Needed + 1 /\ Room - old + One(old >= 1) >= Needed + 1
      BY <1>2, <2>3, Counts DEF One
    <2>5. Room >= op.n
      BY <1>2, <2>3, Counts DEF One
    <2> QED
      BY <2>4, <2>5, Counts DEF Fits
  <1>4. held \in {"no", "far", "lost"} /\ held # "far"
    BY DEF LineInv, LineTypeOK, Releases
  <1> QED
    BY <1>3, <1>4

LEMMA ReleasesKept == ASSUME LineInv, LineNext PROVE Releases'
  <1> SUFFICES ASSUME op'.f = "swrite", ~excuse'
               PROVE  /\ ~esc' /\ held' # "far" /\ connected'
                      /\ stuck' <= MAXSPIN => spin' + One(held' = "lost") <= stuck'
    BY DEF Releases, One
  <1> USE DEF One
  <1>0. MAXSPIN \in Nat /\ stuck \in Nat /\ spin \in Nat
    BY LineAssumption DEF LineInv, LineTypeOK
  <1>1. CASE CallSwrite
    <2>1. spin = 0
      BY <1>1 DEF CallSwrite, LineInv, Frames, Idle
    <2>2. ~esc /\ held # "far" /\ connected
      BY <1>1 DEF CallSwrite
    <2>3. stuck' = IF held = "lost" THEN 1 ELSE 0
      BY <1>1 DEF CallSwrite
    <2>4. UNCHANGED <<esc, held, connected, spin>>
      BY <1>1 DEF CallSwrite, driver, loop
    <2> QED
      BY <2>1, <2>2, <2>3, <2>4
  <1>2. CASE op' = op /\ ~CallSwrite /\ excuse
    <2>1. excuse'
      BY <1>2, WriteSteps, Zenon DEF World, Modem, Stop, Go, Transmit, Receive, Press, Tick, Waits, WriteBlock
    <2> QED
      BY <2>1
  <1>3. CASE op' = op /\ ~CallSwrite /\ ~excuse
    <2>0. op.f = "swrite" /\ Releases /\ Frames /\ Progress
      BY <1>3 DEF LineInv
    <2>1. ~esc /\ held # "far" /\ connected /\ (stuck <= MAXSPIN => spin + One(held = "lost") <= stuck)
      BY <1>3, <2>0 DEF Releases
    <2>2. CASE Stop
      <3>1. held = "no" /\ held' = "lost"
        BY <2>0, <2>2 DEF Stop
      <3>2. stuck' = IF stuck <= MAXSPIN THEN stuck + 1 ELSE stuck
        BY <2>0, <2>2, <3>1 DEF Stop
      <3>3. UNCHANGED <<esc, connected, spin>>
        BY <2>2 DEF Stop, loop
      <3> QED
        BY <1>0, <2>1, <3>1, <3>2, <3>3
    <2>3. CASE Press
      BY <2>0, <2>3 DEF Press
    <2>4. CASE Modem \/ Go \/ Transmit \/ Receive \/ Tick
      <3>1. held = held'
        BY <2>1, <2>4, Zenon DEF Modem, Go, Transmit, Receive, Tick
      <3>2. UNCHANGED <<esc, connected, spin, stuck>>
        BY <2>4, Zenon DEF Modem, Go, Transmit, Receive, Tick, loop
      <3> QED
        BY <2>1, <3>1, <3>2
    <2>5. CASE WriteBlock
      <3>1. UNCHANGED <<esc, held, connected, stuck>>
        BY <2>5 DEF WriteBlock
      <3>2. spin' = spin
        BY <1>3, <2>0, <2>5 DEF WriteBlock, Return, loop, Idle
      <3> QED
        BY <2>1, <3>1, <3>2
    <2>6. CASE Waits
      <3>1. UNCHANGED <<connected, stuck>> /\ ~esc'
        BY <2>1, <2>6 DEF Waits
      <3>2. CASE UNCHANGED <<spin, held>>
        BY <2>1, <3>1, <3>2
      <3>3. CASE ~UNCHANGED <<spin, held>>
        <4>1. Began > Needed /\ spin' = spin + 1 /\ Release /\ OldRoom = Room /\ ~Fits /\ system = "dos"
          <5>1. op' # Idle
            BY <1>3, <2>0 DEF Idle
          <5>2. ~Fits /\ system = "dos" /\ (esc \/ Began > Needed)
            BY <2>6, <3>3 DEF Waits
          <5>3. (OldRoom = Room \/ Began <= Needed) /\ spin' = spin + 1 /\ Release
            BY <2>6, <3>3, <5>1, <5>2 DEF Waits, Return
          <5>4. Began \in Nat /\ Needed \in Nat
            BY Counts
          <5> QED
            BY <2>1, <5>2, <5>3, <5>4
        <4>2. held = "lost"
          BY <1>3, <2>0, <4>1, NothingMoved
        <4> QED
          BY <1>0, <2>1, <3>1, <4>1, <4>2 DEF Release
      <3> QED
        BY <3>2, <3>3
    <2> QED
      BY <1>3, <2>2, <2>3, <2>4, <2>5, <2>6, WriteSteps DEF World
  <1> QED
    BY <1>1, <1>2, <1>3, WriteSteps

LEMMA ProgressKept == ASSUME LineInv, LineNext PROVE Progress'
  <1> SUFFICES ASSUME op'.f = "swrite", ~excuse', system' = "dos"
               PROVE  /\ age' = Unset /\ spin' >= 1 /\ moved' => Room' >= 1
                      /\ age' # Unset =>
                           /\ old' <= Room'
                           /\ age' >= 1 /\ moved' => Room' > old'
                           /\ held' = "no" /\ out' # <<>> =>
                                 age' + One(moved') <= Room' - old' + One(spin' = 0 \/ old' >= 1)
    BY DEF Progress, One, Room
  <1>0. system = "dos"
    BY SameSystem
  <1>1. CASE CallSwrite
    BY <1>1 DEF CallSwrite, LineInv, Frames, Idle, loop
  <1>2. CASE op' = op /\ ~CallSwrite /\ excuse
    <2>1. excuse'
      BY <1>2, WriteSteps, Zenon DEF World, Modem, Stop, Go, Transmit, Receive, Press, Tick, Waits, WriteBlock
    <2> QED
      BY <2>1
  <1>3. CASE op' = op /\ ~CallSwrite /\ ~excuse
    <2>0. op.f = "swrite"
      BY <1>3
    <2>1. /\ age = Unset /\ spin >= 1 /\ moved => Room >= 1
          /\ age # Unset =>
               /\ old <= Room
               /\ age >= 1 /\ moved => Room > old
               /\ held = "no" /\ out # <<>> =>
                     age + One(moved) <= Room - old + One(spin = 0 \/ old >= 1)
      BY <1>0, <1>3, <2>0 DEF LineInv, Progress
    <2>2. ~esc /\ held # "far"
      BY <1>3, <2>0 DEF LineInv, Releases
    <2>3. /\ Room \in Nat /\ old \in Nat /\ spin \in Nat /\ age \in Nat \cup {Unset}
          /\ One(moved) \in 0..1 /\ One(spin = 0 \/ old >= 1) \in 0..1
      BY Counts DEF LineInv, LineTypeOK, One
    <2>4. CASE Modem \/ Go \/ Receive
      <3>1. UNCHANGED <<out, moved, held, age, spin, old>>
        BY <2>2, <2>4, Zenon DEF Modem, Go, Receive, loop
      <3>2. Room' = Room /\ One(moved') = One(moved)
        BY <3>1 DEF Room
      <3> QED
        BY <2>1, <3>1, <3>2
    <2>5. CASE Press
      BY <2>0, <2>5 DEF Press
    <2>6. CASE Stop
      <3>1. held' = "lost" /\ UNCHANGED <<out, moved, age, spin, old>>
        BY <2>0, <2>6 DEF Stop, loop
      <3>2. Room' = Room
        BY <3>1 DEF Room
      <3> QED
        BY <2>1, <3>1, <3>2
    <2>7. CASE Transmit
      <3>1. held = "no" /\ out # <<>> /\ out' = Tail(out) /\ moved'
        BY <2>7 DEF Transmit
      <3>2. UNCHANGED <<held, age, spin, old>>
        BY <2>7 DEF Transmit, loop
      <3>3. Len(out') = Len(out) - 1
        BY <3>1 DEF LineInv, Output
      <3>4. Room' = Room + 1
        BY <3>3, Counts DEF Room
      <3>5. One(moved') = 1
        BY <3>1 DEF One
      <3> QED
        BY <2>1, <2>3, <3>1, <3>2, <3>4 DEF One
    <2>8. CASE Tick
      <3>1. (out = <<>> \/ held # "no" \/ moved) /\ ~moved'
        BY <2>8 DEF Tick
      <3>2. UNCHANGED <<held, out, spin, old>>
        BY <2>8 DEF Tick
      <3>3. Room' = Room /\ One(moved') = 0
        BY <3>1, <3>2 DEF Room, One
      <3>4. /\ age = Unset => age' = Unset
            /\ age # Unset => age' # Unset /\ age' \in {age, age + 1}
        BY <2>3, <2>8 DEF Tick, Older, Unset
      <3>5. moved => One(moved) = 1
        BY DEF One
      <3> QED
        BY <2>1, <2>3, <3>1, <3>2, <3>3, <3>4, <3>5
    <2>9. CASE Waits
      <3>1. UNCHANGED <<out, moved>> /\ ~Fits
        BY <2>9 DEF Waits
      <3>2. Room' = Room /\ One(moved') = One(moved)
        BY <3>1 DEF Room, One
      <3>3. op' # Idle
        BY <1>3, <2>0 DEF Idle
      <3>4. CASE Began > Needed
        <4>0. Began \in Nat /\ Needed \in Nat
          BY Counts
        <4>1. /\ age' = Unset
              /\ spin' = IF OldRoom = Room THEN spin + 1 ELSE spin
          BY <2>9, <3>3, <3>4, <4>0 DEF Waits, Return
        <4>2. CASE OldRoom = Room
          BY <1>0, <1>3, <2>0, <3>1, <3>4, <4>1, <4>2, NothingMoved
        <4>3. CASE OldRoom # Room
          <5>1. age # Unset /\ OldRoom = old
            BY <4>3 DEF OldRoom
          <5>2. Room' >= 1
            BY <2>1, <2>3, <3>2, <4>3, <5>1
          <5> QED
            BY <4>1, <5>2
        <4> QED
          BY <4>2, <4>3
      <3>5. CASE ~(Began > Needed)
        <4>1. age' = Began /\ old' = OldRoom /\ UNCHANGED <<spin, held>>
          BY <2>2, <2>9, <3>5 DEF Waits
        <4>2. CASE age = Unset
          <5>1. age' = 0 /\ old' = Room
            BY <4>1, <4>2 DEF Began, OldRoom
          <5>2. moved => spin = 0 \/ Room >= 1
            BY <2>1, <2>3, <4>2
          <5>3. One(moved) <= One(spin = 0 \/ Room >= 1)
            BY <5>2 DEF One
          <5>4. (spin' = 0 \/ old' >= 1) <=> (spin = 0 \/ Room >= 1)
            BY <4>1, <5>1
          <5>5. One(spin' = 0 \/ old' >= 1) = One(spin = 0 \/ Room >= 1)
            BY <5>4 DEF One
          <5>6. One(moved') <= One(spin' = 0 \/ old' >= 1)
            BY <3>2, <5>3, <5>5
          <5>7. Room' - old' = 0
            BY <2>3, <3>2, <5>1
          <5> QED
            BY <2>3, <3>2, <5>1, <5>6, <5>7 DEF Unset, One
        <4>3. CASE age # Unset
          <5>1. age' = age /\ old' = old
            BY <4>1, <4>3 DEF Began, OldRoom
          <5> QED
            BY <2>1, <3>1, <3>2, <4>1, <5>1
        <4> QED
          BY <4>2, <4>3
      <3> QED
        BY <3>4, <3>5
    <2>10. CASE WriteBlock
      BY <1>0, <2>10 DEF WriteBlock
    <2> QED
      BY <1>3, <2>4, <2>5, <2>6, <2>7, <2>8, <2>9, <2>10, WriteSteps DEF World
  <1> QED
    BY <1>1, <1>2, <1>3, WriteSteps

LEMMA LineStart == ASSUME LineInit PROVE LineInv
  <1> USE LineAssumption DEF LineInit, Idle, Unset
  <1>1. Flags
    BY DEF Flags
  <1>4. LineTypeOK
    BY DEF LineTypeOK, Functions
  <1>2. Frames /\ Missed /\ Releases /\ Progress
    BY DEF Frames, Missed, Releases, Progress
  <1>3. Output
    BY DEF Output
  <1> QED
    BY <1>1, <1>2, <1>3, <1>4 DEF LineInv

LEMMA LineStutters == ASSUME LineInv, UNCHANGED lineVars PROVE LineInv'
  <1> USE DEF LineInv, lineVars, driver, loop, floop, history
  <1>1. Flags' /\ LineTypeOK'
    BY DEF Flags, LineTypeOK
  <1>2. Frames' /\ Missed' /\ Output'
    BY DEF Frames, Missed, Output
  <1>3. Releases'
    BY DEF Releases, One
  <1>4. Progress'
    BY DEF Progress, One, Room
  <1> QED
    BY <1>1, <1>2, <1>3, <1>4

\* Each part is kept by every step of the line.
THEOREM LineInvariant == LineSpec => []LineInv
  <1>1. LineInv /\ LineNext => LineInv'
    BY FlagsKept, TypesKept, OutputKept, MissedKept, FramesKept, ReleasesKept, ProgressKept DEF LineInv
  <1> QED
    BY <1>1, LineStart, LineStutters, PTL DEF LineSpec

-----------------------------------------------------------------------------
(***************************************************************************)
(* The line: what is promised.                                             *)
(***************************************************************************)

\* No character of the last call is left in the driver when the next one is
\* connected: Hangup purges what DOS still holds, and only swrite adds to it.
THEOREM NextIsClean == LineSpec => []NextCallClean
  <1>1. LineInv => NextCallClean
    BY DEF LineInv, Output, NextCallClean
  <1> QED
    BY <1>1, LineInvariant, PTL

\* The line is reported lost only by a look that missed the carrier twice, more
\* than a second apart.
LEMMA LossIsTrue ==
  ASSUME LineInv, LineNext, ret' = "lost", ret # "lost"
  PROVE  IF NoCheckCarrier THEN system = "os2" ELSE away = 2 \/ blinked
  <1>1. Lost /\ connected /\ (NoCheckCarrier => system = "os2")
    <2>1. CASE swrite
      BY <2>1 DEF swrite, CallSwrite, Writes, Waits, WriteBlock, Return, GoOn, Looks
    <2>2. CASE CallFlush
      BY <2>2 DEF CallFlush, Looks
    <2>3. CASE s_w_flush
      BY <2>3 DEF s_w_flush, Flushed, Wait, TryAgain, Looks
    <2>4. CASE sread
      BY <2>4 DEF sread, CallSread, ReadDos, PollOs2, ReadOs2, Return, Looks, ReadLooks
    <2>5. CASE World \/ Hangup
      BY <2>5 DEF World, Modem, Stop, Go, Transmit, Receive, Press, Tick, Hangup
    <2>6. CASE SetConnected
      BY <2>6 DEF SetConnected
    <2> QED
      BY <2>1, <2>2, <2>3, <2>4, <2>5, <2>6 DEF LineNext, Work
  <1>2. ~NoCheckCarrier => blinked \/ away + 1 >= 3
    BY <1>1 DEF Lost, LineInv, Missed
  <1> QED
    BY <1>1, <1>2 DEF LineInv, LineTypeOK

\* A line is reported lost only if the carrier has been away for more than a
\* second, or has come and gone while nobody looked.
THEOREM LossesAreTrue == LineSpec => NoFalseLoss
  <1>1. LineInv /\ [LineNext]_lineVars =>
          [ret' = "lost" /\ ret # "lost" =>
             IF NoCheckCarrier THEN system = "os2" ELSE away = 2 \/ blinked]_lineVars
    BY LossIsTrue
  <1> QED
    BY <1>1, LineInvariant, PTL DEF LineSpec, NoFalseLoss

\* A write that times out has released the transmitter MAXSPIN times, and has an
\* XON missing again; or else the other side held the output, or a key was pressed.
LEMMA TimeoutIsExcused ==
  ASSUME LineInv, LineNext, op.f = "swrite", ret' = "timeout"
  PROVE  excuse \/ stuck > MAXSPIN
  <1>1. ret = "none"
    BY DEF LineInv, Frames
  <1>2. Waits
    <2>1. CASE World \/ SetConnected \/ Hangup
      BY <1>1, <2>1 DEF World, Modem, Stop, Go, Transmit, Receive, Press, Tick, SetConnected, Hangup
    <2>2. CASE CallSwrite \/ Writes \/ WriteBlock
      BY <1>1, <2>2 DEF CallSwrite, Writes, WriteBlock, Return
    <2>3. CASE CallFlush \/ CallSread
      BY <2>3 DEF CallFlush, CallSread, Idle
    <2>4. CASE s_w_flush
      BY <2>4 DEF s_w_flush, LineInv, Frames
    <2>5. CASE ReadDos \/ PollOs2 \/ ReadOs2
      BY <2>5 DEF ReadDos, PollOs2, ReadOs2
    <2> QED
      BY <2>1, <2>2, <2>3, <2>4, <2>5 DEF LineNext, Work, swrite, sread
  <1>3. SUFFICES ASSUME ~excuse PROVE stuck > MAXSPIN
    OBVIOUS
  <1>4. ~esc /\ connected /\ (stuck <= MAXSPIN => spin + One(held = "lost") <= stuck)
    BY <1>3 DEF LineInv, Releases
  <1>5. system = "dos" /\ ~Fits /\ Began > Needed /\ ~(spin < MAXSPIN)
    BY <1>1, <1>2, <1>4 DEF Waits, GoOn
  <1>6. MAXSPIN \in Nat \ {0} /\ spin \in Nat /\ stuck \in Nat
    BY LineAssumption DEF LineInv, LineTypeOK
  <1>7. held = "lost"
    BY <1>3, <1>5, <1>6, EnoughMoved
  <1> QED
    BY <1>4, <1>5, <1>6, <1>7 DEF One

\* A write times out only if the other side held the output, a key was pressed,
\* or more XONs were lost than the transmitter is released for.
THEOREM WritesGetThrough == LineSpec => StuckGivesWay
  <1>1. LineInv /\ [LineNext]_lineVars =>
          [op.f = "swrite" /\ ret' = "timeout" => excuse \/ stuck > MAXSPIN]_lineVars
    BY TimeoutIsExcused
  <1> QED
    BY <1>1, LineInvariant, PTL DEF LineSpec, StuckGivesWay

-----------------------------------------------------------------------------
(***************************************************************************)
(* The calls: the inductive invariant.                                     *)
(***************************************************************************)
Loop    == {"speed", "redial", "open", "init", "reply"}
Dials   == {"direct", "expect"} \cup Loop
Rings == {"init_in", "ring", "answer"}
Calling == Master /\ state \in {"CALLUP1", "CALLUP2", "PROTOCOL", "DROPLINE"}

Statuses == {"nocall", "autodial", "wrong_time", "invalid_device", "dial_script_failed", "dial_failed",
             "max_retry", "script_failed", "startup_failed", "called", "call_failed"}
CallTypeOK ==
    /\ mode \in {"master", "slave"}
    /\ state \in {"INITIALIZE", "CALLUP1", "CALLUP2", "ANSWER", "LOGIN", "PROTOCOL", "DROPLINE", "EXIT"}
    /\ at \in {"none"} \cup Dials \cup Rings
    /\ line \in 0 .. Len(Systems) /\ cur \in 0 .. Len(Systems)
    /\ port \in BOOLEAN /\ fail_attempts \in Nat
    /\ host \in [Hosts -> [status : Statuses, attempts : Nat, idlewait : Int]]
    /\ failed \in [Hosts -> Nat]

\* Who is where, and that there is a host when one is called.
Places ==
    /\ at \in Dials => state = "CALLUP2"
    /\ at \in Rings => state = "ANSWER"
    /\ state \in {"CALLUP1", "CALLUP2"} => Master
    /\ state \in {"ANSWER", "LOGIN"} => Slave
    /\ Calling => cur # None /\ limit = cur

\* The port is closed also while a caller is between two lines it has tried.
Ports ==
    /\ state \in {"INITIALIZE", "CALLUP1"} => ~port
    /\ state \in {"CALLUP2", "ANSWER"} /\ at \in {"none", "direct", "speed", "redial", "open"} => ~port
    /\ Master /\ state = "EXIT" => ~port

\* What is remembered of a host is how often it was not reached, except on the
\* way from FailedAttempt to DropLine.
Attempts ==
    /\ Calling => fail_attempts = failed[hostp]
    /\ \A h \in Hosts : host[h].attempts = failed[h] \/ (Master /\ state = "DROPLINE" /\ h = hostp)

Within == Line.count = 0 \/ failed[hostp] < Line.count
Done(f) == dial.passes[f] = MaxTry \/ f \in dial.busy
Phones == 0 .. Line.phones - 1

Records == [irate : Nat, frate : Phones, trycount : 0 .. MaxTry, changed : BOOLEAN,
            first : BOOLEAN, passes : [Phones -> 0 .. MaxTry], busy : SUBSET Phones,
            why : {"none", "modem", "phones"}]

(***************************************************************************)
(* cdial: the phones before this one are done with, this one has had as    *)
(* many passes as it is counted for; a number is dialled only within the   *)
(* limit, and cdial goes on within it.                                     *)
(***************************************************************************)
Dialling ==
    at \in Loop =>
       /\ dial \in Records
       /\ dial.trycount <= dial.passes[dial.frate]
       /\ at # "speed" => dial.trycount < MaxTry
       /\ \A f \in Phones : f < dial.frate => Done(f)
       /\ dial.why = "phones" => \A f \in Phones : Done(f)
       /\ dial.changed => at \in {"speed", "redial"}
       /\ at \in {"open", "init", "reply"} => ~dial.first
       /\ ~dial.first => Within

CallInv == CallTypeOK /\ Places /\ Ports /\ Attempts /\ Dialling

\* The line of the systems file that is tried.
LEMMA TheLine ==
  ASSUME CallInv, Calling
  PROVE  /\ cur \in 1 .. Len(Systems) /\ cur # None /\ limit = cur
         /\ Line.host = hostp /\ hostp \in Hosts
         /\ Line.phones \in Nat \ {0} /\ Line.count \in Nat /\ Line.idle \in Int
         /\ MaxFailAttempts = Line.count
  <1>1. cur \in 1 .. Len(Systems) /\ limit = cur /\ cur # None
    BY CallAssumption DEF CallInv, CallTypeOK, Places, None, CallConstants
  <1>2. Systems \in Seq(Lines)
    BY CallAssumption DEF CallConstants
  <1>3. Systems[cur] \in Lines
    BY <1>1, <1>2
  <1>4. hostp \in Hosts
    BY <1>1, <1>2 DEF Hosts, hostp, Line
  <1> QED
    BY <1>1, <1>3, <1>4 DEF Lines, Line, hostp, MaxFailAttempts

\* A call's place in dcpmain, callup and callin, and the port there.
LEMMA PathsKept == ASSUME CallInv, Steps PROVE Places' /\ Ports'
  <1> USE DEF CallInv, Places, Ports, Calling, Master, Slave, Dials, Rings, Loop, goto, stay,
              runvars, hostvars, modem, script
  <1>0. mode \in {"master", "slave"} /\ port \in BOOLEAN /\ (at = "none" \/ at \in Dials \/ at \in Rings)
    BY DEF CallTypeOK
  <1>1. CASE Rewind
    BY <1>0, <1>1 DEF Rewind, Initialize
  <1>2. CASE EndOfFile
    BY <1>0, <1>2 DEF EndOfFile, Initialize
  <1>3. CASE getsystem
    <2>1. line + 1 # None
      BY CallAssumption DEF CallTypeOK, CallConstants, None
    <2> QED
      BY <1>0, <1>3, <2>1 DEF getsystem, Initialize
  <1>4. CASE CallUp1
    BY <1>0, <1>4 DEF CallUp1
  <1>5. CASE WrongTime
    BY <1>0, <1>5 DEF WrongTime
  <1>6. CASE callup
    BY <1>0, <1>6 DEF callup
  <1>7. CASE direct
    BY <1>0, <1>7 DEF direct, FailedAttempt
  <1>8. CASE ChooseSpeed
    BY <1>0, <1>8 DEF ChooseSpeed
  <1>9. CASE GiveUp
    BY <1>0, <1>9 DEF GiveUp, FailedAttempt
  <1>10. CASE Redial
    BY <1>0, <1>10 DEF Redial
  <1>11. CASE Open
    BY <1>0, <1>11 DEF Open
  <1>12. CASE BadLine
    BY <1>0, <1>12 DEF BadLine, FailedAttempt
  <1>13. CASE Answers
    BY <1>0, <1>13 DEF Answers
  <1>14. CASE NoAnswer
    BY <1>0, <1>14 DEF NoAnswer
  <1>15. CASE NoReply
    BY <1>0, <1>15 DEF NoReply, AfterReply
  <1>16. CASE Connect
    BY <1>0, <1>16 DEF Connect
  <1>17. CASE Matched
    BY <1>0, <1>17 DEF Matched, Scripted
  <1>18. CASE TimedOut
    BY <1>0, <1>18 DEF TimedOut, Scripted
  <1>19. CASE ScriptFails
    BY <1>0, <1>19 DEF ScriptFails, Scripted
  <1>20. CASE ScriptDone
    BY <1>0, <1>20 DEF ScriptDone
  <1>21. CASE Answer
    BY <1>0, <1>21 DEF Answer
  <1>22. CASE NotToday
    BY <1>0, <1>22 DEF NotToday
  <1>23. CASE callin
    BY <1>0, <1>23 DEF callin
  <1>24. CASE InitIn
    BY <1>0, <1>24 DEF InitIn, FailedIn
  <1>25. CASE Ring
    BY <1>0, <1>25 DEF Ring, FailedIn
  <1>26. CASE AnswerCall
    BY <1>0, <1>26 DEF AnswerCall, FailedIn
  <1>27. CASE login
    BY <1>0, <1>27 DEF login
  <1>28. CASE Session
    BY <1>0, <1>28 DEF Session
  <1>29. CASE DropLine
    BY <1>0, <1>29 DEF DropLine
  <1> QED
    BY <1>1, <1>2, <1>3, <1>4, <1>5, <1>6, <1>7, <1>8, <1>9, <1>10, <1>11, <1>12, <1>13, <1>14, <1>15, <1>16, <1>17, <1>18, <1>19, <1>20, <1>21, <1>22, <1>23, <1>24, <1>25, <1>26, <1>27, <1>28, <1>29 DEF Steps, Calls, IsCalled

\* What is remembered of a host is changed field by field.
HostsType == [Hosts -> [status : Statuses, attempts : Nat, idlewait : Int]]
AttemptsStay(g) == g \in HostsType /\ \A h \in Hosts : g[h].attempts = host[h].attempts
LEMMA HostFields ==
  ASSUME host \in HostsType, NEW h \in Hosts
  PROVE  /\ \A x \in Statuses : AttemptsStay([host EXCEPT ![h].status = x])
         /\ \A w \in Int : AttemptsStay([host EXCEPT ![h].idlewait = w])
         /\ \A x \in Statuses, w \in Int :
               AttemptsStay([host EXCEPT ![h] = [@ EXCEPT !.status = x, !.idlewait = w]])
  BY DEF HostsType, AttemptsStay

LEMMA IdleTypes ==
  ASSUME CallInv, Calling
  PROVE  MIN_IDLE \in Int /\ host[hostp].idlewait \in Int /\ \A w \in Int : increased(w) \in Int
  <1>1. MIN_IDLE \in Int
    BY CallAssumption DEF CallConstants
  <1>2. Max_Idle \in Int
    BY TheLine DEF Max_Idle, None, Line
  <1>3. host[hostp].idlewait \in Int
    BY TheLine DEF CallInv, CallTypeOK
  <1> QED
    BY <1>1, <1>2, <1>3 DEF increased

\* The number of attempts is stored when one has failed, one too low, and when
\* the line is dropped.
LEMMA HostSteps ==
  ASSUME CallInv, Steps
  PROVE  \/ AttemptsStay(host') /\ failed' = failed
         \/ Calling /\ state = "CALLUP2" /\ FailedAttempt
         \/ DropLine
  <1>0. host \in HostsType
    BY DEF CallInv, CallTypeOK, HostsType
  <1>1. CASE host' = host /\ failed' = failed
    BY <1>0, <1>1 DEF AttemptsStay
  <1>2. at \in Dials \/ state \in {"CALLUP1", "CALLUP2"} => Calling
    BY DEF CallInv, Places, Calling
  <1>3. ASSUME Calling, NEW x \in Statuses, Status(x) PROVE AttemptsStay(host')
    BY <1>0, <1>3, TheLine, HostFields DEF Status
  <1>4. Calling => \A w \in Int : AttemptsStay([host EXCEPT ![hostp].idlewait = w])
    BY <1>0, TheLine, HostFields
  <1>5. CASE CallUp1 \/ WrongTime \/ callup
    <2>1. Calling
      BY <1>2, <1>5 DEF CallUp1, WrongTime, callup
    <2>2. /\ failed' = failed
          /\ \/ host' = host \/ Status("autodial") \/ Status("wrong_time")
             \/ Status("invalid_device") \/ Status("dial_script_failed")
      BY <1>5, Zenon DEF CallUp1, WrongTime, callup
    <2> QED
      BY <1>1, <1>3, <2>1, <2>2 DEF Statuses
  <1>6. CASE Matched \/ ScriptFails \/ ScriptDone
    <2>1. Calling
      BY <1>2, <1>6 DEF Matched, ScriptFails, ScriptDone, Scripted, Dials
    <2>2. failed' = failed /\ (host' = host \/ Status("script_failed") \/ Status("startup_failed"))
      BY <1>6, Zenon DEF Matched, ScriptFails, ScriptDone
    <2> QED
      BY <1>1, <1>3, <2>1, <2>2 DEF Statuses
  <1>7. CASE direct
    <2>1. CASE increase_idle /\ failed' = failed
      BY <1>2, <1>4, <1>7, <2>1, IdleTypes DEF direct, increase_idle, Dials
    <2>2. CASE FailedAttempt
      BY <1>2, <1>7, <2>2 DEF direct, Dials, CallInv, Places
    <2> QED
      BY <1>7, <2>1, <2>2 DEF direct
  <1>8. CASE GiveUp \/ BadLine
    BY <1>2, <1>8 DEF GiveUp, BadLine, Dials, Loop, CallInv, Places
  <1>9. CASE Redial
    <2>1. Calling
      BY <1>2, <1>9 DEF Redial, Dials, Loop
    <2>2. \A w \in idle(host[hostp].idlewait) : w \in Int
      BY <2>1, IdleTypes DEF idle
    <2>3. failed' = failed /\ \E w \in idle(host[hostp].idlewait) : host' = [host EXCEPT ![hostp].idlewait = w]
      BY <1>9 DEF Redial
    <2> QED
      BY <1>4, <2>1, <2>2, <2>3
  <1>10. CASE Connect
    <2>1. Calling
      BY <1>2, <1>10 DEF Connect, Dials, Loop
    <2>2. failed' = failed /\ (host' = host \/ increase_idle)
      BY <1>10 DEF Connect
    <2> QED
      BY <1>1, <1>4, <2>1, <2>2, IdleTypes DEF increase_idle
  <1>11. CASE Session
    <2>1. CASE ~Master
      BY <1>1, <1>11, <2>1 DEF Session
    <2>2. CASE Master
      <3>1. Calling
        BY <1>11, <2>2 DEF Session, Calling
      <3>2. \A x \in Statuses, w \in Int :
               AttemptsStay([host EXCEPT ![hostp] = [@ EXCEPT !.status = x, !.idlewait = w]])
        BY <1>0, <3>1, TheLine, HostFields
      <3>3. \/ Status("call_failed")
            \/ host' = [host EXCEPT ![hostp] = [@ EXCEPT !.status = "called", !.idlewait = MIN_IDLE]]
        BY <1>11, <2>2, Zenon DEF Session, Status
      <3>4. failed' = failed
        BY <1>11 DEF Session
      <3>5. AttemptsStay([host EXCEPT ![hostp] = [@ EXCEPT !.status = "called", !.idlewait = MIN_IDLE]])
        BY <3>1, <3>2, IdleTypes DEF Statuses
      <3> QED
        BY <1>3, <3>1, <3>3, <3>4, <3>5 DEF Statuses
    <2> QED
      BY <2>1, <2>2
  <1>12. CASE IsCalled
    BY <1>1, <1>12, Zenon DEF IsCalled, Answer, NotToday, callin, InitIn, Ring, AnswerCall, login, hostvars
  <1>13. CASE Rewind \/ EndOfFile \/ getsystem \/ ChooseSpeed \/ Open \/ Answers \/ NoAnswer \/ NoReply \/ TimedOut
    BY <1>1, <1>13, Zenon DEF Rewind, EndOfFile, getsystem, ChooseSpeed, Open, Answers, NoAnswer, NoReply,
       TimedOut, hostvars
  <1> QED
    BY <1>5, <1>6, <1>7, <1>8, <1>9, <1>10, <1>11, <1>12, <1>13 DEF Steps, Calls

\* Where a step that does not read the systems file leads.
LEMMA StepsElsewhere ==
  ASSUME CallInv, Steps
  PROVE  \/ getsystem
         \/ /\ mode' = mode /\ line' \in {line, 0} /\ cur' \in {cur, None} /\ port' \in BOOLEAN
            /\ fail_attempts' \in {fail_attempts, fail_attempts + 1}
            /\ state' \in {state, "INITIALIZE", "CALLUP2", "ANSWER", "LOGIN", "PROTOCOL", "DROPLINE", "EXIT"}
            /\ at' \in {at, "none"} \cup Dials \cup Rings
  <1>0. port \in BOOLEAN
    BY DEF CallInv, CallTypeOK
  <1> USE DEF goto, stay, Dials, Rings, Loop, None, runvars, modem, script, hostvars
  <1>1. CASE Rewind \/ EndOfFile \/ CallUp1 \/ WrongTime \/ callup
    BY <1>0, <1>1 DEF Rewind, EndOfFile, CallUp1, WrongTime, callup
  <1>2. CASE direct \/ GiveUp \/ BadLine
    BY <1>0, <1>2 DEF direct, GiveUp, BadLine, FailedAttempt
  <1>3. CASE ChooseSpeed \/ Redial \/ Open \/ Answers \/ NoAnswer \/ NoReply
    BY <1>0, <1>3 DEF ChooseSpeed, Redial, Open, Answers, NoAnswer, NoReply, AfterReply
  <1>4. CASE Connect \/ Matched \/ TimedOut \/ ScriptFails \/ ScriptDone
    BY <1>0, <1>4 DEF Connect, Matched, TimedOut, ScriptFails, ScriptDone
  <1>5. CASE Answer \/ NotToday \/ callin \/ InitIn \/ Ring \/ AnswerCall \/ login
    BY <1>0, <1>5 DEF Answer, NotToday, callin, InitIn, Ring, AnswerCall, login, FailedIn
  <1>6. CASE Session \/ DropLine
    BY <1>0, <1>6 DEF Session, DropLine
  <1> QED
    BY <1>1, <1>2, <1>3, <1>4, <1>5, <1>6 DEF Steps, Calls, IsCalled

LEMMA SameMode == ASSUME CallInv, Steps PROVE Master' <=> Master
  <1>1. CASE getsystem
    BY <1>1 DEF getsystem, Master
  <1> QED
    BY <1>1, StepsElsewhere DEF Master

LEMMA CallTypesKept == ASSUME CallInv, Steps PROVE CallTypeOK'
  <1> USE DEF CallInv, CallTypeOK
  <1>1. host' \in HostsType /\ failed' \in [Hosts -> Nat]
    <2>1. CASE AttemptsStay(host') /\ failed' = failed
      BY <2>1 DEF AttemptsStay
    <2>2. CASE Calling /\ FailedAttempt
      <3> DEFINE x == IF MaxFailAttempts > 0 /\ fail_attempts + 1 >= MaxFailAttempts
                      THEN "max_retry" ELSE "dial_failed"
      <3>1. host' = [host EXCEPT ![hostp] = [@ EXCEPT !.attempts = fail_attempts, !.status = x]]
        BY <2>2, Zenon DEF FailedAttempt
      <3>2. x \in Statuses
        BY DEF Statuses
      <3> HIDE DEF x
      <3>3. host' \in HostsType
        BY <2>2, <3>1, <3>2, TheLine DEF HostsType
      <3> QED
        BY <2>2, <3>3, TheLine DEF FailedAttempt
    <2>3. CASE DropLine
      <3>1. failed' = failed /\ state = "DROPLINE"
        BY <2>3 DEF DropLine
      <3>2. host' = host \/ (Calling /\ host' = [host EXCEPT ![hostp].attempts = fail_attempts])
        BY <2>3, <3>1 DEF DropLine, KeepAttempts, Calling
      <3> QED
        BY <3>1, <3>2, TheLine DEF HostsType
    <2> QED
      BY <2>1, <2>2, <2>3, HostSteps
  <1>2. CASE getsystem
    <2>1. line + 1 \in 1 .. Len(Systems) /\ Len(Systems) \in Nat
      BY <1>2, CallAssumption DEF getsystem, CallConstants
    <2>2. Systems[line + 1].host \in Hosts
      BY <2>1, CallAssumption DEF Hosts, CallConstants
    <2>3. host[Systems[line + 1].host].attempts \in Nat
      BY <2>2
    <2> QED
      BY <1>1, <1>2, <2>1, <2>3 DEF getsystem, goto, HostsType, None
  <1>3. CASE ~getsystem
    <2>1. Len(Systems) \in Nat
      BY CallAssumption DEF CallConstants
    <2> QED
      BY <1>1, <1>3, <2>1, StepsElsewhere DEF HostsType, None
  <1> QED
    BY <1>2, <1>3

\* A call is begun by getsystem alone, and its host stays the same.
LEMMA CallsGoOn ==
  ASSUME CallInv, Steps, ~getsystem, Calling'
  PROVE  /\ Calling /\ cur' = cur /\ mode' = mode
         /\ fail_attempts' = fail_attempts \/ FailedAttempt
  <1>0. /\ Calling => Master
        /\ at \in Dials \/ state \in {"CALLUP1", "CALLUP2"} => Calling
        /\ at \in Rings \/ state \in {"ANSWER", "LOGIN"} => Slave
    BY DEF CallInv, Places, Calling
  <1> USE DEF goto, stay, Dials, Rings, Loop, runvars, modem, script, hostvars, Calling, Master, Slave
  <1>1. CASE Rewind \/ EndOfFile \/ CallUp1 \/ WrongTime \/ callup
    BY <1>0, <1>1 DEF Rewind, EndOfFile, CallUp1, WrongTime, callup, Initialize
  <1>2. CASE direct \/ GiveUp \/ BadLine
    BY <1>0, <1>2 DEF direct, GiveUp, BadLine
  <1>3. CASE ChooseSpeed \/ Redial \/ Open \/ Answers \/ NoAnswer \/ NoReply
    BY <1>0, <1>3 DEF ChooseSpeed, Redial, Open, Answers, NoAnswer, NoReply, AfterReply
  <1>4. CASE Connect \/ Matched \/ TimedOut \/ ScriptFails \/ ScriptDone
    BY <1>0, <1>4 DEF Connect, Matched, TimedOut, ScriptFails, ScriptDone, Scripted
  <1>5. CASE Answer \/ NotToday \/ callin \/ InitIn \/ Ring \/ AnswerCall \/ login
    BY <1>0, <1>5 DEF Answer, NotToday, callin, InitIn, Ring, AnswerCall, login, FailedIn
  <1>6. CASE Session \/ DropLine
    BY <1>0, <1>6 DEF Session, DropLine
  <1> QED
    BY <1>1, <1>2, <1>3, <1>4, <1>5, <1>6 DEF Steps, Calls, IsCalled

LEMMA OnlyDropLine == ASSUME CallInv, Steps, state = "DROPLINE" PROVE DropLine
  <1>0. at = "none"
    BY DEF CallInv, CallTypeOK, Places
  <1>1. CASE Calls
    BY <1>0, <1>1 DEF Calls, getsystem, Rewind, EndOfFile, CallUp1, WrongTime, callup, direct, GiveUp, BadLine, ChooseSpeed, Redial, Open, Answers, NoAnswer, NoReply, Connect, Matched, TimedOut, ScriptFails, ScriptDone, Initialize, Scripted
  <1>2. CASE IsCalled
    BY <1>0, <1>2 DEF IsCalled, Answer, NotToday, callin, InitIn, Ring, AnswerCall, login
  <1>3. CASE Session
    BY <1>3 DEF Session
  <1> QED
    BY <1>1, <1>2, <1>3 DEF Steps

LEMMA AttemptsKept == ASSUME CallInv, Steps PROVE Attempts'
  <1>0. host \in HostsType /\ host' \in HostsType /\ failed \in [Hosts -> Nat]
    BY CallTypesKept DEF CallInv, CallTypeOK, HostsType
  <1>1. CASE AttemptsStay(host') /\ failed' = failed /\ ~DropLine
    <2>1. \A h \in Hosts : host'[h].attempts = failed'[h]
      <3>1. state # "DROPLINE"
        BY <1>1, OnlyDropLine
      <3> QED
        BY <1>1, <3>1 DEF AttemptsStay, CallInv, Attempts
    <2>2. ASSUME Calling' PROVE fail_attempts' = failed'[hostp']
      <3>1. CASE getsystem
        <4>1. line + 1 \in 1 .. Len(Systems) /\ state = "INITIALIZE"
          BY <3>1, CallAssumption DEF getsystem, Initialize, CallConstants, CallInv, CallTypeOK
        <4>2. Systems[line + 1].host \in Hosts
          BY <4>1, CallAssumption DEF Hosts, CallConstants
        <4>3. cur' = line + 1 /\ fail_attempts' = host[Systems[line + 1].host].attempts
          BY <2>2, <3>1, <4>1 DEF getsystem, Calling
        <4>4. hostp' = Systems[line + 1].host
          BY <4>3 DEF hostp, Line
        <4> QED
          BY <1>1, <4>1, <4>2, <4>3, <4>4 DEF CallInv, Attempts
      <3>2. CASE ~getsystem
        <4>1. Calling /\ cur' = cur /\ (fail_attempts' = fail_attempts \/ FailedAttempt)
          BY <2>2, <3>2, CallsGoOn
        <4>2. fail_attempts = failed[hostp] /\ hostp' = hostp /\ hostp \in Hosts
          BY <4>1, TheLine DEF CallInv, Attempts, hostp, Line
        <4>3. ~FailedAttempt
          <5>1. failed[hostp] \in Nat
            BY <1>0, <4>2
          <5> QED
            BY <1>0, <1>1, <4>2, <5>1 DEF FailedAttempt
        <4> QED
          BY <1>1, <4>1, <4>2, <4>3
      <3> QED
        BY <3>1, <3>2
    <2> QED
      BY <2>1, <2>2 DEF Attempts
  <1>2. CASE Calling /\ state = "CALLUP2" /\ FailedAttempt
    <2>1. ~getsystem /\ Calling'
      BY <1>2, CallsGoOn, SameMode DEF getsystem, Initialize, FailedAttempt, goto, Calling
    <2>2. hostp' = hostp /\ hostp \in Hosts /\ fail_attempts = failed[hostp]
      BY <1>2, <2>1, CallsGoOn, TheLine DEF hostp, Line, CallInv, Attempts
    <2>3. fail_attempts' = fail_attempts + 1 /\ failed' = [failed EXCEPT ![hostp] = @ + 1]
      BY <1>2 DEF FailedAttempt
    <2>4. \A h \in Hosts : h # hostp => host'[h] = host[h] /\ failed'[h] = failed[h]
      BY <1>0, <1>2, <2>2 DEF FailedAttempt, HostsType
    <2> QED
      BY <1>0, <1>2, <2>1, <2>2, <2>3, <2>4 DEF Attempts, CallInv, Calling, FailedAttempt, goto
  <1>3. CASE DropLine
    <2>1. ~Calling'
      BY <1>3 DEF DropLine, goto, Calling
    <2>2. ASSUME NEW h \in Hosts PROVE host'[h].attempts = failed'[h]
      <3>1. failed' = failed /\ state = "DROPLINE"
        BY <1>3 DEF DropLine
      <3>2. CASE Calling
        <4>1. host' = [host EXCEPT ![hostp].attempts = fail_attempts]
          BY <1>3, <3>2 DEF DropLine, KeepAttempts, Calling
        <4> QED
          BY <1>0, <3>1, <3>2, <4>1, TheLine DEF CallInv, Attempts, HostsType
      <3>3. CASE ~Calling
        <4>1. host' = host /\ ~Master
          BY <1>3, <3>1, <3>3 DEF DropLine, KeepAttempts, Calling
        <4> QED
          BY <3>1, <4>1 DEF CallInv, Attempts
      <3> QED
        BY <3>2, <3>3
    <2> QED
      BY <2>1, <2>2 DEF Attempts
  <1> QED
    BY <1>1, <1>2, <1>3, HostSteps

\* The steps after which cdial is in its loops.
LEMMA LoopSteps ==
  ASSUME CallInv, Steps, at' \in Loop
  PROVE  /\ Calling /\ cur' = cur /\ failed' = failed /\ fail_attempts' = fail_attempts
         /\ callup \/ ChooseSpeed \/ Redial \/ Open \/ Answers \/ NoAnswer \/ NoReply
  <1>1. callup \/ ChooseSpeed \/ Redial \/ Open \/ Answers \/ NoAnswer \/ NoReply
    <2>0. at \in Loop => state = "CALLUP2"
      BY DEF CallInv, Places, Dials
    <2>1. ~(Rewind \/ EndOfFile \/ getsystem \/ CallUp1 \/ WrongTime)
      BY <2>0 DEF Rewind, EndOfFile, getsystem, CallUp1, WrongTime, Initialize, goto, Loop
    <2>2. ~(direct \/ GiveUp \/ BadLine)
      BY <2>0 DEF direct, GiveUp, BadLine, FailedAttempt, goto, stay, Loop
    <2>3. ~(Connect \/ Matched \/ TimedOut \/ ScriptFails \/ ScriptDone)
      BY <2>0 DEF Connect, Matched, TimedOut, ScriptFails, ScriptDone, Scripted, goto, stay, Loop
    <2>4. ~(IsCalled \/ Session \/ DropLine)
      BY <2>0 DEF IsCalled, Answer, NotToday, callin, InitIn, Ring, AnswerCall, login, FailedIn, Session, DropLine,
         goto, stay, Loop
    <2> QED
      BY <2>1, <2>2, <2>3, <2>4 DEF Steps, Calls
  <1>2. cur' = cur /\ failed' = failed /\ fail_attempts' = fail_attempts
    BY <1>1, Zenon DEF callup, ChooseSpeed, Redial, Open, Answers, NoAnswer, NoReply, runvars, hostvars
  <1>3. at \in Dials \/ state = "CALLUP2"
    BY <1>1 DEF callup, ChooseSpeed, Redial, Open, Answers, NoAnswer, NoReply, Dials, Loop
  <1> QED
    BY <1>1, <1>2, <1>3 DEF CallInv, Places, Calling

\* Another pass for this phone.
LEMMA PassCounts ==
  ASSUME CallInv, Calling, NEW d \in Records
  PROVE  /\ Passed(d) \in Records
         /\ Passed(d).frate = d.frate /\ Passed(d).trycount = d.trycount /\ Passed(d).irate = d.irate
         /\ Passed(d).first = d.first /\ Passed(d).changed = d.changed
         /\ Passed(d).busy = d.busy /\ Passed(d).why = d.why
         /\ Passed(d).passes[d.frate] = IF d.passes[d.frate] < MaxTry THEN d.passes[d.frate] + 1 ELSE MaxTry
         /\ \A f \in Phones : f # d.frate => Passed(d).passes[f] = d.passes[f]
  <1>1. MaxTry \in Nat \ {0} /\ Line.phones \in Nat
    BY CallAssumption, TheLine DEF CallConstants
  <1>2. d.frate \in Phones /\ d.passes \in [Phones -> 0 .. MaxTry] /\ d.passes[d.frate] \in 0 .. MaxTry
    BY <1>1 DEF Records
  <1> DEFINE n == IF d.passes[d.frate] < MaxTry THEN d.passes[d.frate] + 1 ELSE d.passes[d.frate]
             ps == [d.passes EXCEPT ![d.frate] = n]
  <1>3. Passed(d) = [d EXCEPT !.passes = ps]
    BY DEF Passed
  <1>4. n \in 0 .. MaxTry /\ n = IF d.passes[d.frate] < MaxTry THEN d.passes[d.frate] + 1 ELSE MaxTry
    BY <1>1, <1>2
  <1> HIDE DEF n
  <1>5. ps \in [Phones -> 0 .. MaxTry] /\ ps[d.frate] = n /\ \A f \in Phones : f # d.frate => ps[f] = d.passes[f]
    BY <1>2, <1>4
  <1> HIDE DEF ps
  <1>6. Passed(d) \in Records /\ Passed(d).passes = ps
    BY <1>3, <1>5 DEF Records
  <1>7. /\ Passed(d).frate = d.frate /\ Passed(d).trycount = d.trycount /\ Passed(d).irate = d.irate
        /\ Passed(d).first = d.first /\ Passed(d).changed = d.changed
        /\ Passed(d).busy = d.busy /\ Passed(d).why = d.why
    BY <1>3, Zenon DEF Records
  <1> QED
    BY <1>4, <1>5, <1>6, <1>7

LEMMA DiallingKept == ASSUME CallInv, Steps PROVE Dialling'
  <1> SUFFICES ASSUME at' \in Loop PROVE Dialling'
    BY DEF Dialling
  <1>0. /\ Calling /\ cur' = cur /\ failed' = failed /\ fail_attempts' = fail_attempts
        /\ callup \/ ChooseSpeed \/ Redial \/ Open \/ Answers \/ NoAnswer \/ NoReply
    BY LoopSteps
  <1>1. /\ MaxTry \in Nat \ {0} /\ Line.phones \in Nat \ {0} /\ Line.count \in Nat
        /\ MaxFailAttempts = Line.count /\ fail_attempts = failed[hostp] /\ fail_attempts \in Nat
    BY <1>0, CallAssumption, TheLine DEF CallConstants, CallInv, CallTypeOK, Attempts
  <1>2. Line' = Line /\ Records' = Records /\ Phones' = Phones /\ (Within' <=> Within)
    BY <1>0 DEF Line, Records, Phones, Within, hostp
  <1>3. ASSUME at \in Loop
        PROVE  /\ dial \in Records
               /\ dial.trycount <= dial.passes[dial.frate]
               /\ at # "speed" => dial.trycount < MaxTry
               /\ \A f \in Phones : f < dial.frate => Done(f)
               /\ dial.why = "phones" => \A f \in Phones : Done(f)
               /\ dial.changed => at \in {"speed", "redial"}
               /\ at \in {"open", "init", "reply"} => ~dial.first
               /\ ~dial.first => Within
    BY <1>3 DEF CallInv, Dialling
  <1>4. CASE callup
    <2>1. dial' = [NoCall EXCEPT !.passes = [f \in Phones |-> 0]] /\ at' = "speed"
      BY <1>4 DEF callup, stay, goto, Loop, Phones
    <2>2. /\ dial'.irate = 0 /\ dial'.frate = 0 /\ dial'.trycount = 0 /\ dial'.changed = FALSE /\ dial'.first = TRUE
          /\ dial'.busy = {} /\ dial'.why = "none" /\ dial'.passes = [f \in Phones |-> 0]
      BY <2>1 DEF NoCall
    <2>3. 0 \in Phones /\ 0 \in 0 .. MaxTry /\ [f \in Phones |-> 0] \in [Phones -> 0 .. MaxTry]
      BY <1>1 DEF Phones
    <2>4. dial' \in Records
      BY <2>1, <2>3 DEF NoCall, Records
    <2>5. \A f \in Phones : ~(f < 0)
      BY <1>1 DEF Phones
    <2> QED
      BY <1>1, <1>2, <2>1, <2>2, <2>3, <2>4, <2>5 DEF Dialling, Done
  <1>5. CASE ChooseSpeed
    <2>1. at = "speed" /\ at' = "redial"
      BY <1>5 DEF ChooseSpeed, stay
    <2>2. CASE dial' = dial /\ dial.trycount < MaxTry
      BY <1>2, <1>3, <2>1, <2>2 DEF Dialling, Done, Loop
    <2>3. CASE dial' = [dial EXCEPT !.irate = @ + 1, !.trycount = 0]
      <3>1. dial' \in Records
        <4>1. dial \in Records /\ 0 \in 0 .. MaxTry
          BY <1>1, <1>3, <2>1 DEF Loop
        <4>2. dial.irate + 1 \in Nat
          BY <4>1 DEF Records
        <4> QED
          BY <2>3, <4>1, <4>2 DEF Records
      <3>2. /\ dial'.frate = dial.frate /\ dial'.trycount = 0 /\ dial'.changed = dial.changed
            /\ dial'.first = dial.first /\ dial'.passes = dial.passes /\ dial'.busy = dial.busy /\ dial'.why = dial.why
            /\ dial.passes[dial.frate] \in 0 .. MaxTry
        BY <1>3, <2>1, <2>3 DEF Records, Loop
      <3> QED
        BY <1>1, <1>2, <1>3, <2>1, <3>1, <3>2 DEF Dialling, Done, Loop
    <2> QED
      BY <1>1, <1>3, <1>5, <2>1, <2>2, <2>3 DEF ChooseSpeed, Records, Loop
  <1>6. CASE Redial
    <2>1. at = "redial" /\ at' = "open" /\ dial' = [dial EXCEPT !.first = FALSE] /\ ~GivesUpHere
      BY <1>6 DEF Redial, stay
    <2>2. /\ dial' \in Records /\ ~dial'.first
          /\ dial'.frate = dial.frate /\ dial'.trycount = dial.trycount /\ dial'.changed = dial.changed
          /\ dial'.passes = dial.passes /\ dial'.busy = dial.busy /\ dial'.why = dial.why
      BY <1>3, <2>1 DEF Records, Loop
    <2>3. ~dial.changed
      BY <2>1 DEF GivesUpHere
    <2>4. Within
      BY <1>1, <1>3, <2>1 DEF GivesUpHere, AgainHere, Exhausted, Within, Loop
    <2> QED
      BY <1>2, <1>3, <2>1, <2>2, <2>3, <2>4 DEF Dialling, Done, Loop
  <1>7. CASE Open \/ Answers
    <2>1. dial' = dial /\ at \in {"open", "init"} /\ at' \in {"init", "reply"}
      BY <1>7 DEF Open, Answers, stay, modem
    <2> QED
      BY <1>2, <1>3, <2>1 DEF Dialling, Done, Loop
  <1>8. CASE NoAnswer
    <2> DEFINE d == Passed(dial)
    <2>1. at = "init" /\ at' = "speed" /\ dial' = CountInit(d)
      BY <1>8 DEF NoAnswer, stay
    <2>2. dial \in Records /\ dial.trycount < MaxTry /\ ~dial.changed /\ dial.trycount <= dial.passes[dial.frate]
      BY <1>3, <2>1 DEF Loop
    <2>3. /\ d \in Records
          /\ d.frate = dial.frate /\ d.trycount = dial.trycount /\ d.first = dial.first
          /\ d.changed = dial.changed /\ d.busy = dial.busy /\ d.why = dial.why
          /\ d.passes[d.frate] = IF dial.passes[dial.frate] < MaxTry THEN dial.passes[dial.frate] + 1 ELSE MaxTry
          /\ \A f \in Phones : f # dial.frate => d.passes[f] = dial.passes[f]
      BY <1>0, <2>2, PassCounts
    <2> HIDE DEF d
    <2>4. /\ d.frate \in Phones /\ d.trycount \in 0 .. MaxTry /\ dial.passes[dial.frate] \in 0 .. MaxTry
          /\ d.passes[d.frate] \in 0 .. MaxTry
      BY <2>2, <2>3 DEF Records
    <2>5. \A f \in Phones : f < d.frate => f # dial.frate
      BY <1>1, <2>3, <2>4 DEF Phones
    <2>6. /\ dial' \in Records
          /\ dial'.frate = d.frate /\ dial'.passes = d.passes /\ dial'.busy = d.busy /\ dial'.first = d.first
          /\ \/ dial'.trycount = 0 /\ dial'.why = "modem"
             \/ dial'.trycount = d.trycount + 1 /\ dial'.changed = d.changed /\ dial'.why = d.why
      <3>1. CASE d.trycount + 1 >= MaxTry /\ EndOfSpeeds(d.irate)
        <4>1. dial' = [d EXCEPT !.irate = 0, !.trycount = 0, !.changed = TRUE, !.why = "modem"]
          BY <2>1, <3>1 DEF CountInit
        <4>2. 0 \in 0 .. MaxTry
          BY <1>1
        <4>3. dial' \in Records
          BY <2>3, <4>1, <4>2 DEF Records
        <4> QED
          BY <2>3, <4>1, <4>3 DEF Records
      <3>2. CASE ~(d.trycount + 1 >= MaxTry /\ EndOfSpeeds(d.irate))
        <4>1. dial' = [d EXCEPT !.trycount = @ + 1]
          BY <2>1, <3>2 DEF CountInit
        <4>2. d.trycount + 1 \in 0 .. MaxTry
          BY <1>1, <2>2, <2>3, <2>4
        <4> QED
          BY <2>3, <4>1, <4>2 DEF Records
      <3> QED
        BY <3>1, <3>2
    <2>7. dial'.trycount <= dial'.passes[dial'.frate]
      BY <1>1, <2>2, <2>3, <2>4, <2>6
    <2>8. ASSUME NEW f \in Phones, f < dial'.frate PROVE Done(f)'
      <3>1. Done(f) /\ f # dial.frate
        BY <1>3, <2>1, <2>3, <2>5, <2>6, <2>8 DEF Loop
      <3> QED
        BY <2>3, <2>6, <3>1 DEF Done
    <2>9. ASSUME NEW f \in Phones, dial'.why = "phones" PROVE Done(f)'
      <3>1. Done(f)
        BY <1>3, <2>1, <2>3, <2>6, <2>9 DEF Loop
      <3>2. CASE f = dial.frate
        BY <1>1, <2>3, <2>6, <3>1, <3>2 DEF Done
      <3>3. CASE f # dial.frate
        BY <2>3, <2>6, <3>1, <3>3 DEF Done
      <3> QED
        BY <3>2, <3>3
    <2> QED
      BY <1>2, <1>3, <2>1, <2>3, <2>6, <2>7, <2>8, <2>9 DEF Dialling, Loop
  <1>9. CASE NoReply
    <2>1. PICK busy \in BOOLEAN :
             LET b == IF busy THEN [dial EXCEPT !.trycount = MaxTry - 1, !.busy = @ \union {dial.frate}]
                              ELSE dial
             IN  dial' = CountReply(Passed(b)) /\ AfterReply(b)
      BY <1>9 DEF NoReply
    <2> DEFINE b == IF busy THEN [dial EXCEPT !.trycount = MaxTry - 1, !.busy = @ \union {dial.frate}]
                            ELSE dial
               d == Passed(b)
    <2>2. /\ at = "reply" /\ dial \in Records /\ dial.trycount < MaxTry /\ ~dial.changed /\ ~dial.first
          /\ dial.trycount <= dial.passes[dial.frate] /\ Within
          /\ \A f \in Phones : f < dial.frate => Done(f)
          /\ dial.why = "phones" => \A f \in Phones : Done(f)
      BY <1>3, <1>9 DEF NoReply, Loop
    <2>3. dial.frate \in Phones /\ dial.trycount \in 0 .. MaxTry
      BY <2>2 DEF Records
    <2>4. /\ b \in Records
          /\ b.frate = dial.frate /\ b.passes = dial.passes /\ b.irate = dial.irate
          /\ b.first = dial.first /\ b.changed = dial.changed /\ b.why = dial.why
          /\ b.busy = (IF busy THEN dial.busy \cup {dial.frate} ELSE dial.busy)
          /\ b.trycount = (IF busy THEN MaxTry - 1 ELSE dial.trycount)
      <3>1. CASE busy
        <4>1. MaxTry - 1 \in 0 .. MaxTry
          BY <1>1
        <4> QED
          BY <2>2, <2>3, <3>1, <4>1 DEF Records
      <3>2. CASE ~busy
        BY <2>2, <3>2
      <3> QED
        BY <3>1, <3>2
    <2>5. dial' = CountReply(d) /\ AfterReply(b)
      BY <2>1
    <2> HIDE DEF b
    <2>6. /\ d \in Records
          /\ d.frate = dial.frate /\ d.trycount = b.trycount /\ d.first = dial.first /\ d.irate = dial.irate
          /\ d.changed = dial.changed /\ d.busy = b.busy /\ d.why = dial.why
          /\ d.passes[d.frate] = IF dial.passes[dial.frate] < MaxTry THEN dial.passes[dial.frate] + 1 ELSE MaxTry
          /\ \A f \in Phones : f # dial.frate => d.passes[f] = dial.passes[f]
      BY <1>0, <2>4, PassCounts
    <2> HIDE DEF d
    <2>7. /\ d.trycount \in 0 .. MaxTry /\ d.trycount < MaxTry /\ dial.passes[dial.frate] \in 0 .. MaxTry
      BY <1>1, <2>2, <2>3, <2>4, <2>6 DEF Records
    <2>8. d.trycount + 1 >= MaxTry => d.passes[dial.frate] = MaxTry \/ dial.frate \in d.busy
      BY <1>1, <2>2, <2>3, <2>4, <2>6, <2>7
    <2>9. ~busy /\ d.trycount + 1 < MaxTry => d.trycount + 1 <= d.passes[d.frate]
      BY <1>1, <2>2, <2>3, <2>4, <2>6, <2>7
    <2> DEFINE Gone(f) == d.passes[f] = MaxTry \/ f \in d.busy
    <2>10. ASSUME NEW f \in Phones, Done(f) PROVE Gone(f)
      <3>1. CASE f = dial.frate
        BY <1>1, <2>4, <2>6, <2>10, <3>1 DEF Done
      <3>2. CASE f # dial.frate
        BY <2>4, <2>6, <2>10, <3>2 DEF Done
      <3> QED
        BY <3>1, <3>2
    <2>11. d.trycount + 1 >= MaxTry => Gone(dial.frate)
      BY <2>8
    <2>12. /\ \A f \in Phones : f < dial.frate => Gone(f)
           /\ dial.why = "phones" => \A f \in Phones : Gone(f)
      BY <2>2, <2>10
    <2>13. Phones = 0 .. Line.phones - 1 /\ 0 \in 0 .. MaxTry /\ 0 \in Phones
      BY <1>1 DEF Phones
    <2> HIDE DEF Gone
    <2>14. CASE d.trycount + 1 < MaxTry
      <3>1. dial' = [d EXCEPT !.trycount = @ + 1] /\ at' = "redial"
        BY <1>1, <2>5, <2>6, <2>7, <2>14 DEF CountReply, AfterReply, stay
      <3>2. d.trycount + 1 \in 0 .. MaxTry /\ ~busy
        BY <1>1, <2>4, <2>6, <2>7, <2>14
      <3>3. /\ dial' \in Records /\ dial'.trycount = d.trycount + 1
            /\ dial'.frate = dial.frate /\ dial'.passes = d.passes /\ dial'.busy = d.busy
            /\ dial'.why = dial.why /\ dial'.first = dial.first /\ dial'.changed = dial.changed
        BY <2>6, <3>1, <3>2 DEF Records
      <3>4. \A f \in Phones : Gone(f) => Done(f)'
        BY <3>3 DEF Gone, Done
      <3>5. dial'.trycount <= dial'.passes[dial'.frate]
        BY <2>6, <2>9, <2>14, <3>2, <3>3
      <3> QED
        BY <1>2, <2>2, <2>12, <2>14, <3>1, <3>3, <3>4, <3>5 DEF Dialling
    <2>15. CASE ~(d.trycount + 1 < MaxTry) /\ ~EndOfPhones
      <3>1. dial' = [d EXCEPT !.trycount = 0, !.frate = @ + 1] /\ at' = "redial"
        BY <1>1, <2>5, <2>6, <2>7, <2>15 DEF CountReply, AfterReply, stay
      <3>2. dial.frate + 1 \in Phones
        BY <1>1, <2>3, <2>13, <2>15 DEF EndOfPhones
      <3>3. /\ dial' \in Records /\ dial'.trycount = 0
            /\ dial'.frate = dial.frate + 1 /\ dial'.passes = d.passes /\ dial'.busy = d.busy
            /\ dial'.why = dial.why /\ dial'.first = dial.first /\ dial'.changed = dial.changed
        BY <2>6, <2>13, <3>1, <3>2 DEF Records
      <3>4. \A f \in Phones : Gone(f) => Done(f)'
        BY <3>3 DEF Gone, Done
      <3>5. dial'.passes[dial'.frate] \in 0 .. MaxTry
        BY <3>3 DEF Records
      <3>6. \A f \in Phones : f < dial.frate + 1 => f < dial.frate \/ f = dial.frate
        BY <1>1, <2>3, <2>13
      <3>7. Gone(dial.frate)
        BY <1>1, <2>7, <2>11, <2>15
      <3> QED
        BY <1>1, <1>2, <2>2, <2>12, <3>1, <3>3, <3>4, <3>5, <3>6, <3>7 DEF Dialling
    <2>16. CASE ~(d.trycount + 1 < MaxTry) /\ EndOfPhones
      <3>1. /\ dial' = [d EXCEPT !.trycount = 0, !.frate = 0,
                                 !.irate   = IF EndOfSpeeds(d.irate) THEN 0 ELSE @,
                                 !.changed = @ \/ EndOfSpeeds(d.irate),
                                 !.why     = IF EndOfSpeeds(d.irate) THEN "phones" ELSE @]
            /\ at' = "speed"
        BY <1>1, <2>5, <2>6, <2>7, <2>16 DEF CountReply, AfterReply, stay
      <3>2. \A f \in Phones : f < dial.frate \/ f = dial.frate
        BY <1>1, <2>3, <2>13, <2>16 DEF EndOfPhones
      <3>3. Gone(dial.frate)
        BY <1>1, <2>7, <2>11, <2>16
      <3>4. \A f \in Phones : Gone(f)
        BY <2>12, <3>2, <3>3
      <3>5. dial' \in Records
        BY <2>6, <2>13, <3>1 DEF Records
      <3>6. /\ dial'.trycount = 0 /\ dial'.frate = 0
            /\ dial'.passes = d.passes /\ dial'.busy = d.busy /\ dial'.first = dial.first
        BY <2>6, <3>1 DEF Records
      <3>7. \A f \in Phones : Gone(f) => Done(f)'
        BY <3>6 DEF Gone, Done
      <3>8. dial'.passes[dial'.frate] \in 0 .. MaxTry
        BY <3>5 DEF Records
      <3> QED
        BY <1>1, <1>2, <2>2, <3>1, <3>4, <3>5, <3>6, <3>7, <3>8 DEF Dialling
    <2> QED
      BY <2>14, <2>15, <2>16
  <1> QED
    BY <1>0, <1>4, <1>5, <1>6, <1>7, <1>8, <1>9

LEMMA CallStart == ASSUME Init PROVE CallInv
  <1>1. Systems \in Seq(Lines) /\ Modes \subseteq {"master", "slave"}
    BY CallAssumption DEF CallConstants
  <1>2. CallTypeOK
    <2>1. port \in BOOLEAN
      BY Zenon DEF Init
    <2>5. 0 \in 0 .. Len(Systems)
      BY <1>1
    <2>2. mode \in {"master", "slave"} /\ state = "INITIALIZE" /\ at = "none"
      BY <1>1 DEF Init
    <2>3. host \in [Hosts -> [status : Statuses, attempts : Nat, idlewait : Int]]
      BY DEF Init, Statuses
    <2>4. failed \in [Hosts -> Nat] /\ fail_attempts \in Nat /\ line = 0 /\ cur = 0
      BY DEF Init, None
    <2> QED
      BY <2>1, <2>2, <2>3, <2>4, <2>5 DEF CallTypeOK
  <1>3. Places /\ Ports /\ Dialling
    BY DEF Init, Places, Ports, Dialling, Calling, Dials, Loop, Rings
  <1>4. Attempts
    BY DEF Init, Attempts, Calling
  <1> QED
    BY <1>2, <1>3, <1>4 DEF CallInv

LEMMA CallStutters == ASSUME CallInv, UNCHANGED vars PROVE CallInv'
  <1> USE DEF CallInv, vars, runvars, hostvars, modem, script
  <1>1. CallTypeOK'
    BY DEF CallTypeOK
  <1>2. Places' /\ Ports'
    BY DEF Places, Ports, Calling, Master, Slave
  <1>3. Attempts'
    BY DEF Attempts, Calling, Master, hostp, Line
  <1>4. Dialling'
    BY DEF Dialling, Records, Phones, Done, Within, hostp, Line
  <1> QED
    BY <1>1, <1>2, <1>3, <1>4

\* Each part is kept by every step of a caller and of an answerer.
THEOREM CallInvariant == Spec => []CallInv
  <1>1. CallInv /\ Next => CallInv'
    BY PathsKept, CallTypesKept, AttemptsKept, DiallingKept, CallStutters DEF CallInv, Next, Exit
  <1> QED
    BY <1>1, CallStart, CallStutters, PTL DEF Spec

\* Attempts are counted over all the lines of a host, every phone has its passes
\* before cdial gives up, and no call begins on a port that is still open.
THEOREM CallsAreCounted == Spec => []DialsRight
  <1>1. CallInv => NeverExhausted
    <2> SUFFICES ASSUME CallInv, Master, at \in {"init", "reply"} PROVE Within
      BY DEF NeverExhausted, Within
    <2> QED
      BY DEF CallInv, Dialling, Loop
  <1>2. CallInv => EveryPhone
    <2> SUFFICES ASSUME CallInv, at = "redial", dial.why = "phones",
                        NEW f \in DOMAIN dial.passes
                 PROVE  Done(f)
      BY DEF EveryPhone, Done
    <2>1. dial \in Records /\ \A g \in Phones : Done(g)
      BY DEF CallInv, Dialling, Loop
    <2>2. f \in Phones
      BY <2>1 DEF Records
    <2> QED
      BY <2>1, <2>2
  <1>3. CallInv => PortClosed
    BY DEF CallInv, Places, Ports, PortClosed, Dials, Loop
  <1> QED
    BY <1>1, <1>2, <1>3, CallInvariant, PTL DEF DialsRight

-----------------------------------------------------------------------------
(***************************************************************************)
(* The TELNET connection.  First, loops over characters: Through is a fold *)
(* by a function; what it makes of a sequence is shown by induction over   *)
(* the sequences, that is over the least length at which a claim fails.    *)
(***************************************************************************)
LEMMA NatInductive ==
    ASSUME NEW S, 0 \in S, \A n \in Nat : n \in S => n + 1 \in S
    PROVE  \A n \in Nat : n \in S
<1> SUFFICES ASSUME Nat \ S # {} PROVE FALSE
  OBVIOUS
<1>1. PICK m \in Nat \ S : \A k \in Nat \ S : ~(<<k, m>> \in OpToRel(<, Nat))
  BY WFMin, NatLessThanWellFounded, Zenon
<1>2. m # 0 /\ m - 1 \in Nat /\ m - 1 < m /\ (m - 1) + 1 = m
  OBVIOUS
<1>3. m - 1 \in S
  BY <1>1, <1>2 DEF OpToRel
<1> QED BY <1>2, <1>3

LEMMA SeqInductive ==
    ASSUME NEW C, NEW P, <<>> \in P,
           \A w \in Seq(C) : \A b \in C : w \in P => Append(w, b) \in P
    PROVE  \A w \in Seq(C) : w \in P
<1> DEFINE S == {n \in Nat : \A w \in Seq(C) : Len(w) = n => w \in P}
<1>1. 0 \in S
  BY EmptySeq
<1>2. ASSUME NEW n \in Nat, n \in S PROVE n + 1 \in S
  <2> SUFFICES ASSUME NEW w \in Seq(C), Len(w) = n + 1 PROVE w \in P
    OBVIOUS
  <2> DEFINE v == SubSeq(w, 1, n)
             b == w[n + 1]
  <2>1. v \in Seq(C) /\ Len(v) = n /\ b \in C /\ w = Append(v, b)
    OBVIOUS
  <2>2. v \in P
    BY <1>2, <2>1
  <2> QED BY <2>1, <2>2
<1>3. \A n \in Nat : n \in S
  <2> HIDE DEF S
  <2> QED BY <1>1, <1>2, NatInductive
<1> QED BY <1>3

-----------------------------------------------------------------------------
\* u tells what has become of start after each of the first n characters of w.
Course(f, start, w, n, u) ==
    u = [k \in 0..n |-> IF k = 0 THEN start ELSE f[<<u[k - 1], w[k]>>]]

Follows(f, start, w, n, u, v) ==
    v[0] = start /\ \A k \in 1..n : v[k] = f[<<u[k - 1], w[k]>>]

LEMMA NextOnCourse ==
    ASSUME NEW f, NEW start, NEW w, NEW n \in Nat, NEW u, NEW v,
           v = [k \in 0..n |-> IF k = 0 THEN start ELSE f[<<u[k - 1], w[k]>>]]
    PROVE  Follows(f, start, w, n, u, v)
BY DEF Follows

LEMMA CourseIs ==
    ASSUME NEW f, NEW start, NEW w, NEW n \in Nat, NEW u, Course(f, start, w, n, u)
    PROVE  Follows(f, start, w, n, u, u)
BY NextOnCourse, Zenon DEF Course

LEMMA CourseExists ==
    ASSUME NEW f, NEW start, NEW w
    PROVE  \A n \in Nat : \E u : Course(f, start, w, n, u)
<1> DEFINE S == {n \in Nat : \E u : Course(f, start, w, n, u)}
<1>1. 0 \in S
  <2>1. Course(f, start, w, 0, [k \in 0..0 |-> start])
    BY DEF Course
  <2> QED BY <2>1
<1>2. ASSUME NEW n \in Nat, n \in S PROVE n + 1 \in S
  <2>1. PICK u : Course(f, start, w, n, u)
    BY <1>2
  <2> DEFINE v == [k \in 0..(n + 1) |-> IF k = n + 1 THEN f[<<u[n], w[n + 1]>>] ELSE u[k]]
  <2>2. \A k \in 0..(n + 1) : v[k] = (IF k = 0 THEN start ELSE f[<<v[k - 1], w[k]>>])
    <3>1. u[0] = start /\ \A k \in 1..n : u[k] = f[<<u[k - 1], w[k]>>]
      <4>1. Follows(f, start, w, n, u, u)
        BY <2>1, CourseIs
      <4> QED BY <4>1 DEF Follows
    <3>2. CASE n = 0
      BY <3>1, <3>2
    <3>3. CASE n > 0
      BY <3>1, <3>3
    <3> QED BY <3>2, <3>3
  <2>3. v = [k \in 0..(n + 1) |-> v[k]]
    OBVIOUS
  <2>4. Course(f, start, w, n + 1, v)
    <3> HIDE DEF v
    <3> QED BY <2>2, <2>3 DEF Course
  <2> QED BY <2>4
<1> HIDE DEF S
<1>3. \A n \in Nat : n \in S
  BY <1>1, <1>2, NatInductive
<1> QED BY <1>3 DEF S

LEMMA CoursesAgree ==
    ASSUME NEW f, NEW start, NEW w, NEW v, NEW n \in Nat, NEW m \in Nat, n <= m,
           \A k \in 1..n : w[k] = v[k],
           NEW u, Course(f, start, w, n, u), NEW x, Course(f, start, v, m, x)
    PROVE  u[n] = x[n]
<1> DEFINE S == {k \in Nat : k <= n => u[k] = x[k]}
<1>a. u[0] = start /\ \A k \in 1..n : u[k] = f[<<u[k - 1], w[k]>>]
  <2>1. Follows(f, start, w, n, u, u)
    BY CourseIs
  <2> QED BY <2>1 DEF Follows
<1>b. x[0] = start /\ \A k \in 1..m : x[k] = f[<<x[k - 1], v[k]>>]
  <2>1. Follows(f, start, v, m, x, x)
    BY CourseIs
  <2> QED BY <2>1 DEF Follows
<1>1. 0 \in S
  BY <1>a, <1>b
<1>2. ASSUME NEW k \in Nat, k \in S PROVE k + 1 \in S
  <2> SUFFICES ASSUME k + 1 <= n PROVE u[k + 1] = x[k + 1]
    OBVIOUS
  <2>1. u[k] = x[k] /\ k + 1 \in 1..n /\ k + 1 \in 1..m /\ (k + 1) - 1 = k
    BY <1>2
  <2>2. u[k + 1] = f[<<u[k], w[k + 1]>>] /\ x[k + 1] = f[<<x[k], v[k + 1]>>]
    BY <1>a, <1>b, <2>1
  <2> QED BY <2>1, <2>2
<1> HIDE DEF S
<1>3. n \in S
  BY <1>1, <1>2, NatInductive
<1> QED BY <1>3 DEF S

LEMMA ThroughIs ==
    ASSUME NEW f, NEW start, NEW C, NEW w \in Seq(C)
    PROVE  \E u : Course(f, start, w, Len(w), u) /\ Through(f, start, w) = u[Len(w)]
<1>1. \E u : Course(f, start, w, Len(w), u)
  BY CourseExists, LenProperties
<1> DEFINE c == CHOOSE u : Course(f, start, w, Len(w), u)
<1>2. Course(f, start, w, Len(w), c)
  BY <1>1
<1>3. Through(f, start, w) = c[Len(w)]
  BY DEF Through, Course
<1> QED BY <1>2, <1>3

LEMMA ThroughEmpty ==
    ASSUME NEW f, NEW start
    PROVE  Through(f, start, <<>>) = start
<1>1. PICK u : Course(f, start, <<>>, 0, u) /\ Through(f, start, <<>>) = u[0]
  BY ThroughIs, EmptySeq
<1>2. Follows(f, start, <<>>, 0, u, u)
  BY <1>1, CourseIs
<1> QED BY <1>1, <1>2 DEF Follows

LEMMA ThroughAppend ==
    ASSUME NEW f, NEW start, NEW C, NEW w \in Seq(C), NEW b \in C
    PROVE  Through(f, start, Append(w, b)) = f[<<Through(f, start, w), b>>]
<1> DEFINE v == Append(w, b)
           n == Len(w)
<1>1. v \in Seq(C) /\ Len(v) = n + 1 /\ v[n + 1] = b /\ n \in Nat /\ \A k \in 1..n : w[k] = v[k]
  OBVIOUS
<1>2. PICK u : Course(f, start, w, n, u) /\ Through(f, start, w) = u[n]
  BY ThroughIs
<1>3. PICK x : Course(f, start, v, n + 1, x) /\ Through(f, start, v) = x[n + 1]
  BY <1>1, ThroughIs
<1> HIDE DEF v, n
<1>4. u[n] = x[n]
  BY <1>1, <1>2, <1>3, CoursesAgree
<1>5. Follows(f, start, v, n + 1, x, x)
  BY <1>1, <1>3, CourseIs
<1>6. x[n + 1] = f[<<x[n], b>>]
  BY <1>1, <1>5 DEF Follows
<1> QED BY <1>2, <1>3, <1>4, <1>6 DEF v

LEMMA ThroughOne ==
    ASSUME NEW f, NEW start, NEW b
    PROVE  Through(f, start, <<b>>) = f[<<start, b>>]
<1>1. <<>> \in Seq({b}) /\ Append(<<>>, b) = <<b>> /\ b \in {b}
  OBVIOUS
<1>2. \A C : b \in C => \A y \in Seq(C) : Through(f, start, Append(y, b)) = f[<<Through(f, start, y), b>>]
  BY ThroughAppend
<1>3. Through(f, start, Append(<<>>, b)) = f[<<Through(f, start, <<>>), b>>]
  BY <1>1, <1>2, Zenon
<1> QED BY <1>1, <1>3, ThroughEmpty

\* A loop over two sequences in turn.
LEMMA ThroughBoth ==
    ASSUME NEW f, NEW start, NEW C, NEW v \in Seq(C), NEW w \in Seq(C)
    PROVE  Through(f, start, v \o w) = Through(f, Through(f, start, v), w)
<1> DEFINE mid == Through(f, start, v)
           P == {x \in Seq(C) : Through(f, start, v \o x) = Through(f, mid, x)}
<1> HIDE DEF mid
<1>1. <<>> \in P
  BY ThroughEmpty, ConcatEmptySeq, EmptySeq DEF mid
<1>2. ASSUME NEW x \in Seq(C), NEW b \in C, x \in P PROVE Append(x, b) \in P
  <2>1. v \o Append(x, b) = Append(v \o x, b) /\ v \o x \in Seq(C) /\ Append(x, b) \in Seq(C)
    OBVIOUS
  <2>2. Through(f, start, Append(v \o x, b)) = f[<<Through(f, start, v \o x), b>>]
    <3>1. \A y \in Seq(C) : Through(f, start, Append(y, b)) = f[<<Through(f, start, y), b>>]
      BY ThroughAppend
    <3> QED BY <2>1, <3>1, Zenon
  <2>3. Through(f, mid, Append(x, b)) = f[<<Through(f, mid, x), b>>]
    BY ThroughAppend
  <2> QED BY <1>2, <2>1, <2>2, <2>3
<1>3. \A x \in Seq(C) : x \in P
  <2> HIDE DEF P
  <2> QED BY <1>1, <1>2, SeqInductive
<1> QED BY <1>3 DEF mid

LEMMA AppendIs ==
    ASSUME NEW C, NEW v \in Seq(C), NEW x \in C
    PROVE  /\ \A i \in 1..Len(v) : Append(v, x)[i] = v[i]
           /\ Append(v, x)[Len(v) + 1] = x
OBVIOUS

LEMMA ThroughTwo ==
    ASSUME NEW f, NEW start, NEW a, NEW b
    PROVE  Through(f, start, <<a, b>>) = Through(f, Through(f, start, <<a>>), <<b>>)
<1> SUFFICES ASSUME NEW C, a \in C, b \in C
             PROVE  Through(f, start, <<a, b>>) = Through(f, Through(f, start, <<a>>), <<b>>)
  <2>1. a \in {a, b} /\ b \in {a, b}
    OBVIOUS
  <2> QED BY <2>1, Zenon
<1>1. <<a>> \in Seq(C) /\ <<b>> \in Seq(C)
  OBVIOUS
<1>4. <<a>> \o <<b>> = <<a, b>>
  <2>1. Append(<<a>>, b) = <<a>> \o <<b>>
    BY <1>1, AppendIsConcat
  <2>2. Append(<<a>>, b) = <<a, b>>
    <3>1. <<a, b>> \in Seq(C)
      OBVIOUS
    <3>2. Len(<<a, b>>) = 2 /\ <<a, b>>[1] = a /\ <<a, b>>[2] = b
      OBVIOUS
    <3>3. <<a>> \in Seq(C) /\ Len(<<a>>) = 1 /\ <<a>>[1] = a
      OBVIOUS
    <3>4. \A v, w \in Seq(C) : Len(v) = 1 /\ Len(w) = 2 /\ w[1] = v[1] => Append(v, w[2]) = w
      <4> SUFFICES ASSUME NEW v \in Seq(C), NEW w \in Seq(C), Len(v) = 1, Len(w) = 2, w[1] = v[1]
                   PROVE  Append(v, w[2]) = w
        OBVIOUS
      <4>1. Append(v, w[2]) \in Seq(C) /\ Len(Append(v, w[2])) = 2
        OBVIOUS
      <4>2. 2 \in 1..Len(w) /\ 1 \in 1..Len(v) /\ Len(v) + 1 = 2
        OBVIOUS
      <4>3. w[2] \in C
        BY <4>2, ElementOfSeq
      <4>4. Append(v, w[2])[1] = v[1] /\ Append(v, w[2])[2] = w[2]
        <5>1. \A x \in C : /\ \A i \in 1..Len(v) : Append(v, x)[i] = v[i]
                           /\ Append(v, x)[Len(v) + 1] = x
          BY AppendIs
        <5> QED BY <4>2, <4>3, <5>1
      <4>5. \A i \in 1..2 : Append(v, w[2])[i] = w[i]
        BY <4>4
      <4> QED BY <4>1, <4>5, SeqEqual
    <3> QED BY <3>1, <3>2, <3>3, <3>4, Zenon
  <2> QED BY <2>1, <2>2, Zenon
<1>2. \A v, w \in Seq(C) : Through(f, start, v \o w) = Through(f, Through(f, start, v), w)
  BY ThroughBoth
<1>3. Through(f, start, <<a>> \o <<b>>) = Through(f, Through(f, start, <<a>>), <<b>>)
  BY <1>1, <1>2, Zenon
<1> QED BY <1>3, <1>4, Zenon

-----------------------------------------------------------------------------
\* What is written for each character, and how much more that is.
LEMMA PairFacts ==
    ASSUME NEW b \in Chars
    PROVE  /\ Pair(b) \in Seq(Bytes) /\ Len(Pair(b)) \in 1..2 /\ Pair(b)[1] = b
           /\ Len(Pair(b)) = 1 => Pair(b) = <<b>>
           /\ Len(Pair(b)) = 2 => \/ b = "IAC" /\ Pair(b) = <<b, b>>
                                  \/ b = "CR" /\ ~vmodem /\ Pair(b) = <<b, "NUL">>
           /\ b = "IAC" \/ (b = "CR" /\ ~vmodem) => Len(Pair(b)) = 2
<1>1. b \in Bytes /\ "NUL" \in Bytes
  BY DEF Chars, Bytes
<1>2. CASE b = "IAC"
  BY <1>1, <1>2 DEF Pair
<1>3. CASE b = "CR" /\ ~vmodem
  BY <1>1, <1>3 DEF Pair
<1>4. CASE b # "IAC" /\ ~(b = "CR" /\ ~vmodem)
  BY <1>1, <1>4 DEF Pair
<1> QED BY <1>2, <1>3, <1>4

Twice(w) == Len(Pairs(w)) - Len(w)

LEMMA PairsAre ==
    /\ Pairs(<<>>) = <<>>
    /\ \A w \in Seq(Chars) : Pairs(w) \in Seq(Bytes)
    /\ \A w \in Seq(Chars) : \A b \in Chars : Pairs(Append(w, b)) = Pairs(w) \o Pair(b)
<1>1. Pairs(<<>>) = <<>>
  BY ThroughEmpty DEF Pairs
<1>2. ASSUME NEW w \in Seq(Chars), NEW b \in Chars
      PROVE  Pairs(Append(w, b)) = Pairing[<<Pairs(w), b>>]
  BY ThroughAppend DEF Pairs
<1>3. ASSUME NEW q \in Seq(Bytes), NEW b \in Chars
      PROVE  Pairing[<<q, b>>] = q \o Pair(b) /\ q \o Pair(b) \in Seq(Bytes)
  <2>1. Pairing[<<q, b>>] = q \o Pair(b)
    BY DEF Pairing
  <2> QED BY <2>1, PairFacts, ConcatProperties
<1> DEFINE P == {w \in Seq(Chars) : Pairs(w) \in Seq(Bytes)}
<1>4. <<>> \in P
  BY <1>1, EmptySeq
<1>5. ASSUME NEW w \in Seq(Chars), NEW b \in Chars, w \in P PROVE Append(w, b) \in P
  <2>1. Append(w, b) \in Seq(Chars)
    OBVIOUS
  <2>2. Pairing[<<Pairs(w), b>>] \in Seq(Bytes)
    BY <1>3, <1>5
  <2> QED BY <1>2, <2>1, <2>2
<1>6. \A w \in Seq(Chars) : w \in P
  <2> HIDE DEF P
  <2> QED BY <1>4, <1>5, SeqInductive
<1> QED BY <1>1, <1>2, <1>3, <1>6

LEMMA TwiceIs ==
    /\ Twice(<<>>) = 0
    /\ \A w \in Seq(Chars) : Twice(w) \in Nat /\ Len(Pairs(w)) = Len(w) + Twice(w)
    /\ \A w \in Seq(Chars) : \A b \in Chars :
         Twice(Append(w, b)) = Twice(w) + Len(Pair(b)) - 1
<1>1. Twice(<<>>) = 0
  BY PairsAre, EmptySeq DEF Twice
<1>2. ASSUME NEW w \in Seq(Chars), NEW b \in Chars
      PROVE  Twice(Append(w, b)) = Twice(w) + Len(Pair(b)) - 1
  <2>1. Len(Pairs(w) \o Pair(b)) = Len(Pairs(w)) + Len(Pair(b)) /\ Len(Pairs(w)) \in Nat
        /\ Len(Pair(b)) \in Nat
    BY PairsAre, PairFacts, ConcatProperties, LenProperties
  <2>2. Len(Append(w, b)) = Len(w) + 1 /\ Len(w) \in Nat
    BY AppendProperties, LenProperties
  <2> QED BY <2>1, <2>2, PairsAre DEF Twice
<1> DEFINE P == {w \in Seq(Chars) : Twice(w) \in Nat}
<1>4. <<>> \in P
  BY <1>1, EmptySeq
<1>5. ASSUME NEW w \in Seq(Chars), NEW b \in Chars, w \in P PROVE Append(w, b) \in P
  <2>1. Len(Pair(b)) \in 1..2
    BY PairFacts
  <2>2. Append(w, b) \in Seq(Chars)
    OBVIOUS
  <2>3. Twice(w) + Len(Pair(b)) - 1 \in Nat
    <3>1. \A n \in Nat : \A k \in 1..2 : n + k - 1 \in Nat
      OBVIOUS
    <3> QED BY <1>5, <2>1, <3>1
  <2> QED BY <1>2, <2>2, <2>3
<1>6. \A w \in Seq(Chars) : w \in P
  <2> HIDE DEF P
  <2> QED BY <1>4, <1>5, SeqInductive
<1>7. \A w \in Seq(Chars) : Len(Pairs(w)) \in Nat /\ Len(w) \in Nat
  BY PairsAre, LenProperties
<1> QED BY <1>1, <1>2, <1>6, <1>7 DEF Twice

(***************************************************************************)
(* A portion of what is written for d is what is written for its first i   *)
(* characters, or has half of a pair besides.                              *)
(***************************************************************************)
Portion(d, rc, i) ==
    LET first == SubSeq(d, 1, i)
    IN  \/ SubSeq(Pairs(d), 1, rc) = Pairs(first) /\ Twice(first) <= Twice(d)
        \/ /\ i < Len(d) /\ rc < Len(Pairs(d)) /\ Len(Pair(d[i + 1])) = 2
           /\ SubSeq(Pairs(d), 1, rc) = Append(Pairs(first), d[i + 1])
           /\ Twice(first) < Twice(d)

LEMMA Portions ==
    \A d \in Seq(Chars) : \A rc \in 0..Len(Pairs(d)) : \E i \in 0..Len(d) : Portion(d, rc, i)
<1> DEFINE P == {d \in Seq(Chars) :
                   \A rc \in 0..Len(Pairs(d)) : \E i \in 0..Len(d) : Portion(d, rc, i)}
<1>1. <<>> \in P
  <2>1. SubSeq(<<>>, 1, 0) = <<>> /\ Len(<<>>) = 0
    OBVIOUS
  <2>2. Portion(<<>>, 0, 0)
    <3>1. SubSeq(Pairs(<<>>), 1, 0) = Pairs(SubSeq(<<>>, 1, 0))
      BY <2>1, PairsAre
    <3>2. Twice(SubSeq(<<>>, 1, 0)) <= Twice(<<>>)
      <4>1. \A x : x = <<>> => Twice(x) <= Twice(<<>>)
        BY TwiceIs
      <4> QED BY <2>1, <4>1, Zenon
    <3> QED BY <3>1, <3>2 DEF Portion
  <2> QED BY <2>1, <2>2, PairsAre, EmptySeq
<1>2. ASSUME NEW d \in Seq(Chars), NEW b \in Chars, d \in P PROVE Append(d, b) \in P
  <2> DEFINE e == Append(d, b)
             q == Pairs(d)
             p == Pair(b)
  <2>1. /\ e \in Seq(Chars) /\ Len(e) = Len(d) + 1 /\ e[Len(d) + 1] = b
        /\ SubSeq(e, 1, Len(e)) = e /\ SubSeq(e, 1, Len(d)) = d
        /\ \A i \in 0..Len(d) : SubSeq(e, 1, i) = SubSeq(d, 1, i)
        /\ \A i \in 1..Len(d) : e[i] = d[i]
    OBVIOUS
  <2>2. /\ q \in Seq(Bytes) /\ p \in Seq(Bytes) /\ Pairs(e) = q \o p /\ Len(p) \in 1..2 /\ p[1] = b
        /\ Twice(e) = Twice(d) + Len(p) - 1 /\ Twice(d) \in Nat
    BY PairsAre, PairFacts, TwiceIs
  <2> SUFFICES ASSUME NEW rc \in 0..Len(Pairs(e)) PROVE \E i \in 0..Len(e) : Portion(e, rc, i)
    BY <2>1
  <2> HIDE DEF e, q, p
  <2>3. Len(q \o p) = Len(q) + Len(p) /\ Len(q) \in Nat
    BY <2>2
  <2>4. CASE rc <= Len(q)
    <3>1. SubSeq(q \o p, 1, rc) = SubSeq(q, 1, rc)
      BY <2>2, <2>4
    <3>2. PICK i \in 0..Len(d) : Portion(d, rc, i)
      BY <1>2, <2>4 DEF q
    <3>3. i < Len(d) => e[i + 1] = d[i + 1]
      BY <2>1
    <3>4. i \in 0..Len(e)
      BY <2>1
    <3>5. SubSeq(e, 1, i) = SubSeq(d, 1, i)
      BY <2>1
    <3>6. Portion(e, rc, i)
      <4>1. Twice(d) <= Twice(e) /\ Len(q) <= Len(Pairs(e)) /\ Len(d) <= Len(e)
        BY <2>1, <2>2, <2>3
      <4>2. Twice(SubSeq(d, 1, i)) \in Nat
        <5>1. SubSeq(d, 1, i) \in Seq(Chars)
          OBVIOUS
        <5> QED BY <5>1, TwiceIs
      <4>3. SubSeq(Pairs(e), 1, rc) = SubSeq(Pairs(d), 1, rc)
        BY <2>2, <3>1 DEF q
      <4>a. Twice(e) \in Nat /\ Len(e) \in Nat /\ Len(d) \in Nat /\ Len(Pairs(e)) \in Nat
        BY <2>1, <2>2, <2>3, LenProperties
      <4>4. CASE SubSeq(Pairs(d), 1, rc) = Pairs(SubSeq(d, 1, i)) /\ Twice(SubSeq(d, 1, i)) <= Twice(d)
        <5>1. Twice(SubSeq(d, 1, i)) <= Twice(e)
          BY <2>2, <4>1, <4>2, <4>4, <4>a
        <5> QED BY <3>5, <4>3, <4>4, <5>1 DEF Portion
      <4>5. CASE /\ i < Len(d) /\ rc < Len(Pairs(d)) /\ Len(Pair(d[i + 1])) = 2
                 /\ SubSeq(Pairs(d), 1, rc) = Append(Pairs(SubSeq(d, 1, i)), d[i + 1])
                 /\ Twice(SubSeq(d, 1, i)) < Twice(d)
        <5>1. Twice(SubSeq(d, 1, i)) < Twice(e) /\ i < Len(e) /\ rc < Len(Pairs(e))
          BY <2>2, <2>3, <4>1, <4>2, <4>5, <4>a DEF q
        <5> QED BY <3>3, <3>5, <4>3, <4>5, <5>1 DEF Portion
      <4> QED BY <3>2, <4>4, <4>5 DEF Portion
    <3> QED BY <3>4, <3>6
  <2>5. CASE rc = Len(q \o p)
    <3>1. SubSeq(q \o p, 1, rc) = q \o p
      BY <2>2, <2>5
    <3>3. Twice(e) <= Twice(e)
      BY <2>1, TwiceIs
    <3>2. Portion(e, rc, Len(e))
      BY <2>1, <2>2, <3>1, <3>3 DEF Portion
    <3> QED BY <2>1, <3>2, LenProperties
  <2>6. CASE rc = Len(q) + 1 /\ Len(p) = 2
    <3>1. SubSeq(q \o p, 1, rc) = Append(q, b)
      BY <2>2, <2>6
    <3>3. Twice(d) < Twice(e) /\ Len(d) < Len(e) /\ rc < Len(Pairs(e))
      BY <2>1, <2>2, <2>3, <2>6, LenProperties
    <3>4. SubSeq(Pairs(e), 1, rc) = Append(Pairs(SubSeq(e, 1, Len(d))), e[Len(d) + 1])
      BY <2>1, <2>2, <3>1 DEF q
    <3>5. Len(Pair(e[Len(d) + 1])) = 2
      BY <2>1, <2>6 DEF p
    <3>2. Portion(e, rc, Len(d))
      BY <2>1, <3>3, <3>4, <3>5 DEF Portion
    <3> QED BY <2>1, <3>2, LenProperties
  <2>7. rc <= Len(q) \/ rc = Len(q) + Len(p) \/ (rc = Len(q) + 1 /\ Len(p) = 2)
    <3>1. \A n \in Nat : \A k \in 1..2 : \A r \in 0..(n + k) :
            r <= n \/ r = n + k \/ (r = n + 1 /\ k = 2)
      OBVIOUS
    <3>2. rc \in 0..(Len(q) + Len(p))
      BY <2>2, <2>3
    <3> QED BY <2>2, <2>3, <3>1, <3>2
  <2> QED BY <2>3, <2>4, <2>5, <2>6, <2>7
<1>3. \A d \in Seq(Chars) : d \in P
  <2> HIDE DEF P
  <2> QED BY <1>1, <1>2, SeqInductive
<1> QED BY <1>3

-----------------------------------------------------------------------------
\* What a reader makes of a character.
Hearers == [s : States, heard : Seq(Bytes)]
At(s, q) == [s |-> s, heard |-> q]

LEMMA StateFacts ==
    /\ Fresh \in States
    /\ \A s \in States : \A b \in Bytes : After(s, b) \in States /\ Gives(s, b) \in Seq(Bytes)
<1>1. Fresh \in States
  BY DEF Fresh, States
<1>2. ASSUME NEW s \in States, NEW b \in Bytes
      PROVE  After(s, b) \in States /\ Gives(s, b) \in Seq(Bytes)
  <2>1. After(s, b) \in {[s EXCEPT !.state = "T_IAC"], [s EXCEPT !.state = "T_CR"],
                         [state |-> "T_COMMAND", command |-> b], Fresh}
    BY DEF After
  <2>2. \A k \in {"T_IAC", "T_CR"} : [s EXCEPT !.state = k] \in States
    BY DEF States
  <2>3. [state |-> "T_COMMAND", command |-> b] \in States
    BY DEF States
  <2>4. Gives(s, b) \in {<<>>, <<b>>}
    <3>1. s.state \in {"T_DATA", "T_IAC", "T_COMMAND", "T_CR"}
      BY DEF States
    <3>2. CASE s.state = "T_DATA"
      BY <3>2 DEF Gives
    <3>3. CASE s.state = "T_IAC"
      BY <3>3 DEF Gives
    <3>4. CASE s.state = "T_COMMAND"
      BY <3>4 DEF Gives
    <3>5. CASE s.state = "T_CR"
      BY <3>5 DEF Gives
    <3> QED BY <3>1, <3>2, <3>3, <3>4, <3>5
  <2>5. After(s, b) \in States
    BY <1>1, <2>1, <2>2, <2>3
  <2>6. <<>> \in Seq(Bytes) /\ <<b>> \in Seq(Bytes)
    OBVIOUS
  <2>7. Gives(s, b) \in Seq(Bytes)
    BY <2>4, <2>6
  <2> QED BY <2>5, <2>7
<1> QED BY <1>1, <1>2

LEMMA HearsOne ==
    ASSUME NEW s \in States, NEW q \in Seq(Bytes), NEW b \in Bytes
    PROVE  Reader[<<At(s, q), b>>] = At(After(s, b), q \o Gives(s, b))
<1>1. At(s, q) \in Hearers /\ At(s, q).s = s /\ At(s, q).heard = q
  BY DEF Hearers, At
<1>2. \A r \in Hearers : Reader[<<r, b>>] = [s |-> After(r.s, b), heard |-> r.heard \o Gives(r.s, b)]
  BY DEF Reader, Hearers
<1>3. Reader[<<At(s, q), b>>]
        = [s |-> After(At(s, q).s, b), heard |-> At(s, q).heard \o Gives(At(s, q).s, b)]
  BY <1>1, <1>2, Zenon
<1> QED BY <1>1, <1>3 DEF At

(***************************************************************************)
(* A reader that takes what is not about a command as readtcp does: f is   *)
(* Reader itself, and a second one below.                                  *)
(***************************************************************************)
Reads(f) ==
    \A s \in States : \A q \in Seq(Bytes) : \A b \in Bytes :
      After(s, b).state # "T_COMMAND" => f[<<At(s, q), b>>] = At(After(s, b), q \o Gives(s, b))

\* What is written for one character is heard as that character.
LEMMA ReadsPair ==
    ASSUME NEW f, Reads(f), NEW q \in Seq(Bytes), NEW b \in Chars
    PROVE  Through(f, At(Fresh, q), Pair(b)) = At(Fresh, q \o <<b>>)
<1>1. b \in Bytes /\ "NUL" \in Bytes /\ "IAC" \in Bytes /\ <<b>> \in Seq(Bytes)
      /\ q \o <<b>> \in Seq(Bytes) /\ q \o <<>> = q /\ (q \o <<b>>) \o <<>> = q \o <<b>>
  BY DEF Chars, Bytes
<1> DEFINE iac == [Fresh EXCEPT !.state = "T_IAC"]
           cr  == [Fresh EXCEPT !.state = "T_CR"]
<1>2. iac \in States /\ cr \in States /\ Fresh \in States
  BY DEF Fresh, States
<1>r. \A s \in States : \A x \in Seq(Bytes) : \A c \in Bytes :
        After(s, c).state # "T_COMMAND" => f[<<At(s, x), c>>] = At(After(s, c), x \o Gives(s, c))
  BY Zenon DEF Reads
<1>6. f[<<At(Fresh, q), b>>] = At(After(Fresh, b), q \o Gives(Fresh, b))
  <2>1. After(Fresh, b).state # "T_COMMAND"
    BY DEF After, Fresh
  <2> QED BY <1>1, <1>2, <1>r, <2>1, Zenon
<1>7. \A h, x, y : Through(f, h, <<x, y>>) = Through(f, Through(f, h, <<x>>), <<y>>)
  BY ThroughTwo
<1>8. \A h, x : Through(f, h, <<x>>) = f[<<h, x>>]
  BY ThroughOne
<1>3. CASE b = "IAC"
  <2>1. Pair(b) = <<b, b>>
    BY <1>3 DEF Pair
  <2>2. After(Fresh, b) = iac /\ Gives(Fresh, b) = <<>>
    BY <1>3 DEF After, Gives, Fresh
  <2>3. After(iac, b) = Fresh /\ Gives(iac, b) = <<b>>
    BY <1>3 DEF After, Gives, Fresh
  <2> HIDE DEF iac
  <2>4. f[<<At(Fresh, q), b>>] = At(iac, q)
    BY <1>1, <1>6, <2>2, Zenon
  <2>5. f[<<At(iac, q), b>>] = At(Fresh, q \o <<b>>)
    <3>1. After(iac, b).state # "T_COMMAND"
      BY <2>3 DEF Fresh
    <3>2. f[<<At(iac, q), b>>] = At(After(iac, b), q \o Gives(iac, b))
      BY <1>1, <1>2, <1>r, <3>1
    <3> QED BY <2>3, <3>2, Zenon
  <2>6. Through(f, At(Fresh, q), <<b, b>>) = Through(f, Through(f, At(Fresh, q), <<b>>), <<b>>)
    BY <1>7
  <2>7. Through(f, At(Fresh, q), <<b>>) = At(iac, q)
    BY <1>8, <2>4
  <2>8. Through(f, At(iac, q), <<b>>) = At(Fresh, q \o <<b>>)
    BY <1>8, <2>5
  <2> QED BY <2>1, <2>6, <2>7, <2>8, Zenon
<1>4. CASE b = "CR" /\ ~vmodem
  <2>1. Pair(b) = <<b, "NUL">>
    BY <1>4 DEF Pair
  <2>2. After(Fresh, b) = cr /\ Gives(Fresh, b) = <<b>>
    BY <1>4 DEF After, Gives, Fresh
  <2>3. After(cr, "NUL") = Fresh /\ Gives(cr, "NUL") = <<>>
    BY DEF After, Gives, Fresh
  <2> HIDE DEF cr
  <2>4. f[<<At(Fresh, q), b>>] = At(cr, q \o <<b>>)
    BY <1>6, <2>2, Zenon
  <2>5. f[<<At(cr, q \o <<b>>), "NUL">>] = At(Fresh, q \o <<b>>)
    <3>1. \A x \in Seq(Bytes) : f[<<At(cr, x), "NUL">>]
                                   = At(After(cr, "NUL"), x \o Gives(cr, "NUL"))
      <4>1. After(cr, "NUL").state # "T_COMMAND"
        BY <2>3 DEF Fresh
      <4> QED BY <1>1, <1>2, <1>r, <4>1, Zenon
    <3> QED BY <1>1, <2>3, <3>1, Zenon
  <2>6. Through(f, At(Fresh, q), <<b, "NUL">>) = Through(f, Through(f, At(Fresh, q), <<b>>), <<"NUL">>)
    BY <1>7
  <2>7. Through(f, At(Fresh, q), <<b>>) = At(cr, q \o <<b>>)
    BY <1>8, <2>4
  <2>8. Through(f, At(cr, q \o <<b>>), <<"NUL">>) = At(Fresh, q \o <<b>>)
    BY <1>8, <2>5, Zenon
  <2> QED BY <2>1, <2>6, <2>7, <2>8, Zenon
<1>5. CASE b # "IAC" /\ ~(b = "CR" /\ ~vmodem)
  <2>1. Pair(b) = <<b>>
    BY <1>5 DEF Pair
  <2>2. After(Fresh, b) = Fresh /\ Gives(Fresh, b) = <<b>>
    BY <1>5 DEF After, Gives, Fresh
  <2>3. f[<<At(Fresh, q), b>>] = At(Fresh, q \o <<b>>)
    BY <1>6, <2>2, Zenon
  <2> QED BY <1>8, <2>1, <2>3, Zenon
<1> QED BY <1>3, <1>4, <1>5

\* A whole piece of data, encoded, is heard as it is.
LEMMA ReadsPairs ==
    ASSUME NEW f, Reads(f), NEW q \in Seq(Bytes)
    PROVE  \A w \in Seq(Chars) : Through(f, At(Fresh, q), Pairs(w)) = At(Fresh, q \o w)
<1> DEFINE P == {w \in Seq(Chars) : Through(f, At(Fresh, q), Pairs(w)) = At(Fresh, q \o w)}
<1>1. <<>> \in P
  <2>1. Through(f, At(Fresh, q), <<>>) = At(Fresh, q) /\ q \o <<>> = q
    BY ThroughEmpty
  <2> QED BY <2>1, PairsAre, EmptySeq
<1>2. ASSUME NEW w \in Seq(Chars), NEW b \in Chars, w \in P PROVE Append(w, b) \in P
  <2>1. Through(f, At(Fresh, q), Pairs(w) \o Pair(b)) = Through(f, Through(f, At(Fresh, q), Pairs(w)), Pair(b))
    <3>1. Pairs(w) \in Seq(Bytes) /\ Pair(b) \in Seq(Bytes)
      BY PairsAre, PairFacts
    <3>2. \A v, x \in Seq(Bytes) :
            Through(f, At(Fresh, q), v \o x) = Through(f, Through(f, At(Fresh, q), v), x)
      BY ThroughBoth
    <3> QED BY <3>1, <3>2, Zenon
  <2>2. w \in Seq(Bytes) /\ b \in Bytes /\ q \o w \in Seq(Bytes)
        /\ (q \o w) \o <<b>> = q \o Append(w, b) /\ Append(w, b) \in Seq(Chars)
    <3>1. w \in Seq(Bytes) /\ b \in Bytes /\ <<b>> \in Seq(Bytes)
      BY DEF Chars, Bytes
    <3>2. Append(w, b) = w \o <<b>> /\ Append(w, b) \in Seq(Chars)
      BY AppendIsConcat, AppendProperties
    <3>3. (q \o w) \o <<b>> = q \o (w \o <<b>>)
      BY <3>1, ConcatAssociative
    <3> QED BY <3>1, <3>2, <3>3, ConcatProperties
  <2>3. Through(f, At(Fresh, q \o w), Pair(b)) = At(Fresh, (q \o w) \o <<b>>)
    BY <2>2, ReadsPair
  <2>4. Through(f, At(Fresh, q), Pairs(w)) = At(Fresh, q \o w)
    BY <1>2
  <2>5. Through(f, At(Fresh, q), Pairs(Append(w, b))) = At(Fresh, q \o Append(w, b))
    BY <2>1, <2>2, <2>3, <2>4, PairsAre
  <2> QED BY <2>2, <2>5
<1>3. \A w \in Seq(Chars) : w \in P
  <2> HIDE DEF P
  <2> QED BY <1>1, <1>2, SeqInductive
<1> QED BY <1>3

LEMMA HearsPairs ==
    ASSUME NEW q \in Seq(Bytes)
    PROVE  \A w \in Seq(Chars) : Heard(At(Fresh, q), Pairs(w)) = At(Fresh, q \o w)
<1>1. Reads(Reader)
  BY HearsOne DEF Reads
<1> QED BY <1>1, ReadsPairs DEF Heard

-----------------------------------------------------------------------------
\* What the loop of writetcp counts.
Tally(n, i) == [count |-> n, NUL |-> FALSE, was |-> FALSE, IAC |-> i]

LEMMA CountsOne ==
    ASSUME NEW n \in Nat, NEW i \in BOOLEAN, NEW b \in Bytes, ~(b = "CR" /\ ~vmodem)
    PROVE  Counting[<<Tally(n, i), b>>]
             = IF b = "IAC" THEN Tally(n + 1, ~i) ELSE Tally(n, i)
<1>1. Tally(n, i) \in Tallies
  BY DEF Tally, Tallies
<1>2. \A c \in Tallies : ~c.was /\ ~c.NUL =>
        Counting[<<c, b>>] = [count |-> c.count + 0 + (IF b = "IAC" THEN 1 ELSE 0),
                              NUL |-> FALSE, was |-> FALSE,
                              IAC |-> IF b = "IAC" THEN ~c.IAC ELSE c.IAC]
  BY DEF Counting, Tallies
<1>3. Tally(n, i).was = FALSE /\ Tally(n, i).NUL = FALSE /\ Tally(n, i).count = n
      /\ Tally(n, i).IAC = i
  BY DEF Tally
<1> DEFINE t == Tally(n, i)
<1>6. Counting[<<t, b>>] = [count |-> t.count + 0 + (IF b = "IAC" THEN 1 ELSE 0),
                           NUL |-> FALSE, was |-> FALSE,
                           IAC |-> IF b = "IAC" THEN ~t.IAC ELSE t.IAC]
  BY <1>1, <1>2, <1>3, Zenon
<1>4. CASE b = "IAC"
  <2>1. Counting[<<t, b>>] = [count |-> t.count + 0 + 1, NUL |-> FALSE, was |-> FALSE, IAC |-> ~t.IAC]
    BY <1>6, <1>4
  <2>2. n + 0 + 1 = n + 1
    OBVIOUS
  <2>3. Counting[<<t, b>>] = Tally(n + 1, ~i)
    BY <2>1, <2>2, <1>3, Zenon DEF Tally
  <2> QED BY <2>3, <1>4
<1>5. CASE b # "IAC"
  <2>1. Counting[<<t, b>>] = [count |-> t.count + 0 + 0, NUL |-> FALSE, was |-> FALSE, IAC |-> t.IAC]
    BY <1>6, <1>5
  <2>2. n + 0 + 0 = n
    OBVIOUS
  <2>3. Counting[<<t, b>>] = Tally(n, i)
    BY <2>1, <2>2, <1>3, Zenon DEF Tally
  <2> QED BY <2>3, <1>5
<1> QED BY <1>4, <1>5

\* Each pair counts two, but a lone character nothing.
LEMMA CountsPair ==
    ASSUME NEW n \in Nat, NEW i \in BOOLEAN, NEW b \in Chars
    PROVE  Through(Counting, Tally(n, i), Pair(b)) = Tally(n + 2 * (Len(Pair(b)) - 1), i)
<1>1. b \in Bytes /\ "NUL" \in Bytes /\ "IAC" \in Bytes
  BY DEF Chars, Bytes
<1>2. \A h, x, y : Through(Counting, h, <<x, y>>)
                     = Through(Counting, Through(Counting, h, <<x>>), <<y>>)
  BY ThroughTwo
<1>3. \A h, x : Through(Counting, h, <<x>>) = Counting[<<h, x>>]
  BY ThroughOne
<1>4. CASE b = "IAC"
  <2>1. Pair(b) = <<b, b>> /\ Len(Pair(b)) = 2
    BY <1>4 DEF Pair
  <2>2. Counting[<<Tally(n, i), b>>] = Tally(n + 1, ~i)
    BY <1>1, <1>4, CountsOne
  <2>3. \A j \in BOOLEAN : \A m \in Nat : Counting[<<Tally(m, j), b>>] = Tally(m + 1, ~j)
    BY <1>1, <1>4, CountsOne
  <2>4. (~i) \in BOOLEAN /\ n + 1 \in Nat /\ (n + 1) + 1 = n + 2
    OBVIOUS
  <2>5. Counting[<<Tally(n + 1, ~i), b>>] = Tally((n + 1) + 1, ~~i)
    BY <2>3, <2>4, Zenon
  <2>6. Tally((n + 1) + 1, ~~i) = Tally(n + 2, i)
    <3>1. (~~i) = i
      OBVIOUS
    <3> QED BY <2>4, <3>1
  <2>7. Through(Counting, Tally(n, i), <<b, b>>) = Tally(n + 2, i)
    <3>1. Through(Counting, Tally(n, i), <<b, b>>)
            = Through(Counting, Through(Counting, Tally(n, i), <<b>>), <<b>>)
      BY <1>2
    <3>2. Through(Counting, Tally(n, i), <<b>>) = Tally(n + 1, ~i)
      BY <1>3, <2>2
    <3>3. Through(Counting, Tally(n + 1, ~i), <<b>>) = Counting[<<Tally(n + 1, ~i), b>>]
      BY <1>3
    <3> QED BY <2>5, <2>6, <3>1, <3>2, <3>3, Zenon
  <2>8. 2 * (2 - 1) = 2
    OBVIOUS
  <2> QED BY <2>1, <2>7, <2>8, Zenon
<1>5. CASE b = "CR" /\ ~vmodem
  <2>1. Pair(b) = <<b, "NUL">> /\ Len(Pair(b)) = 2
    BY <1>5 DEF Pair
  <2> DEFINE mid == [count |-> n + 1, NUL |-> TRUE, was |-> TRUE, IAC |-> i]
  <2>2. Counting[<<Tally(n, i), b>>] = mid
    <3>1. Tally(n, i) \in Tallies
      BY DEF Tally, Tallies
    <3>2. \A c \in Tallies : ~c.was /\ ~c.NUL =>
            Counting[<<c, "CR">>] = [count |-> c.count + 0 + 1,
                                     NUL |-> TRUE, was |-> TRUE, IAC |-> c.IAC]
      BY <1>1, <1>5 DEF Counting, Tallies
    <3>3. Tally(n, i).was = FALSE /\ Tally(n, i).NUL = FALSE /\ Tally(n, i).count = n
          /\ Tally(n, i).IAC = i
      BY DEF Tally
    <3> QED BY <1>5, <3>1, <3>2, <3>3
  <2>3. Counting[<<mid, "NUL">>] = Tally(n + 2, i)
    <3>1. mid \in Tallies
      BY DEF Tallies
    <3>2. \A c \in Tallies : c.was /\ c.NUL =>
            Counting[<<c, "NUL">>] = [count |-> c.count + 1 + 0,
                                      NUL |-> FALSE, was |-> FALSE, IAC |-> c.IAC]
      BY <1>1 DEF Counting, Tallies
    <3>3. mid.was /\ mid.NUL /\ mid.count = n + 1 /\ mid.IAC = i
      OBVIOUS
    <3>4. n + 1 + 1 + 0 = n + 2
      OBVIOUS
    <3> HIDE DEF mid
    <3> QED BY <3>1, <3>2, <3>3, <3>4 DEF Tally
  <2> HIDE DEF mid
  <2>7. Through(Counting, Tally(n, i), <<b, "NUL">>) = Tally(n + 2, i)
    <3>1. Through(Counting, Tally(n, i), <<b, "NUL">>)
            = Through(Counting, Through(Counting, Tally(n, i), <<b>>), <<"NUL">>)
      BY <1>2
    <3>2. Through(Counting, Tally(n, i), <<b>>) = mid
      BY <1>3, <2>2
    <3>3. Through(Counting, mid, <<"NUL">>) = Counting[<<mid, "NUL">>]
      BY <1>3
    <3> QED BY <2>3, <3>1, <3>2, <3>3, Zenon
  <2>8. 2 * (2 - 1) = 2
    OBVIOUS
  <2> QED BY <2>1, <2>7, <2>8, Zenon
<1>6. CASE b # "IAC" /\ ~(b = "CR" /\ ~vmodem)
  <2>1. Pair(b) = <<b>> /\ Len(Pair(b)) = 1
    BY <1>6 DEF Pair
  <2>2. Counting[<<Tally(n, i), b>>] = Tally(n, i)
    BY <1>1, <1>6, CountsOne
  <2>3. n + 2 * (1 - 1) = n
    OBVIOUS
  <2> QED BY <1>3, <2>1, <2>2, <2>3, Zenon
<1> QED BY <1>4, <1>5, <1>6

LEMMA CountsPairs ==
    ASSUME NEW n \in Nat, NEW i \in BOOLEAN
    PROVE  \A w \in Seq(Chars) :
             Through(Counting, Tally(n, i), Pairs(w)) = Tally(n + 2 * Twice(w), i)
<1> DEFINE P == {w \in Seq(Chars) :
                   Through(Counting, Tally(n, i), Pairs(w)) = Tally(n + 2 * Twice(w), i)}
<1>1. <<>> \in P
  <2>1. n + 2 * 0 = n
    OBVIOUS
  <2>2. Through(Counting, Tally(n, i), <<>>) = Tally(n, i)
    BY ThroughEmpty
  <2>3. Pairs(<<>>) = <<>> /\ Twice(<<>>) = 0 /\ <<>> \in Seq(Chars)
    BY PairsAre, TwiceIs, EmptySeq
  <2> QED BY <2>1, <2>2, <2>3
<1>2. ASSUME NEW w \in Seq(Chars), NEW b \in Chars, w \in P PROVE Append(w, b) \in P
  <2> DEFINE mid == n + 2 * Twice(w)
  <2>1. Through(Counting, Tally(n, i), Pairs(w) \o Pair(b))
          = Through(Counting, Through(Counting, Tally(n, i), Pairs(w)), Pair(b))
    <3>1. Pairs(w) \in Seq(Bytes) /\ Pair(b) \in Seq(Bytes)
      BY PairsAre, PairFacts
    <3>2. \A v, x \in Seq(Bytes) :
            Through(Counting, Tally(n, i), v \o x)
              = Through(Counting, Through(Counting, Tally(n, i), v), x)
      BY ThroughBoth
    <3> QED BY <3>1, <3>2, Zenon
  <2>2. mid \in Nat
    BY TwiceIs
  <2>3. Through(Counting, Tally(n, i), Pairs(w)) = Tally(mid, i)
    BY <1>2
  <2>4. Append(w, b) \in Seq(Chars) /\ Pairs(Append(w, b)) = Pairs(w) \o Pair(b)
    BY PairsAre, AppendProperties
  <2>5. mid + 2 * (Len(Pair(b)) - 1) = n + 2 * Twice(Append(w, b))
    <3>1. Twice(Append(w, b)) = Twice(w) + Len(Pair(b)) - 1 /\ Twice(w) \in Nat
      BY TwiceIs
    <3>2. Len(Pair(b)) \in 1..2
      BY PairFacts
    <3>3. \A x, y, z \in Int : (x + 2 * y) + 2 * (z - 1) = x + 2 * (y + z - 1)
      OBVIOUS
    <3>4. n \in Int /\ Twice(w) \in Int /\ Len(Pair(b)) \in Int
      BY <3>1, <3>2
    <3> QED BY <3>1, <3>3, <3>4
  <2> HIDE DEF mid
  <2>6. Through(Counting, Tally(mid, i), Pair(b)) = Tally(mid + 2 * (Len(Pair(b)) - 1), i)
    BY <2>2, CountsPair
  <2>7. Through(Counting, Tally(n, i), Pairs(Append(w, b))) = Tally(n + 2 * Twice(Append(w, b)), i)
    BY <2>1, <2>3, <2>4, <2>5, <2>6, Zenon
  <2> QED BY <2>4, <2>7
<1>3. \A w \in Seq(Chars) : w \in P
  <2> HIDE DEF P
  <2> QED BY <1>1, <1>2, SeqInductive
<1> QED BY <1>3

-----------------------------------------------------------------------------
(***************************************************************************)
(* What the other side has, as long as no write has ended where writetcp   *)
(* miscounts: it has heard q, all that was said but for what is still to   *)
(* be written, and half of an IAC before that if one is pending.           *)
(***************************************************************************)
Opened == [Fresh EXCEPT !.state = "T_IAC"]

Hears(q) ==
    \/ IAC_pending = FALSE /\ peer = At(Fresh, q) /\ said = q \o tosend
    \/ IAC_pending = TRUE /\ peer = At(Opened, q) /\ said = q \o (<<"IAC">> \o tosend)

OutInv ==
    ~miscounted => /\ tosend \in Seq(Chars) /\ NUL_pending = FALSE
                   /\ \E q \in Seq(Bytes) : Hears(q)

\* A turn of the loop of swrite, rc characters having gone, k of them of the data.
OneTurn(rc, k) ==
    /\ rc > 0 /\ Doubled => k = Reported(rc, Counted(rc))
    /\ ~(rc > 0 /\ Doubled) => k = rc
    /\ IAC_pending' = (rc > 0 /\ Doubled /\ Counted(rc).IAC # IAC_pending)
    /\ NUL_pending' = (rc > 0 /\ Doubled /\ Counted(rc).NUL)
    /\ peer' = Heard(peer, SubSeq(netbuf, 1, rc))
    /\ tosend' = SubSeq(tosend, k + 1, Len(tosend))
    /\ said' = said
    /\ ~miscounted' => /\ ~miscounted
                       /\ Due = <<>> \/ rc = Len(netbuf)
                       /\ ~(rc \in 1..Len(netbuf) - 1 /\ ~vmodem /\ netbuf[rc] = "CR")

LEMMA WriteTurns ==
    ASSUME writetcp, Len(netbuf) \in Nat
    PROVE  tosend # <<>> /\ \E rc \in 0..Len(netbuf) : \E k : OneTurn(rc, k)
<1>1. PICK rc \in 0..Len(netbuf) : \E c \in {Counted(rc)} :
          LET counts == rc > 0 /\ Doubled
              k == IF counts THEN Reported(rc, c) ELSE rc
          IN  /\ peer' = Heard(peer, SubSeq(netbuf, 1, rc))
              /\ tosend' = SubSeq(tosend, k + 1, Len(tosend))
              /\ IAC_pending' = (counts /\ c.IAC # IAC_pending)
              /\ NUL_pending' = (counts /\ c.NUL)
              /\ miscounted' = (\/ miscounted
                                \/ Due # <<>> /\ rc < Len(netbuf)
                                \/ rc \in 1..Len(netbuf) - 1 /\ ~vmodem /\ netbuf[rc] = "CR")
  BY Zenon DEF writetcp
<1>2. tosend # <<>> /\ said' = said
  BY DEF writetcp
<1>3. /\ peer' = Heard(peer, SubSeq(netbuf, 1, rc))
      /\ IAC_pending' = ((rc > 0 /\ Doubled) /\ Counted(rc).IAC # IAC_pending)
      /\ NUL_pending' = ((rc > 0 /\ Doubled) /\ Counted(rc).NUL)
      /\ miscounted' = (\/ miscounted
                        \/ Due # <<>> /\ rc < Len(netbuf)
                        \/ rc \in 1..Len(netbuf) - 1 /\ ~vmodem /\ netbuf[rc] = "CR")
  BY <1>1, Zenon
<1>4. ~miscounted' => /\ ~miscounted
                      /\ Due = <<>> \/ rc = Len(netbuf)
                      /\ ~(rc \in 1..Len(netbuf) - 1 /\ ~vmodem /\ netbuf[rc] = "CR")
  <2>1. rc < Len(netbuf) \/ rc = Len(netbuf)
    OBVIOUS
  <2> QED BY <1>3, <2>1, Zenon
<1>5. CASE rc > 0 /\ Doubled
  <2>1. tosend' = SubSeq(tosend, Reported(rc, Counted(rc)) + 1, Len(tosend))
    BY <1>1, <1>5, Zenon
  <2>2. OneTurn(rc, Reported(rc, Counted(rc)))
    BY <1>2, <1>3, <1>4, <1>5, <2>1, Zenon DEF OneTurn
  <2> QED BY <1>2, <2>2, Zenon
<1>6. CASE ~(rc > 0 /\ Doubled)
  <2>1. tosend' = SubSeq(tosend, rc + 1, Len(tosend))
    BY <1>1, <1>6, Zenon
  <2>2. OneTurn(rc, rc)
    BY <1>2, <1>3, <1>4, <1>6, <2>1, Zenon DEF OneTurn
  <2> QED BY <1>2, <2>2, Zenon
<1> QED BY <1>5, <1>6, Zenon

LEMMA Cut ==
    ASSUME NEW C, NEW d \in Seq(C), NEW i \in 0..Len(d)
    PROVE  /\ SubSeq(d, 1, i) \in Seq(C) /\ Len(SubSeq(d, 1, i)) = i
           /\ SubSeq(d, i + 1, Len(d)) \in Seq(C)
           /\ SubSeq(d, 1, i) \o SubSeq(d, i + 1, Len(d)) = d
<1> DEFINE x == SubSeq(d, 1, i)
           y == SubSeq(d, i + 1, Len(d))
<1>1. x \in Seq(C) /\ Len(x) = i /\ y \in Seq(C) /\ Len(y) = Len(d) - i
  OBVIOUS
<1>2. /\ \A j \in 1..i : x[j] = d[j]
      /\ \A j \in 1..Len(d) - i : y[j] = d[j + i]
  OBVIOUS
<1>3. Len(d) \in Nat
  OBVIOUS
<1> HIDE DEF x, y
<1>4. x \o y \in Seq(C) /\ Len(x \o y) = Len(d)
  BY <1>1, <1>3
<1>5. ASSUME NEW j \in 1..Len(d) PROVE (x \o y)[j] = d[j]
  <2>1. CASE j <= i
    BY <1>1, <1>2, <1>3, <2>1
  <2>2. CASE j > i
    <3>1. (x \o y)[j] = y[j - i]
      BY <1>1, <1>3, <2>2
    <3>2. j - i \in 1..Len(d) - i /\ (j - i) + i = j
      BY <1>3, <2>2
    <3> QED BY <1>2, <3>1, <3>2
  <2>3. j <= i \/ j > i
    BY <1>3
  <2> QED BY <2>1, <2>2, <2>3
<1>6. x \o y = d
  BY <1>4, <1>5, SeqEqual
<1> QED BY <1>1, <1>6 DEF x, y

LEMMA Regroup ==
    \A u, v, w \in Seq(Bytes) : (u \o v) \o w = u \o (v \o w)
<1> SUFFICES ASSUME NEW u \in Seq(Bytes), NEW v \in Seq(Bytes), NEW w \in Seq(Bytes)
             PROVE  (u \o v) \o w = u \o (v \o w)
  OBVIOUS
<1> QED BY ConcatAssociative

LEMMA HalfIs ==
    \A t \in Nat : /\ Half(2 * t + 0 - 0 - 0 - 0) = t
                   /\ Half((2 * t + 1) + 0 - 0 - 1 - 0) = t
                   /\ Half((1 + 2 * t) + 0 - 1 - 0 - 0) = t
<1> SUFFICES ASSUME NEW t \in Nat
             PROVE  /\ Half(2 * t + 0 - 0 - 0 - 0) = t
                    /\ Half((2 * t + 1) + 0 - 0 - 1 - 0) = t
                    /\ Half((1 + 2 * t) + 0 - 1 - 0 - 0) = t
  OBVIOUS
<1>1. /\ 2 * t + 0 - 0 - 0 - 0 = 2 * t
      /\ (2 * t + 1) + 0 - 0 - 1 - 0 = 2 * t
      /\ (1 + 2 * t) + 0 - 1 - 0 - 0 = 2 * t
  OBVIOUS
<1>2. Half(2 * t) = t
  <2>1. ~(2 * t < 0) /\ (2 * t) \div 2 = t
    OBVIOUS
  <2> QED BY <2>1 DEF Half
<1> QED BY <1>1, <1>2

LEMMA DueIs ==
    ASSUME NUL_pending = FALSE, tosend \in Seq(Chars), tosend # <<>>
    PROVE  /\ IAC_pending = FALSE => Due = <<>> /\ netbuf = Pairs(tosend)
           /\ IAC_pending = TRUE => Due = <<"IAC">> /\ netbuf = <<"IAC">> \o Pairs(tosend)
<1>1. Pairs(tosend) \in Seq(Bytes) /\ <<"IAC">> \in Seq(Bytes)
  BY PairsAre DEF Bytes, Chars
<1>2. <<>> \o <<>> = <<>> /\ <<"IAC">> \o <<>> = <<"IAC">> /\ <<>> \o Pairs(tosend) = Pairs(tosend)
  BY <1>1
<1> HIDE <1>1
<1>3. CASE IAC_pending = FALSE
  <2>1. Due = <<>>
    BY <1>2, <1>3 DEF Due
  <2> QED BY <1>2, <1>3, <2>1 DEF netbuf
<1>4. CASE IAC_pending = TRUE
  <2>1. Due = <<"IAC">>
    BY <1>2, <1>4 DEF Due
  <2> QED BY <1>4, <2>1 DEF netbuf
<1> QED BY <1>3, <1>4

\* What is reported when the count is a Tally.
LEMMA Reports ==
    ASSUME NUL_pending = FALSE, NEW rc \in Nat, NEW t \in Nat
    PROVE  /\ IAC_pending = FALSE => /\ Reported(rc, Tally(2 * t, FALSE)) = rc - t
                                     /\ Reported(rc, Tally(2 * t + 1, TRUE)) = rc - t
           /\ IAC_pending = TRUE => Reported(rc, Tally(1 + 2 * t, TRUE)) = rc - t
<1>1. /\ Half(2 * t + 0 - 0 - 0 - 0) = t
      /\ Half((2 * t + 1) + 0 - 0 - 1 - 0) = t
      /\ Half((1 + 2 * t) + 0 - 1 - 0 - 0) = t
  BY HalfIs
<1>2. Bit(FALSE) = 0 /\ Bit(TRUE) = 1
  BY DEF Bit
<1>3. \A n, i : Tally(n, i).count = n /\ Tally(n, i).NUL = FALSE /\ Tally(n, i).IAC = i
  BY DEF Tally
<1>4. /\ (FALSE # FALSE) = FALSE /\ (TRUE # FALSE) = TRUE /\ (TRUE # TRUE) = FALSE
  OBVIOUS
<1>5. \A n, i : Reported(rc, Tally(n, i))
        = rc - Half(n + Bit(FALSE) - Bit(IAC_pending) - Bit(i # IAC_pending) - Bit(FALSE))
  BY <1>3, Zenon DEF Reported
<1>6. ASSUME IAC_pending = FALSE
      PROVE  /\ Reported(rc, Tally(2 * t, FALSE)) = rc - t
             /\ Reported(rc, Tally(2 * t + 1, TRUE)) = rc - t
  BY <1>1, <1>2, <1>4, <1>5, <1>6, Zenon
<1>7. ASSUME IAC_pending = TRUE PROVE Reported(rc, Tally(1 + 2 * t, TRUE)) = rc - t
  BY <1>1, <1>2, <1>4, <1>5, <1>7, Zenon
<1> QED BY <1>6, <1>7

\* A turn that ends between two characters, nothing being due.
LEMMA TurnsWhole ==
    ASSUME tosend \in Seq(Chars), tosend # <<>>, NUL_pending = FALSE, IAC_pending = FALSE,
           NEW rc \in 0..Len(netbuf), NEW k, OneTurn(rc, k),
           NEW q \in Seq(Bytes), peer = At(Fresh, q), said = q \o tosend,
           NEW i \in 0..Len(tosend),
           SubSeq(Pairs(tosend), 1, rc) = Pairs(SubSeq(tosend, 1, i)),
           Twice(SubSeq(tosend, 1, i)) <= Twice(tosend)
    PROVE  /\ NUL_pending' = FALSE /\ IAC_pending' = FALSE /\ tosend' \in Seq(Chars)
           /\ \E x \in Seq(Bytes) : peer' = At(Fresh, x) /\ said' = x \o tosend'
<1> DEFINE first == SubSeq(tosend, 1, i)
           rest  == SubSeq(tosend, i + 1, Len(tosend))
           t     == Twice(first)
<1>1. /\ first \in Seq(Chars) /\ rest \in Seq(Chars) /\ first \o rest = tosend /\ Len(first) = i
      /\ first \in Seq(Bytes) /\ rest \in Seq(Bytes)
  <2>1. first \in Seq(Chars) /\ rest \in Seq(Chars) /\ first \o rest = tosend /\ Len(first) = i
    BY Cut
  <2>2. \A w \in Seq(Chars) : w \in Seq(Bytes)
    BY DEF Bytes
  <2> QED BY <2>1, <2>2
<1>2. netbuf = Pairs(tosend)
  BY DueIs
<1>3. SubSeq(Pairs(tosend), 1, rc) = Pairs(first) /\ t <= Twice(tosend)
  OBVIOUS
<1>4. Twice(tosend) \in Nat /\ Len(Pairs(tosend)) = Len(tosend) + Twice(tosend)
      /\ Len(tosend) \in Nat
  BY TwiceIs, LenProperties
<1> HIDE DEF first, rest
<1>5. t \in Nat /\ Len(Pairs(first)) = i + t
  BY <1>1, TwiceIs
<1>6. rc = i + t
  <2>1. Pairs(tosend) \in Seq(Bytes)
    BY PairsAre
  <2>2. Len(SubSeq(Pairs(tosend), 1, rc)) = rc
    BY <1>2, <2>1
  <2> QED BY <1>3, <1>5, <2>2
<1> HIDE DEF t
<1>7. Counted(rc) = Tally(2 * t, FALSE)
  <2>1. NoCount = Tally(0, FALSE)
    BY DEF NoCount, Tally
  <2>2. Through(Counting, Tally(0, FALSE), Pairs(first)) = Tally(0 + 2 * Twice(first), FALSE)
    <3>1. 0 \in Nat /\ FALSE \in BOOLEAN
      OBVIOUS
    <3>2. \A w \in Seq(Chars) :
            Through(Counting, Tally(0, FALSE), Pairs(w)) = Tally(0 + 2 * Twice(w), FALSE)
      BY <3>1, CountsPairs, Zenon
    <3> QED BY <1>1, <3>2, Zenon
  <2>3. 0 + 2 * t = 2 * t
    BY <1>5
  <2>4. Counted(rc) = Through(Counting, Tally(0, FALSE), Pairs(first))
    BY <1>2, <1>3, <2>1, Zenon DEF Counted
  <2> QED BY <2>2, <2>3, <2>4, Zenon DEF t
<1>8. Tally(2 * t, FALSE).IAC = FALSE /\ Tally(2 * t, FALSE).NUL = FALSE
  BY DEF Tally
<1>9. k = i
  <2>1. CASE rc > 0 /\ Doubled
    <3>1. k = Reported(rc, Tally(2 * t, FALSE))
      BY <1>7, <2>1, Zenon DEF OneTurn
    <3>2. rc \in Nat
      BY <1>5, <1>6
    <3>3. Reported(rc, Tally(2 * t, FALSE)) = rc - t
      BY <1>5, <3>2, Reports
    <3>4. (i + t) - t = i
      BY <1>4, <1>5
    <3> QED BY <1>6, <3>1, <3>3, <3>4
  <2>2. CASE ~(rc > 0 /\ Doubled)
    <3>1. k = rc
      BY <2>2, Zenon DEF OneTurn
    <3>2. Doubled <=> Twice(tosend) # 0
      BY <1>4 DEF Doubled
    <3> QED BY <1>3, <1>4, <1>5, <1>6, <2>2, <3>1, <3>2 DEF t
  <2> QED BY <2>1, <2>2
<1>10. NUL_pending' = FALSE /\ IAC_pending' = FALSE
  <2>1. /\ IAC_pending' = (rc > 0 /\ Doubled /\ Tally(2 * t, FALSE).IAC # IAC_pending)
        /\ NUL_pending' = (rc > 0 /\ Doubled /\ Tally(2 * t, FALSE).NUL)
    BY <1>7, Zenon DEF OneTurn
  <2> QED BY <1>8, <2>1, Zenon
<1>11. tosend' = rest
  BY <1>9 DEF OneTurn, rest
<1>12. peer' = At(Fresh, q \o first)
  <2>1. Heard(At(Fresh, q), Pairs(first)) = At(Fresh, q \o first)
    BY <1>1, HearsPairs
  <2>2. peer' = Heard(peer, SubSeq(netbuf, 1, rc))
    BY Zenon DEF OneTurn
  <2> QED BY <1>2, <1>3, <2>1, <2>2, Zenon
<1>13. said' = (q \o first) \o rest /\ q \o first \in Seq(Bytes)
  <2>1. said' = q \o tosend
    BY Zenon DEF OneTurn
  <2>2. (q \o first) \o rest = q \o (first \o rest)
    BY <1>1, Regroup, Zenon
  <2>3. q \o first \in Seq(Bytes)
    BY <1>1, ConcatProperties
  <2> QED BY <1>1, <2>1, <2>2, <2>3
<1> QED BY <1>1, <1>10, <1>11, <1>12, <1>13

\* A turn that ends in the middle of a pair, nothing being due.
LEMMA TurnsHalf ==
    ASSUME tosend \in Seq(Chars), tosend # <<>>, NUL_pending = FALSE, IAC_pending = FALSE,
           NEW rc \in 0..Len(netbuf), NEW k, OneTurn(rc, k), ~miscounted',
           NEW q \in Seq(Bytes), peer = At(Fresh, q), said = q \o tosend,
           NEW i \in 0..Len(tosend), i < Len(tosend), rc < Len(Pairs(tosend)),
           Len(Pair(tosend[i + 1])) = 2,
           SubSeq(Pairs(tosend), 1, rc) = Append(Pairs(SubSeq(tosend, 1, i)), tosend[i + 1]),
           Twice(SubSeq(tosend, 1, i)) < Twice(tosend)
    PROVE  /\ NUL_pending' = FALSE /\ IAC_pending' = TRUE /\ tosend' \in Seq(Chars)
           /\ \E x \in Seq(Bytes) : peer' = At(Opened, x) /\ said' = x \o (<<"IAC">> \o tosend')
<1> DEFINE first == SubSeq(tosend, 1, i)
           rest  == SubSeq(tosend, (i + 1) + 1, Len(tosend))
           t     == Twice(first)
           b     == tosend[i + 1]
<1>a. Len(tosend) \in Nat /\ i + 1 \in 1..Len(tosend) /\ i + 1 \in 0..Len(tosend)
  <2>1. Len(tosend) \in Nat
    BY LenProperties
  <2> QED BY <2>1
<1>b. b \in Chars
  BY <1>a, ElementOfSeq
<1>1. /\ first \in Seq(Chars) /\ rest \in Seq(Chars) /\ first \o (<<b>> \o rest) = tosend
      /\ Len(first) = i /\ first \in Seq(Bytes) /\ rest \in Seq(Bytes) /\ <<b>> \in Seq(Bytes)
  <2>1. first \in Seq(Chars) /\ Len(first) = i
    BY Cut
  <2>2. rest \in Seq(Chars) /\ SubSeq(tosend, 1, i + 1) \o rest = tosend
    BY <1>a, Cut
  <2>3. SubSeq(tosend, 1, i + 1) = first \o <<b>>
    <3>1. \A m \in 1..Len(tosend) : SubSeq(tosend, 1, m) = SubSeq(tosend, 1, m - 1) \o <<tosend[m]>>
      BY <1>a, SubSeqRecursiveSecond
    <3>2. (i + 1) - 1 = i
      BY <1>a
    <3> QED BY <1>a, <3>1, <3>2
  <2>4. \A w \in Seq(Chars) : w \in Seq(Bytes)
    BY DEF Bytes
  <2>5. <<b>> \in Seq(Bytes)
    BY <1>b DEF Bytes
  <2>7. (first \o <<b>>) \o rest = first \o (<<b>> \o rest)
    BY <2>1, <2>2, <2>4, <2>5, Regroup, Zenon
  <2>8. first \in Seq(Bytes) /\ rest \in Seq(Bytes)
    BY <2>1, <2>2, <2>4
  <2> HIDE DEF first, rest, b
  <2> QED BY <2>1, <2>2, <2>3, <2>5, <2>7, <2>8
<1>2. netbuf = Pairs(tosend) /\ Pairs(tosend) \in Seq(Bytes)
  BY DueIs, PairsAre
<1>3. SubSeq(Pairs(tosend), 1, rc) = Append(Pairs(first), b) /\ t < Twice(tosend)
  OBVIOUS
<1>4. Twice(tosend) \in Nat /\ Len(Pairs(tosend)) = Len(tosend) + Twice(tosend)
  BY TwiceIs
<1>c. Len(Pair(b)) = 2 /\ i + 2 = (i + 1) + 1
  BY <1>a
<1> HIDE DEF first, rest, b
<1>5. t \in Nat /\ Len(Pairs(first)) = i + t /\ Pairs(first) \in Seq(Bytes)
  BY <1>1, TwiceIs, PairsAre
<1>d. b \in Bytes
  BY <1>b DEF Bytes
<1>6. rc = i + t + 1 /\ rc > 0 /\ rc \in Nat /\ netbuf[rc] = b
  <2>1. Len(SubSeq(Pairs(tosend), 1, rc)) = rc /\ \A j \in 1..rc : SubSeq(netbuf, 1, rc)[j] = netbuf[j]
    BY <1>2
  <2>2. Len(Append(Pairs(first), b)) = Len(Pairs(first)) + 1
        /\ Append(Pairs(first), b)[Len(Pairs(first)) + 1] = b
    BY <1>5, <1>d
  <2>3. rc = i + t + 1
    BY <1>3, <1>5, <2>1, <2>2
  <2>4. rc \in Nat /\ rc > 0
    BY <2>3, <1>5, <1>a
  <2>5. netbuf[rc] = b
    <3>1. SubSeq(netbuf, 1, rc)[rc] = netbuf[rc]
      BY <2>1, <2>4
    <3>2. Append(Pairs(first), b)[rc] = b
      BY <1>5, <2>2, <2>3
    <3> QED BY <1>2, <1>3, <3>1, <3>2
  <2> QED BY <2>3, <2>4, <2>5
<1>7. b = "IAC"
  <2>1. rc \in 1..Len(netbuf) - 1
    <3>1. Len(Pairs(tosend)) \in Nat
      BY <1>2, LenProperties
    <3> QED BY <1>2, <1>6, <3>1
  <2>2. ~(rc \in 1..Len(netbuf) - 1 /\ ~vmodem /\ netbuf[rc] = "CR")
    BY Zenon DEF OneTurn
  <2>3. b = "IAC" \/ (b = "CR" /\ ~vmodem)
    BY <1>b, <1>c, PairFacts
  <2> QED BY <1>6, <2>1, <2>2, <2>3
<1> HIDE DEF t
<1>8. Counted(rc) = Tally(2 * t + 1, TRUE)
  <2>1. NoCount = Tally(0, FALSE)
    BY DEF NoCount, Tally
  <2>2. Through(Counting, Tally(0, FALSE), Pairs(first)) = Tally(0 + 2 * Twice(first), FALSE)
    <3>1. 0 \in Nat /\ FALSE \in BOOLEAN
      OBVIOUS
    <3>2. \A w \in Seq(Chars) :
            Through(Counting, Tally(0, FALSE), Pairs(w)) = Tally(0 + 2 * Twice(w), FALSE)
      BY <3>1, CountsPairs, Zenon
    <3> QED BY <1>1, <3>2, Zenon
  <2>3. 0 + 2 * t = 2 * t /\ 2 * t \in Nat
    BY <1>5
  <2>4. Counted(rc) = Through(Counting, Tally(0, FALSE), Append(Pairs(first), b))
    BY <1>2, <1>3, <2>1, Zenon DEF Counted
  <2>5. Through(Counting, Tally(0, FALSE), Append(Pairs(first), b))
          = Counting[<<Through(Counting, Tally(0, FALSE), Pairs(first)), b>>]
    <3>1. \A w \in Seq(Bytes) : Through(Counting, Tally(0, FALSE), Append(w, b))
                                  = Counting[<<Through(Counting, Tally(0, FALSE), w), b>>]
      <4>1. \A h : \A w \in Seq(Bytes) :
              Through(Counting, h, Append(w, b)) = Counting[<<Through(Counting, h, w), b>>]
        BY <1>d, ThroughAppend
      <4> QED BY <4>1, Zenon
    <3> QED BY <1>5, <3>1, Zenon
  <2>6. Counting[<<Tally(2 * t, FALSE), b>>] = Tally(2 * t + 1, TRUE)
    <3>1. b # "CR"
      BY <1>7
    <3>2. FALSE \in BOOLEAN
      OBVIOUS
    <3>3. \A n \in Nat : Counting[<<Tally(n, FALSE), b>>]
                           = IF b = "IAC" THEN Tally(n + 1, ~FALSE) ELSE Tally(n, FALSE)
      BY <1>d, <3>1, <3>2, CountsOne, Zenon
    <3>4. Counting[<<Tally(2 * t, FALSE), b>>] = Tally(2 * t + 1, ~FALSE)
      BY <1>7, <2>3, <3>3, Zenon
    <3>5. (~FALSE) = TRUE
      OBVIOUS
    <3> QED BY <3>4, <3>5, Zenon
  <2>7. Through(Counting, Tally(0, FALSE), Pairs(first)) = Tally(2 * t, FALSE)
    BY <2>2, <2>3, Zenon DEF t
  <2> QED BY <2>4, <2>5, <2>6, <2>7, Zenon
<1>9. Doubled
  BY <1>3, <1>4, <1>5, <1>a DEF Doubled
<1>10. k = i + 1
  <2>1. k = Reported(rc, Tally(2 * t + 1, TRUE))
    BY <1>6, <1>8, <1>9, Zenon DEF OneTurn
  <2>2. Reported(rc, Tally(2 * t + 1, TRUE)) = rc - t
    BY <1>5, <1>6, Reports
  <2>3. (i + t + 1) - t = i + 1
    BY <1>a, <1>5
  <2> QED BY <1>6, <2>1, <2>2, <2>3
<1>11. NUL_pending' = FALSE /\ IAC_pending' = TRUE
  <2>1. /\ IAC_pending' = (rc > 0 /\ Doubled /\ Tally(2 * t + 1, TRUE).IAC # IAC_pending)
        /\ NUL_pending' = (rc > 0 /\ Doubled /\ Tally(2 * t + 1, TRUE).NUL)
    BY <1>8, Zenon DEF OneTurn
  <2>2. Tally(2 * t + 1, TRUE).IAC = TRUE /\ Tally(2 * t + 1, TRUE).NUL = FALSE
    BY DEF Tally
  <2> QED BY <1>6, <1>9, <2>1, <2>2, Zenon
<1>12. tosend' = rest
  BY <1>10 DEF OneTurn, rest
<1>13. peer' = At(Opened, q \o first)
  <2>1. Heard(At(Fresh, q), Pairs(first)) = At(Fresh, q \o first)
    BY <1>1, HearsPairs
  <2>2. peer' = Heard(peer, SubSeq(netbuf, 1, rc))
    BY Zenon DEF OneTurn
  <2>3. Heard(At(Fresh, q), Append(Pairs(first), b))
          = Reader[<<Heard(At(Fresh, q), Pairs(first)), b>>]
    <3>1. \A w \in Seq(Bytes) : Heard(At(Fresh, q), Append(w, b))
                                  = Reader[<<Heard(At(Fresh, q), w), b>>]
      BY <1>d, ThroughAppend DEF Heard
    <3> QED BY <1>5, <3>1, Zenon
  <2>4. Reader[<<At(Fresh, q \o first), b>>] = At(Opened, q \o first)
    <3>1. q \o first \in Seq(Bytes) /\ (q \o first) \o <<>> = q \o first
      <4>1. q \o first \in Seq(Bytes)
        BY <1>1, ConcatProperties
      <4> QED BY <4>1, ConcatEmptySeq
    <3>2. After(Fresh, b) = Opened /\ Gives(Fresh, b) = <<>>
      BY <1>7 DEF After, Gives, Fresh, Opened
    <3>3. Fresh \in States
      BY StateFacts
    <3>4. Reader[<<At(Fresh, q \o first), b>>]
            = At(After(Fresh, b), (q \o first) \o Gives(Fresh, b))
      BY <1>d, <3>1, <3>3, HearsOne
    <3> QED BY <3>1, <3>2, <3>4, Zenon
  <2> QED BY <1>2, <1>3, <2>1, <2>2, <2>3, <2>4, Zenon
<1>14. said' = (q \o first) \o (<<b>> \o rest) /\ q \o first \in Seq(Bytes)
  <2>1. said' = q \o tosend
    BY Zenon DEF OneTurn
  <2>2. (q \o first) \o (<<b>> \o rest) = q \o (first \o (<<b>> \o rest))
    <3>1. <<b>> \o rest \in Seq(Bytes)
      BY <1>1, ConcatProperties
    <3> QED BY <1>1, <3>1, Regroup, Zenon
  <2>3. q \o first \in Seq(Bytes)
    BY <1>1, ConcatProperties
  <2> QED BY <1>1, <2>1, <2>2, <2>3
<1> QED BY <1>1, <1>7, <1>11, <1>12, <1>13, <1>14

\* A turn that has half of a pair to send first, and sends everything.
LEMMA TurnsRest ==
    ASSUME tosend \in Seq(Chars), tosend # <<>>, NUL_pending = FALSE, IAC_pending = TRUE,
           NEW rc \in 0..Len(netbuf), NEW k, OneTurn(rc, k), ~miscounted',
           NEW q \in Seq(Bytes), peer = At(Opened, q), said = q \o (<<"IAC">> \o tosend)
    PROVE  /\ NUL_pending' = FALSE /\ IAC_pending' = FALSE /\ tosend' \in Seq(Chars)
           /\ \E x \in Seq(Bytes) : peer' = At(Fresh, x) /\ said' = x \o tosend'
<1> DEFINE t == Twice(tosend)
           all == Pairs(tosend)
           one == <<"IAC">>
<1>1. /\ all \in Seq(Bytes) /\ one \in Seq(Bytes) /\ tosend \in Seq(Bytes) /\ Len(one) = 1
      /\ "IAC" \in Bytes
  <2>1. \A w \in Seq(Chars) : w \in Seq(Bytes)
    BY DEF Bytes
  <2>2. "IAC" \in Bytes
    BY DEF Bytes, Chars
  <2> QED BY <2>1, <2>2, PairsAre
<1>2. Due = one /\ netbuf = one \o all
  BY DueIs
<1>3. t \in Nat /\ Len(all) = Len(tosend) + t /\ Len(tosend) \in Nat
  BY TwiceIs, LenProperties
<1>4. rc = Len(netbuf)
  BY <1>2, Zenon DEF OneTurn
<1>e. one # <<>>
  OBVIOUS
<1>5. /\ Len(netbuf) = 1 + Len(all) /\ netbuf \in Seq(Bytes)
      /\ SubSeq(netbuf, 1, rc) = one \o all
  <2>1. one \o all \in Seq(Bytes) /\ Len(one \o all) = 1 + Len(all)
    BY <1>1, ConcatProperties
  <2>2. SubSeq(one \o all, 1, Len(one \o all)) = one \o all
    BY <2>1, SubSeqFull
  <2> QED BY <1>2, <1>4, <2>1, <2>2
<1>6. rc = 1 + (Len(tosend) + t) /\ rc > 0 /\ rc \in Nat
  BY <1>3, <1>4, <1>5
<1> HIDE DEF t, all
<1>7. Counted(rc) = Tally(1 + 2 * t, TRUE)
  <2>1. NoCount = Tally(0, FALSE)
    BY DEF NoCount, Tally
  <2>2. Counted(rc) = Through(Counting, Tally(0, FALSE), one \o all)
    BY <1>5, <2>1, Zenon DEF Counted
  <2>3. Through(Counting, Tally(0, FALSE), one \o all)
          = Through(Counting, Through(Counting, Tally(0, FALSE), one), all)
    <3>1. \A h : \A v, w \in Seq(Bytes) :
            Through(Counting, h, v \o w) = Through(Counting, Through(Counting, h, v), w)
      BY ThroughBoth
    <3> QED BY <1>1, <3>1, Zenon
  <2>4. Through(Counting, Tally(0, FALSE), one) = Counting[<<Tally(0, FALSE), "IAC">>]
    BY ThroughOne, Zenon
  <2>5. Counting[<<Tally(0, FALSE), "IAC">>] = Tally(1, TRUE)
    <3>1. FALSE \in BOOLEAN /\ 0 \in Nat /\ 0 + 1 = 1 /\ "IAC" # "CR" /\ (~FALSE) = TRUE
      OBVIOUS
    <3>2. \A b \in Bytes : ~(b = "CR" /\ ~vmodem) =>
            Counting[<<Tally(0, FALSE), b>>]
              = IF b = "IAC" THEN Tally(0 + 1, ~FALSE) ELSE Tally(0, FALSE)
      BY <3>1, CountsOne, Zenon
    <3>3. Counting[<<Tally(0, FALSE), "IAC">>] = Tally(0 + 1, ~FALSE)
      BY <1>1, <3>1, <3>2, Zenon
    <3> QED BY <3>1, <3>3, Zenon
  <2>6. Through(Counting, Tally(1, TRUE), all) = Tally(1 + 2 * t, TRUE)
    <3>1. 1 \in Nat /\ TRUE \in BOOLEAN
      OBVIOUS
    <3>2. \A w \in Seq(Chars) :
            Through(Counting, Tally(1, TRUE), Pairs(w)) = Tally(1 + 2 * Twice(w), TRUE)
      BY <3>1, CountsPairs, Zenon
    <3> QED BY <3>2, Zenon DEF t, all
  <2> QED BY <2>2, <2>3, <2>4, <2>5, <2>6, Zenon
<1>8. k = Len(tosend) + 1
  <2>1. CASE Doubled
    <3>1. k = Reported(rc, Tally(1 + 2 * t, TRUE))
      BY <1>6, <1>7, <2>1, Zenon DEF OneTurn
    <3>2. Reported(rc, Tally(1 + 2 * t, TRUE)) = rc - t
      BY <1>3, <1>6, Reports
    <3>3. (1 + (Len(tosend) + t)) - t = Len(tosend) + 1
      BY <1>3
    <3> QED BY <1>6, <3>1, <3>2, <3>3
  <2>2. CASE ~Doubled
    <3>1. k = rc
      BY <2>2, Zenon DEF OneTurn
    <3>2. t = 0
      BY <2>2, <1>3 DEF Doubled, all
    <3> QED BY <1>3, <1>6, <3>1, <3>2
  <2> QED BY <2>1, <2>2
<1>9. NUL_pending' = FALSE /\ IAC_pending' = FALSE
  <2>1. /\ IAC_pending' = (rc > 0 /\ Doubled /\ Tally(1 + 2 * t, TRUE).IAC # IAC_pending)
        /\ NUL_pending' = (rc > 0 /\ Doubled /\ Tally(1 + 2 * t, TRUE).NUL)
    BY <1>7, Zenon DEF OneTurn
  <2>2. Tally(1 + 2 * t, TRUE).IAC = TRUE /\ Tally(1 + 2 * t, TRUE).NUL = FALSE
    BY DEF Tally
  <2> QED BY <2>1, <2>2, Zenon
<1>10. tosend' = <<>> /\ tosend' \in Seq(Chars)
  <2>1. tosend' = SubSeq(tosend, (Len(tosend) + 1) + 1, Len(tosend))
    BY <1>8 DEF OneTurn
  <2>2. SubSeq(tosend, (Len(tosend) + 1) + 1, Len(tosend)) = <<>>
    BY <1>3
  <2> QED BY <2>1, <2>2, EmptySeq
<1> DEFINE x == q \o one
<1>11. x \in Seq(Bytes) /\ x \o tosend \in Seq(Bytes)
  BY <1>1, ConcatProperties
<1>12. peer' = At(Fresh, x \o tosend)
  <2>1. peer' = Heard(At(Opened, q), one \o all)
    BY <1>5, Zenon DEF OneTurn
  <2>2. Heard(At(Opened, q), one \o all) = Heard(Heard(At(Opened, q), one), all)
    <3>1. \A h : \A v, w \in Seq(Bytes) :
            Through(Reader, h, v \o w) = Through(Reader, Through(Reader, h, v), w)
      BY ThroughBoth
    <3> QED BY <1>1, <3>1, Zenon DEF Heard
  <2>3. Heard(At(Opened, q), one) = Reader[<<At(Opened, q), "IAC">>]
    BY ThroughOne, Zenon DEF Heard
  <2>4. Reader[<<At(Opened, q), "IAC">>] = At(Fresh, x)
    <3>1. Opened \in States
      BY DEF Opened, Fresh, States
    <3>2. After(Opened, "IAC") = Fresh /\ Gives(Opened, "IAC") = one
      BY DEF After, Gives, Fresh, Opened
    <3>3. Reader[<<At(Opened, q), "IAC">>] = At(After(Opened, "IAC"), q \o Gives(Opened, "IAC"))
      BY <1>1, <3>1, HearsOne
    <3> QED BY <3>2, <3>3, Zenon
  <2>5. Heard(At(Fresh, x), all) = At(Fresh, x \o tosend)
    BY <1>11, HearsPairs DEF all
  <2> QED BY <2>1, <2>2, <2>3, <2>4, <2>5, Zenon
<1>13. said' = (x \o tosend) \o tosend'
  <2>1. said' = q \o (one \o tosend)
    BY Zenon DEF OneTurn
  <2>2. q \o (one \o tosend) = x \o tosend
    BY <1>1, Regroup, Zenon
  <2>3. (x \o tosend) \o <<>> = x \o tosend
    BY <1>11, ConcatEmptySeq
  <2> QED BY <1>10, <2>1, <2>2, <2>3
<1> QED BY <1>9, <1>10, <1>11, <1>12, <1>13

-----------------------------------------------------------------------------
\* What has come to us, is ours, or was meant.
Arrivals ==
    /\ wire_in \in Seq(Bytes) /\ t_state \in States
    /\ has_read \in Seq(Bytes) /\ asked \in Seq(Bytes)

LEMMA SendsBytes ==
    ASSUME NEW a \in Asks
    PROVE  /\ a \in Seq(Chars) \/ a \in Requests
           /\ Encoded(a) \in Seq(Bytes) /\ DataOf(a) \in Seq(Bytes)
<1>1. a \in Seq(Chars) \/ a \in Requests
  BY TelnetAssumption
<1>2. CASE a \in Requests
  <2>1. a \in Seq(Bytes) /\ <<"IAC">> \in Seq(Bytes) /\ <<>> \in Seq(Bytes)
    <3>1. {"GA", "DO", "WILL", "opt", "IAC"} \subseteq Bytes
      BY DEF Bytes, Chars
    <3>2. /\ <<"GA">> \in Seq(Bytes) /\ <<"DO", "opt">> \in Seq(Bytes)
          /\ <<"WILL", "opt">> \in Seq(Bytes) /\ <<"IAC">> \in Seq(Bytes)
      BY <3>1
    <3> QED BY <1>2, <3>2, EmptySeq DEF Requests
  <2>2. Encoded(a) = <<"IAC">> \o a /\ DataOf(a) = <<>>
    BY <1>2 DEF Encoded, DataOf
  <2> QED BY <1>1, <2>1, <2>2, ConcatProperties
<1>3. CASE a \notin Requests
  <2>1. Encoded(a) = Pairs(a) /\ DataOf(a) = a /\ a \in Seq(Chars)
    BY <1>1, <1>3 DEF Encoded, DataOf
  <2>2. \A w \in Seq(Chars) : w \in Seq(Bytes)
    BY DEF Bytes
  <2> QED BY <1>1, <2>1, <2>2, PairsAre
<1> QED BY <1>2, <1>3

LEMMA ArrivalsStep ==
    ASSUME Arrivals, TnNext
    PROVE  Arrivals'
<1>1. CASE Swrite
  BY <1>1 DEF Swrite, Arrivals
<1>2. CASE writetcp
  BY <1>2 DEF writetcp, Arrivals
<1>3. CASE readtcp
  <2>1. PICK b \in {Head(wire_in)} : t_state' = After(t_state, b)
                                     /\ has_read' = has_read \o Gives(t_state, b)
    BY <1>3, Zenon DEF readtcp
  <2>2. wire_in # <<>> /\ wire_in' = Tail(wire_in) /\ asked' = asked
    BY <1>3 DEF readtcp
  <2>3. b \in Bytes /\ wire_in' \in Seq(Bytes)
    BY <2>2, HeadTailProperties DEF Arrivals
  <2>4. t_state' \in States /\ Gives(t_state, b) \in Seq(Bytes)
    BY <2>1, <2>3, StateFacts DEF Arrivals
  <2>5. has_read' \in Seq(Bytes)
    BY <2>1, <2>4, ConcatProperties DEF Arrivals
  <2> QED BY <2>2, <2>3, <2>4, <2>5 DEF Arrivals
<1>4. CASE HostWrites
  <2>1. PICK a \in Asks : asked' = asked \o DataOf(a) /\ wire_in' = wire_in \o Encoded(a)
    BY <1>4, Zenon DEF HostWrites
  <2>2. t_state' = t_state /\ has_read' = has_read
    BY <1>4 DEF HostWrites
  <2>3. Encoded(a) \in Seq(Bytes) /\ DataOf(a) \in Seq(Bytes)
    BY SendsBytes
  <2>4. asked' \in Seq(Bytes) /\ wire_in' \in Seq(Bytes)
    BY <2>1, <2>3, ConcatProperties DEF Arrivals
  <2> QED BY <2>2, <2>4 DEF Arrivals
<1> QED BY <1>1, <1>2, <1>3, <1>4 DEF TnNext

\* An option refused between two characters is not heard as data.
LEMMA HearsRefusal ==
    ASSUME NEW q \in Seq(Bytes), NEW b \in Bytes
    PROVE  Heard(At(Fresh, q), <<"IAC", "WONT", b>>) = At(Fresh, q)
<1> DEFINE wont == [state |-> "T_COMMAND", command |-> "WONT"]
<1>1. /\ <<"IAC", "WONT">> \in Seq(Bytes) /\ <<b>> \in Seq(Bytes) /\ q \o <<>> = q
      /\ "IAC" \in Bytes /\ "WONT" \in Bytes
  BY DEF Bytes, Chars
<1>2. <<"IAC", "WONT", b>> = Append(<<"IAC", "WONT">>, b)
  OBVIOUS
<1>3. Heard(At(Fresh, q), Append(<<"IAC", "WONT">>, b))
        = Reader[<<Heard(At(Fresh, q), <<"IAC", "WONT">>), b>>]
  <2>1. \A h : \A w \in Seq(Bytes) : Heard(h, Append(w, b)) = Reader[<<Heard(h, w), b>>]
    BY ThroughAppend DEF Heard
  <2> QED BY <1>1, <2>1, Zenon
<1>4. Heard(At(Fresh, q), <<"IAC", "WONT">>) = Heard(Heard(At(Fresh, q), <<"IAC">>), <<"WONT">>)
  <2>1. \A h, x, y : Heard(h, <<x, y>>) = Heard(Heard(h, <<x>>), <<y>>)
    BY ThroughTwo DEF Heard
  <2> HIDE DEF wont
  <2> QED BY <2>1
<1>5. \A h, x : Heard(h, <<x>>) = Reader[<<h, x>>]
  BY ThroughOne DEF Heard
<1>6. Fresh \in States /\ Opened \in States /\ wont \in States
  BY <1>1 DEF Fresh, Opened, States
<1>7. Reader[<<At(Fresh, q), "IAC">>] = At(Opened, q)
  <2>1. After(Fresh, "IAC") = Opened /\ Gives(Fresh, "IAC") = <<>>
    BY DEF After, Gives, Fresh, Opened
  <2>2. Reader[<<At(Fresh, q), "IAC">>] = At(After(Fresh, "IAC"), q \o Gives(Fresh, "IAC"))
    BY <1>1, <1>6, HearsOne
  <2> QED BY <1>1, <2>1, <2>2, Zenon
<1>8. Reader[<<At(Opened, q), "WONT">>] = At(wont, q)
  <2>1. After(Opened, "WONT") = wont /\ Gives(Opened, "WONT") = <<>>
    BY DEF After, Gives, Fresh, Opened
  <2>2. Reader[<<At(Opened, q), "WONT">>] = At(After(Opened, "WONT"), q \o Gives(Opened, "WONT"))
    BY <1>1, <1>6, HearsOne
  <2> QED BY <1>1, <2>1, <2>2, Zenon
<1>9. Reader[<<At(wont, q), b>>] = At(Fresh, q)
  <2>1. After(wont, b) = Fresh /\ Gives(wont, b) = <<>>
    BY DEF After, Gives, Fresh, OneByte
  <2>2. Reader[<<At(wont, q), b>>] = At(After(wont, b), q \o Gives(wont, b))
    BY <1>6, HearsOne
  <2> QED BY <1>1, <2>1, <2>2, Zenon
<1> HIDE DEF wont
<1>10. Heard(At(Fresh, q), <<"IAC">>) = At(Opened, q)
  BY <1>5, <1>7, Zenon
<1>11. Heard(At(Opened, q), <<"WONT">>) = At(wont, q)
  BY <1>5, <1>8, Zenon
<1>12. Heard(At(Fresh, q), <<"IAC", "WONT">>) = At(wont, q)
  BY <1>4, <1>10, <1>11, Zenon
<1> QED BY <1>2, <1>3, <1>9, <1>12, Zenon

LEMMA OutInvStep ==
    ASSUME OutInv, Arrivals, TnNext
    PROVE  OutInv'
<1> SUFFICES ASSUME ~miscounted'
             PROVE  /\ tosend' \in Seq(Chars) /\ NUL_pending' = FALSE
                    /\ \E x \in Seq(Bytes) : Hears(x)'
  BY DEF OutInv
<1>h. ASSUME NEW x
      PROVE  Hears(x)' <=>
               \/ IAC_pending' = FALSE /\ peer' = At(Fresh, x) /\ said' = x \o tosend'
               \/ IAC_pending' = TRUE /\ peer' = At(Opened, x) /\ said' = x \o (<<"IAC">> \o tosend')
  BY DEF Hears, At, Fresh, Opened
<1>1. CASE Swrite
  <2>1. PICK d \in Data : tosend' = d /\ said' = said \o d
    BY <1>1 DEF Swrite
  <2>2. /\ tosend = <<>> /\ NUL_pending' = NUL_pending /\ IAC_pending' = IAC_pending
        /\ peer' = peer /\ miscounted' = miscounted
    BY <1>1 DEF Swrite
  <2>3. d \in Seq(Chars) /\ d \in Seq(Bytes) /\ <<"IAC">> \in Seq(Bytes)
    BY TelnetAssumption DEF Bytes, Chars
  <2>4. PICK q \in Seq(Bytes) : Hears(q)
    BY <2>2 DEF OutInv
  <2>5. q \o <<>> = q /\ <<"IAC">> \o <<>> = <<"IAC">>
    BY <2>3, ConcatEmptySeq
  <2>6. (q \o <<"IAC">>) \o d = q \o (<<"IAC">> \o d)
    BY <2>3, Regroup
  <2>7. Hears(q)'
    <3>1. CASE IAC_pending = FALSE /\ peer = At(Fresh, q) /\ said = q \o tosend
      BY <1>h, <2>1, <2>2, <2>5, <3>1, Zenon
    <3>2. CASE IAC_pending = TRUE /\ peer = At(Opened, q) /\ said = q \o (<<"IAC">> \o tosend)
      BY <1>h, <2>1, <2>2, <2>5, <2>6, <3>2, Zenon
    <3> QED BY <2>4, <3>1, <3>2 DEF Hears
  <2> QED BY <2>1, <2>2, <2>3, <2>7 DEF OutInv
<1>2. CASE writetcp
  <2>0. ~miscounted
    BY <1>2 DEF writetcp
  <2>1. tosend \in Seq(Chars) /\ NUL_pending = FALSE /\ tosend # <<>>
    BY <1>2, <2>0 DEF OutInv, writetcp
  <2>2. PICK q \in Seq(Bytes) : Hears(q)
    BY <2>0 DEF OutInv
  <2>3. Len(netbuf) \in Nat
    <3>1. Pairs(tosend) \in Seq(Bytes) /\ <<"IAC">> \in Seq(Bytes)
      BY <2>1, PairsAre DEF Bytes, Chars
    <3>2. <<"IAC">> \o Pairs(tosend) \in Seq(Bytes)
      BY <3>1, ConcatProperties
    <3>3. netbuf \in Seq(Bytes)
      BY <2>1, <2>2, <3>1, <3>2, DueIs DEF Hears
    <3> QED BY <3>3, LenProperties
  <2>a. PICK rc \in 0..Len(netbuf) : \E k : OneTurn(rc, k)
    BY <1>2, <2>3, WriteTurns
  <2>4. PICK k : OneTurn(rc, k)
    BY <2>a
  <2>5. CASE IAC_pending = FALSE /\ peer = At(Fresh, q) /\ said = q \o tosend
    <3>1. netbuf = Pairs(tosend)
      BY <2>1, <2>5, DueIs
    <3>2. PICK i \in 0..Len(tosend) : Portion(tosend, rc, i)
      BY <2>1, <3>1, Portions
    <3>3. CASE /\ SubSeq(Pairs(tosend), 1, rc) = Pairs(SubSeq(tosend, 1, i))
               /\ Twice(SubSeq(tosend, 1, i)) <= Twice(tosend)
      <4>1. /\ NUL_pending' = FALSE /\ IAC_pending' = FALSE /\ tosend' \in Seq(Chars)
            /\ \E x \in Seq(Bytes) : peer' = At(Fresh, x) /\ said' = x \o tosend'
        BY <2>1, <2>4, <2>5, <3>3, TurnsWhole
      <4> QED BY <1>h, <4>1, Zenon
    <3>4. CASE /\ i < Len(tosend) /\ rc < Len(Pairs(tosend)) /\ Len(Pair(tosend[i + 1])) = 2
               /\ SubSeq(Pairs(tosend), 1, rc) = Append(Pairs(SubSeq(tosend, 1, i)), tosend[i + 1])
               /\ Twice(SubSeq(tosend, 1, i)) < Twice(tosend)
      <4>1. /\ NUL_pending' = FALSE /\ IAC_pending' = TRUE /\ tosend' \in Seq(Chars)
            /\ \E x \in Seq(Bytes) : peer' = At(Opened, x) /\ said' = x \o (<<"IAC">> \o tosend')
        BY <2>1, <2>4, <2>5, <3>4, TurnsHalf
      <4> QED BY <1>h, <4>1, Zenon
    <3> QED BY <3>2, <3>3, <3>4 DEF Portion
  <2>6. CASE IAC_pending = TRUE /\ peer = At(Opened, q) /\ said = q \o (<<"IAC">> \o tosend)
    <3>1. /\ NUL_pending' = FALSE /\ IAC_pending' = FALSE /\ tosend' \in Seq(Chars)
          /\ \E x \in Seq(Bytes) : peer' = At(Fresh, x) /\ said' = x \o tosend'
      BY <2>1, <2>4, <2>6, TurnsRest
    <3> QED BY <1>h, <3>1, Zenon
  <2> QED BY <2>2, <2>5, <2>6 DEF Hears
<1>3. CASE readtcp
  <2>1. PICK b \in {Head(wire_in)} :
          LET command == t_state.state = "T_COMMAND"
              refuse  == command /\ t_state.command = "DO"
          IN  /\ peer' = IF refuse THEN Heard(peer, <<"IAC", "WONT", b>>) ELSE peer
              /\ miscounted' = (miscounted \/ (refuse /\ Due # <<>>))
    BY <1>3, Zenon DEF readtcp
  <2> DEFINE refuse == t_state.state = "T_COMMAND" /\ t_state.command = "DO"
  <2>2. /\ peer' = IF refuse THEN Heard(peer, <<"IAC", "WONT", b>>) ELSE peer
        /\ ~miscounted /\ (refuse => Due = <<>>)
    BY <2>1, Zenon
  <2> HIDE DEF refuse
  <2>3. /\ wire_in # <<>> /\ tosend' = tosend /\ said' = said /\ IAC_pending' = IAC_pending
        /\ NUL_pending' = NUL_pending
    BY <1>3 DEF readtcp
  <2>4. b \in Bytes
    BY <2>3, HeadTailProperties DEF Arrivals
  <2>5. PICK q \in Seq(Bytes) : Hears(q)
    BY <2>2 DEF OutInv
  <2>6. Hears(q)'
    <3>1. CASE IAC_pending = FALSE /\ peer = At(Fresh, q) /\ said = q \o tosend
      <4>1. peer' = peer
        BY <2>2, <2>4, <3>1, HearsRefusal
      <4> QED BY <1>h, <2>3, <3>1, <4>1, Zenon
    <3>2. CASE IAC_pending = TRUE /\ peer = At(Opened, q) /\ said = q \o (<<"IAC">> \o tosend)
      <4>1. NUL_pending = FALSE
        BY <2>2 DEF OutInv
      <4>2. Due = <<"IAC">>
        BY <3>2, <4>1 DEF Due
      <4>3. ~refuse
        BY <2>2, <4>2
      <4>4. peer' = peer
        BY <2>2, <4>3
      <4> QED BY <1>h, <2>3, <3>2, <4>4, Zenon
    <3> QED BY <2>5, <3>1, <3>2 DEF Hears
  <2> QED BY <2>2, <2>3, <2>6 DEF OutInv
<1>4. CASE HostWrites
  <2>1. /\ tosend' = tosend /\ said' = said /\ IAC_pending' = IAC_pending
        /\ NUL_pending' = NUL_pending /\ peer' = peer /\ miscounted' = miscounted
    BY <1>4 DEF HostWrites
  <2>2. PICK q \in Seq(Bytes) : Hears(q)
    BY <2>1 DEF OutInv
  <2>3. Hears(q)'
    BY <1>h, <2>1, <2>2, Zenon DEF Hears
  <2> QED BY <2>1, <2>3 DEF OutInv
<1> QED BY <1>1, <1>2, <1>3, <1>4 DEF TnNext

LEMMA Extends ==
    ASSUME NEW q \in Seq(Bytes), NEW x \in Seq(Bytes)
    PROVE  IsPrefix(q, q \o x)
<1> DEFINE y == q \o x
<1>1. y \in Seq(Bytes) /\ Len(y) = Len(q) + Len(x) /\ Len(q) \in Nat /\ Len(x) \in Nat
  BY ConcatProperties, LenProperties
<1>2. \A i \in 1..Len(q) : y[i] = q[i]
  BY ConcatProperties
<1> HIDE DEF y
<1>3. Len(q) <= Len(y)
  BY <1>1
<1>4. SubSeq(q, 1, Len(q)) = q
  BY SubSeqFull
<1>5. SubSeq(y, 1, Len(q)) = q
  <2>1. SubSeq(y, 1, Len(q)) \in Seq(Bytes) /\ Len(SubSeq(y, 1, Len(q))) = Len(q)
        /\ \A i \in 1..Len(q) : SubSeq(y, 1, Len(q))[i] = y[i]
    BY <1>1, <1>3
  <2> QED BY <1>2, <2>1, SeqEqual
<1> QED BY <1>3, <1>4, <1>5 DEF IsPrefix, y

LEMMA OutIsClear ==
    ASSUME OutInv
    PROVE  TelnetOut
<1> SUFFICES ASSUME ~miscounted
             PROVE  /\ IsPrefix(peer.heard, said)
                    /\ tosend = <<>> /\ Due = <<>> => peer.heard = said
  BY DEF TelnetOut
<1>1. PICK q \in Seq(Bytes) : Hears(q)
  BY DEF OutInv
<1>2. tosend \in Seq(Bytes) /\ <<"IAC">> \in Seq(Bytes) /\ <<"IAC">> \o tosend \in Seq(Bytes)
  <2>1. tosend \in Seq(Bytes) /\ <<"IAC">> \in Seq(Bytes)
    BY DEF OutInv, Bytes, Chars
  <2> QED BY <2>1, ConcatProperties
<1>3. peer.heard = q
  BY <1>1 DEF Hears, At
<1>4. IsPrefix(q, q \o tosend) /\ IsPrefix(q, q \o (<<"IAC">> \o tosend))
  BY <1>2, Extends
<1>5. IsPrefix(peer.heard, said)
  BY <1>1, <1>3, <1>4, Zenon DEF Hears
<1>6. ASSUME tosend = <<>>, Due = <<>> PROVE q = said
  <2>1. NUL_pending = FALSE
    BY DEF OutInv
  <2>2. IAC_pending # TRUE
    <3> SUFFICES ASSUME IAC_pending = TRUE PROVE FALSE
      OBVIOUS
    <3>1. Due = <<"IAC">> \o <<>>
      BY <2>1 DEF Due
    <3>2. <<"IAC">> \o <<>> = <<"IAC">> /\ <<"IAC">> # <<>>
      OBVIOUS
    <3> QED BY <1>6, <3>1, <3>2
  <2>3. said = q \o <<>>
    BY <1>1, <1>6, <2>2, Zenon DEF Hears
  <2> QED BY <2>3, ConcatEmptySeq
<1> QED BY <1>3, <1>5, <1>6

-----------------------------------------------------------------------------
(***************************************************************************)
(* What we have read, as long as no one byte command came before a pair:   *)
(* a reader that is done with a one byte command at once would make, of    *)
(* what is still on its way to us, just what the host was given to say.    *)
(***************************************************************************)
Kind(s) == IF s.state = "T_COMMAND" /\ OneByte(s.command) THEN Fresh ELSE s

Meant == [r \in Hearers \X Bytes |->
            [s |-> Kind(After(r[1].s, r[2])), heard |-> r[1].heard \o Gives(r[1].s, r[2])]]

InInv ==
    ~rawdata => Through(Meant, At(Kind(t_state), has_read), wire_in) = At(Fresh, asked)

LEMMA MeantOne ==
    ASSUME NEW s \in States, NEW q \in Seq(Bytes), NEW b \in Bytes
    PROVE  /\ Meant[<<At(s, q), b>>] = At(Kind(After(s, b)), q \o Gives(s, b))
           /\ Kind(s) \in States
<1>1. At(s, q) \in Hearers /\ At(s, q).s = s /\ At(s, q).heard = q
  BY DEF Hearers, At
<1>2. \A r \in Hearers : Meant[<<r, b>>] = [s |-> Kind(After(r.s, b)), heard |-> r.heard \o Gives(r.s, b)]
  BY DEF Meant, Hearers
<1>3. Meant[<<At(s, q), b>>]
        = [s |-> Kind(After(At(s, q).s, b)), heard |-> At(s, q).heard \o Gives(At(s, q).s, b)]
  BY <1>1, <1>2, Zenon
<1>4. Kind(s) \in States
  BY StateFacts DEF Kind
<1> QED BY <1>1, <1>3, <1>4 DEF At

LEMMA MeantReads ==
    Reads(Meant)
<1> SUFFICES ASSUME NEW s \in States, NEW q \in Seq(Bytes), NEW b \in Bytes,
                    After(s, b).state # "T_COMMAND"
             PROVE  Meant[<<At(s, q), b>>] = At(After(s, b), q \o Gives(s, b))
  BY DEF Reads
<1>1. Kind(After(s, b)) = After(s, b)
  BY DEF Kind
<1> QED BY <1>1, MeantOne

\* It makes nothing of a command.
LEMMA MeantRequest ==
    ASSUME NEW q \in Seq(Bytes), NEW a \in Requests
    PROVE  Through(Meant, At(Fresh, q), <<"IAC">> \o a) = At(Fresh, q)
<1> DEFINE do(c) == [state |-> "T_COMMAND", command |-> c]
<1>1. /\ {"GA", "DO", "WILL", "opt", "IAC"} \subseteq Bytes
      /\ q \o <<>> = q
  BY ConcatEmptySeq DEF Bytes, Chars
<1>2. Fresh \in States /\ Opened \in States /\ \A c \in {"DO", "WILL"} : do(c) \in States
  BY <1>1 DEF Fresh, Opened, States
<1>3. \A h, x : Through(Meant, h, <<x>>) = Meant[<<h, x>>]
  BY ThroughOne
<1>4. \A h : \A v, w \in Seq(Bytes) :
        Through(Meant, h, v \o w) = Through(Meant, Through(Meant, h, v), w)
  BY ThroughBoth
<1>5. Meant[<<At(Fresh, q), "IAC">>] = At(Opened, q)
  <2>1. Kind(After(Fresh, "IAC")) = Opened /\ Gives(Fresh, "IAC") = <<>>
    BY DEF After, Gives, Fresh, Opened, Kind
  <2>2. Meant[<<At(Fresh, q), "IAC">>] = At(Kind(After(Fresh, "IAC")), q \o Gives(Fresh, "IAC"))
    BY <1>1, <1>2, MeantOne
  <2> QED BY <1>1, <2>1, <2>2, Zenon
<1>6. a \in Seq(Bytes) /\ <<"IAC">> \in Seq(Bytes) /\ "IAC" \in Bytes
  <2>1. /\ <<"GA">> \in Seq(Bytes) /\ <<"DO", "opt">> \in Seq(Bytes)
        /\ <<"WILL", "opt">> \in Seq(Bytes) /\ <<"IAC">> \in Seq(Bytes)
    BY <1>1
  <2> QED BY <1>1, <2>1 DEF Requests
<1>7. Through(Meant, At(Fresh, q), <<"IAC">> \o a) = Through(Meant, At(Opened, q), a)
  <2>1. Through(Meant, At(Fresh, q), <<"IAC">>) = At(Opened, q)
    BY <1>3, <1>5, Zenon
  <2>2. Through(Meant, At(Fresh, q), <<"IAC">> \o a)
          = Through(Meant, Through(Meant, At(Fresh, q), <<"IAC">>), a)
    BY <1>4, <1>6
  <2> QED BY <2>1, <2>2
<1>8. CASE a = <<"GA">>
  <2>1. Kind(After(Opened, "GA")) = Fresh /\ Gives(Opened, "GA") = <<>>
    BY DEF After, Gives, Fresh, Opened, Kind, OneByte
  <2>2. Meant[<<At(Opened, q), "GA">>] = At(Kind(After(Opened, "GA")), q \o Gives(Opened, "GA"))
    BY <1>1, <1>2, MeantOne
  <2>3. Meant[<<At(Opened, q), "GA">>] = At(Fresh, q)
    BY <1>1, <2>1, <2>2, Zenon
  <2> QED BY <1>3, <1>7, <1>8, <2>3, Zenon
<1>9. ASSUME NEW c \in {"DO", "WILL"} PROVE Through(Meant, At(Opened, q), <<c, "opt">>) = At(Fresh, q)
  <2>1. Kind(After(Opened, c)) = do(c) /\ Gives(Opened, c) = <<>>
    BY DEF After, Gives, Fresh, Opened, Kind, OneByte
  <2>2. Kind(After(do(c), "opt")) = Fresh /\ Gives(do(c), "opt") = <<>>
    BY DEF After, Gives, Fresh, Opened, Kind, OneByte
  <2>3. c \in Bytes /\ do(c) \in States /\ "opt" \in Bytes
    BY <1>1, <1>2
  <2> HIDE DEF do
  <2>4. Meant[<<At(Opened, q), c>>] = At(Kind(After(Opened, c)), q \o Gives(Opened, c))
    BY <1>2, <2>3, MeantOne
  <2>5. Meant[<<At(do(c), q), "opt">>] = At(Kind(After(do(c), "opt")), q \o Gives(do(c), "opt"))
    BY <2>3, MeantOne
  <2>6. \A h, x, y : Through(Meant, h, <<x, y>>) = Through(Meant, Through(Meant, h, <<x>>), <<y>>)
    BY ThroughTwo
  <2>7. Through(Meant, At(Opened, q), <<c>>) = At(do(c), q)
    BY <1>1, <1>3, <2>1, <2>4, Zenon
  <2>8. Through(Meant, At(do(c), q), <<"opt">>) = At(Fresh, q)
    BY <1>1, <1>3, <2>2, <2>5, Zenon
  <2>9. Through(Meant, At(Opened, q), <<c, "opt">>)
          = Through(Meant, Through(Meant, At(Opened, q), <<c>>), <<"opt">>)
    BY <2>6
  <2> QED BY <2>7, <2>8, <2>9, Zenon
<1>10. CASE a = <<"DO", "opt">>
  BY <1>7, <1>9, <1>10
<1>11. CASE a = <<"WILL", "opt">>
  BY <1>7, <1>9, <1>11
<1> QED BY <1>8, <1>10, <1>11 DEF Requests

\* Reading on, it only adds to what it has heard.
LEMMA MeantAdds ==
    ASSUME NEW s \in States, NEW q \in Seq(Bytes)
    PROVE  \A w \in Seq(Bytes) : \E z \in States : \E x \in Seq(Bytes) :
             Through(Meant, At(s, q), w) = At(z, q \o x)
<1> DEFINE P == {w \in Seq(Bytes) : \E z \in States : \E x \in Seq(Bytes) :
                   Through(Meant, At(s, q), w) = At(z, q \o x)}
<1>1. <<>> \in P
  <2>1. Through(Meant, At(s, q), <<>>) = At(s, q \o <<>>)
    BY ThroughEmpty, ConcatEmptySeq
  <2> QED BY <2>1, EmptySeq
<1>2. ASSUME NEW w \in Seq(Bytes), NEW b \in Bytes, w \in P PROVE Append(w, b) \in P
  <2>1. PICK z \in States, x \in Seq(Bytes) : Through(Meant, At(s, q), w) = At(z, q \o x)
    BY <1>2
  <2>2. Through(Meant, At(s, q), Append(w, b)) = Meant[<<At(z, q \o x), b>>]
    <3>1. \A h : \A v \in Seq(Bytes) : Through(Meant, h, Append(v, b)) = Meant[<<Through(Meant, h, v), b>>]
      BY ThroughAppend
    <3> QED BY <2>1, <3>1, Zenon
  <2>3. q \o x \in Seq(Bytes) /\ Gives(z, b) \in Seq(Bytes) /\ After(z, b) \in States
    BY StateFacts, ConcatProperties
  <2>4. Meant[<<At(z, q \o x), b>>] = At(Kind(After(z, b)), (q \o x) \o Gives(z, b))
    BY <2>3, MeantOne
  <2>5. (q \o x) \o Gives(z, b) = q \o (x \o Gives(z, b))
    BY <2>3, Regroup, Zenon
  <2>6. x \o Gives(z, b) \in Seq(Bytes) /\ Kind(After(z, b)) \in States
    BY <2>3, ConcatProperties, MeantOne
  <2>7. Append(w, b) \in Seq(Bytes)
    BY AppendProperties
  <2>8. Through(Meant, At(s, q), Append(w, b)) = At(Kind(After(z, b)), q \o (x \o Gives(z, b)))
    BY <2>2, <2>4, <2>5, Zenon
  <2> QED BY <2>6, <2>7, <2>8
<1>3. \A w \in Seq(Bytes) : w \in P
  <2> HIDE DEF P
  <2> QED BY <1>1, <1>2, SeqInductive
<1> QED BY <1>3

LEMMA InIsClear ==
    ASSUME InInv, Arrivals
    PROVE  TelnetIn
<1> SUFFICES ASSUME ~rawdata
             PROVE  /\ IsPrefix(has_read, asked)
                    /\ wire_in = <<>> => has_read = asked
  BY DEF TelnetIn
<1>1. Through(Meant, At(Kind(t_state), has_read), wire_in) = At(Fresh, asked)
  BY DEF InInv
<1>2. has_read \in Seq(Bytes) /\ Kind(t_state) \in States /\ wire_in \in Seq(Bytes)
  BY StateFacts DEF Arrivals, Kind
<1>3. PICK z \in States, x \in Seq(Bytes) :
         Through(Meant, At(Kind(t_state), has_read), wire_in) = At(z, has_read \o x)
  BY <1>2, MeantAdds
<1>4. ASSUME NEW r, NEW s, NEW v, NEW w, At(r, v) = At(s, w) PROVE v = w
  <2>1. At(r, v).heard = v /\ At(s, w).heard = w
    BY DEF At
  <2> QED BY <1>4, <2>1
<1>5. asked = has_read \o x
  <2>1. At(Fresh, asked) = At(z, has_read \o x)
    BY <1>1, <1>3
  <2> QED BY <1>4, <2>1
<1>6. IsPrefix(has_read, asked)
  BY <1>2, <1>5, Extends
<1>7. ASSUME wire_in = <<>> PROVE has_read = asked
  <2>1. Through(Meant, At(Kind(t_state), has_read), <<>>) = At(Kind(t_state), has_read)
    BY ThroughEmpty
  <2>2. At(Kind(t_state), has_read) = At(Fresh, asked)
    BY <1>1, <1>7, <2>1
  <2> QED BY <1>4, <2>2
<1> QED BY <1>6, <1>7

LEMMA InInvStep ==
    ASSUME InInv, Arrivals, TnNext
    PROVE  InInv'
<1> SUFFICES ASSUME ~rawdata'
             PROVE  Through(Meant, At(Kind(t_state'), has_read'), wire_in') = At(Fresh, asked')
  BY DEF InInv, Kind, At, Fresh
<1>1. CASE Swrite
  BY <1>1 DEF Swrite, InInv
<1>2. CASE writetcp
  BY <1>2 DEF writetcp, InInv
<1>3. CASE readtcp
  <2>1. PICK b \in {Head(wire_in)} :
          LET command == t_state.state = "T_COMMAND"
          IN  /\ t_state' = After(t_state, b)
              /\ has_read' = has_read \o Gives(t_state, b)
              /\ rawdata' = (\/ rawdata
                             \/ command /\ OneByte(t_state.command) /\ b \in {"IAC", "CR"})
    BY <1>3, Zenon DEF readtcp
  <2> DEFINE one == t_state.state = "T_COMMAND" /\ OneByte(t_state.command)
  <2>2. /\ t_state' = After(t_state, b) /\ has_read' = has_read \o Gives(t_state, b)
        /\ ~rawdata /\ (one => b # "IAC" /\ b # "CR")
    BY <2>1
  <2>3. wire_in # <<>> /\ wire_in' = Tail(wire_in) /\ asked' = asked /\ b = Head(wire_in)
    BY <1>3 DEF readtcp
  <2>4. /\ b \in Bytes /\ Tail(wire_in) \in Seq(Bytes) /\ <<b>> \in Seq(Bytes)
        /\ wire_in = <<b>> \o Tail(wire_in)
    <3>1. b \in Bytes /\ Tail(wire_in) \in Seq(Bytes)
      BY <2>3, HeadTailProperties DEF Arrivals
    <3>2. wire_in = <<b>> \o Tail(wire_in)
      BY <2>3 DEF Arrivals
    <3> QED BY <3>1, <3>2
  <2>5. t_state \in States /\ has_read \in Seq(Bytes)
    BY DEF Arrivals
  <2>6. Meant[<<At(Kind(t_state), has_read), b>>] = At(Kind(t_state'), has_read')
    <3>1. CASE one
      <4>1. Kind(t_state) = Fresh
        BY <3>1 DEF Kind
      <4>2. After(t_state, b) = Fresh /\ Gives(t_state, b) = <<b>>
        BY <3>1 DEF After, Gives
      <4>3. After(Fresh, b) = Fresh /\ Gives(Fresh, b) = <<b>>
        BY <2>2, <3>1 DEF After, Gives, Fresh
      <4>4. Fresh \in States
        BY StateFacts
      <4>5. Meant[<<At(Fresh, has_read), b>>] = At(Kind(After(Fresh, b)), has_read \o Gives(Fresh, b))
        BY <2>4, <2>5, <4>4, MeantOne
      <4> QED BY <2>2, <4>1, <4>2, <4>3, <4>5, Zenon
    <3>2. CASE ~one
      <4>1. Kind(t_state) = t_state
        BY <3>2 DEF Kind
      <4>2. Meant[<<At(t_state, has_read), b>>]
              = At(Kind(After(t_state, b)), has_read \o Gives(t_state, b))
        BY <2>4, <2>5, MeantOne
      <4> QED BY <2>2, <4>1, <4>2, Zenon
    <3> QED BY <3>1, <3>2
  <2>7. Through(Meant, At(Kind(t_state), has_read), <<b>> \o Tail(wire_in))
          = Through(Meant, Through(Meant, At(Kind(t_state), has_read), <<b>>), Tail(wire_in))
    <3>1. \A h : \A v, w \in Seq(Bytes) :
            Through(Meant, h, v \o w) = Through(Meant, Through(Meant, h, v), w)
      BY ThroughBoth
    <3> QED BY <2>4, <3>1
  <2>8. Through(Meant, At(Kind(t_state), has_read), <<b>>)
          = Meant[<<At(Kind(t_state), has_read), b>>]
    BY ThroughOne
  <2>9. Through(Meant, At(Kind(t_state), has_read), wire_in) = At(Fresh, asked)
    BY <2>2 DEF InInv
  <2>10. Through(Meant, At(Kind(t_state'), has_read'), Tail(wire_in)) = At(Fresh, asked)
    BY <2>4, <2>6, <2>7, <2>8, <2>9, Zenon
  <2> QED BY <2>3, <2>10
<1>4. CASE HostWrites
  <2>1. PICK a \in Asks : asked' = asked \o DataOf(a) /\ wire_in' = wire_in \o Encoded(a)
    BY <1>4, Zenon DEF HostWrites
  <2>2. t_state' = t_state /\ has_read' = has_read /\ rawdata' = rawdata
    BY <1>4 DEF HostWrites
  <2>3. Encoded(a) \in Seq(Bytes) /\ (a \in Seq(Chars) \/ a \in Requests)
    BY SendsBytes
  <2>4. wire_in \in Seq(Bytes) /\ asked \in Seq(Bytes)
    BY DEF Arrivals
  <2>5. Through(Meant, At(Kind(t_state), has_read), wire_in \o Encoded(a))
          = Through(Meant, Through(Meant, At(Kind(t_state), has_read), wire_in), Encoded(a))
    <3>1. \A h : \A v, w \in Seq(Bytes) :
            Through(Meant, h, v \o w) = Through(Meant, Through(Meant, h, v), w)
      BY ThroughBoth
    <3> QED BY <2>3, <2>4, <3>1
  <2>6. Through(Meant, At(Kind(t_state), has_read), wire_in) = At(Fresh, asked)
    BY <2>2 DEF InInv
  <2>7. Through(Meant, At(Fresh, asked), Encoded(a)) = At(Fresh, asked \o DataOf(a))
    <3>1. CASE a \in Requests
      <4>1. Encoded(a) = <<"IAC">> \o a /\ DataOf(a) = <<>>
        BY <3>1 DEF Encoded, DataOf
      <4>2. Through(Meant, At(Fresh, asked), <<"IAC">> \o a) = At(Fresh, asked)
        BY <2>4, <3>1, MeantRequest
      <4>3. asked \o <<>> = asked
        BY <2>4, ConcatEmptySeq
      <4> QED BY <4>1, <4>2, <4>3
    <3>2. CASE a \notin Requests
      <4>1. Encoded(a) = Pairs(a) /\ DataOf(a) = a /\ a \in Seq(Chars)
        BY <2>3, <3>2 DEF Encoded, DataOf
      <4>2. Through(Meant, At(Fresh, asked), Pairs(a)) = At(Fresh, asked \o a)
        BY <2>4, <4>1, MeantReads, ReadsPairs
      <4> QED BY <4>1, <4>2
    <3> QED BY <3>1, <3>2
  <2> QED BY <2>1, <2>2, <2>5, <2>6, <2>7, Zenon
<1> QED BY <1>1, <1>2, <1>3, <1>4 DEF TnNext

-----------------------------------------------------------------------------
\* The connection is transparent: whatever portions the network takes of what
\* writetcp gives it, and however the pairs are cut, the program at either end
\* reads the data, and only the data, that the other was given to write.
THEOREM TelnetIsClear == TnSpec => []TelnetClear
<1> DEFINE Inv == OutInv /\ InInv /\ Arrivals
<1>1. TnInit => Inv
  <2> SUFFICES ASSUME TnInit PROVE Inv
    OBVIOUS
  <2>1. <<>> \in Seq(Chars) /\ <<>> \in Seq(Bytes) /\ <<>> \o <<>> = <<>>
    OBVIOUS
  <2>2. Arrivals
    BY <2>1, StateFacts DEF TnInit, Arrivals
  <2>3. Hears(<<>>)
    BY <2>1 DEF TnInit, Hears, At
  <2>4. OutInv
    BY <2>1, <2>3 DEF OutInv, TnInit
  <2>5. InInv
    <3>1. Kind(Fresh) = Fresh
      BY DEF Kind
    <3>2. Through(Meant, At(Fresh, <<>>), <<>>) = At(Fresh, <<>>)
      BY ThroughEmpty
    <3>3. t_state = Fresh /\ has_read = <<>> /\ wire_in = <<>> /\ asked = <<>>
      BY DEF TnInit
    <3> QED BY <3>1, <3>2, <3>3, Zenon DEF InInv
  <2> QED BY <2>2, <2>4, <2>5
<1>2. Inv /\ [TnNext]_tnVars => Inv'
  <2> SUFFICES ASSUME Inv, [TnNext]_tnVars PROVE Inv'
    OBVIOUS
  <2>1. CASE TnNext
    BY <2>1, OutInvStep, InInvStep, ArrivalsStep
  <2>2. CASE UNCHANGED tnVars
    BY <2>2 DEF tnVars, OutInv, Hears, InInv, Arrivals
  <2> QED BY <2>1, <2>2
<1>3. Inv => TelnetClear
  BY OutIsClear, InIsClear DEF TelnetClear
<1> QED BY <1>1, <1>2, <1>3, PTL DEF TnSpec
=============================================================================
