# UUPC/extended in TLA+

This directory models UUPC/extended (ache's version), a UUCP for MS-DOS and
OS/2: a daemon, `uucico`, that calls other hosts, is called by them and
exchanges queued files with them, and the programs around it that queue work
(`uux`, `uucp`, `rmail`), carry it out (`uuxqt`, `rmail`) and look after it
(`uustat`, `uusub`).  All of it is C (and some assembler for serial ports) under
`src/`, about 33000 lines, without tests and with comments as the only
documentation.  Each TLA+ definition is translated from the source lines that
`PROJECT.json` names for it under "map".

Sections: 1 inventory, 2 modules, 3 runs and bounds, 4 fairness, 5 proofs,
6 where the code differs from what it says, 7 assumptions, 8 what is not
modelled and what is left of the plan.

## 1. Inventory

| component | source | state it keeps | operations | interacts with |
|---|---|---|---|---|
| g packet protocol | `uucico/dcpgpkt.c` | send window (`swl`, `swu`, `nbuffers`, `outbuf`, `ftimer`), receive window (`rwl`, `inbuf`, `arrived`), error counters (`nerr`, `lazynak`, `idletimer`) | `gopenpk`, `gsendpkt`, `ggetpkt`, `geofpkt`, `gclosepk`, all of which run the packet machine `gmachine` | called by the transfer handlers through the `Proto` table; reads and writes the drivers |
| t packet protocol | `uucico/dcptpkt.c` | none | `tsendpkt`, `tgetpkt`, `twrmsg`, `trdmsg`, `teofpkt` | the same table; a connection that loses nothing |
| file transfer | `uucico/dcpxfer.c`, `process` of `uucico/dcp.c`, `scandir` of `uucico/dcpsys.c` | the `XFER_` state, the job and file being worked on, temporary files, the work files (`C.`) of the queue | 17 state handlers | a packet protocol below; the queue on disk; the same machine at the other host |
| conversation | `dcpsys.c`, `dcplib.c` | the host being talked to, its lock, the protocol agreed on | `startup_server`, `startup_client`, `sysend` | locks, host status, transfer |
| calls, modem, login scripts | `dcpmain` (`dcp.c`), `getsystem` (`dcpsys.c`), `uucico/modem.c`, `uucico/script.c`, `login` (`dcplib.c`), `uucico/checktim.c` | the `CONN_` state, the place in the systems file, attempts of each host, the port, the place in phone list, speeds and script | `getsystem`, `callup`, `cdial`, `direct`, `callin`, `sendalt`, `login` | drivers; conversation |
| drivers | `ulib.c`, `ulib2.c`, `fossil.c`, `sio.c`, `commfifo.asm`, `loadtcp.c` | ring buffers, port registers, when the carrier was last seen, TELNET's half written pairs | `sread`, `swrite`, `w_flush`, `carrier`, `hangup`, `readtcp`, `writetcp` | the modem, the network, the keyboard |
| locks | `lib/lock.c`, `lib/flock.c` | `locket` (one open lock file per process), the lock files | `LockSystem`, `UnlockSystem`, `PushLock`, `PopLock`, `fd_lock` | `uucico`, `uuxqt`, `uusub` of one machine |
| host status | `lib/hostatus.c`, `lib/hostrset.c`, `uucico/dcpstats.c` | a file with every host's status and a copy in every process | `HostStatus`, `dcupdate`, `HostReset` | `uucico`, `uusub`, `uustat` |
| spool queue | `util/uux.c`, `util/uucp.c`, `rmail/sendone.c`, `lib/getseq.c` | sequence file, call, execute and data files | `getseq`, `JobNumber`, `do_remote` | `uucico` reads it without a lock |
| queue maintenance | `util/uustat.c`, `lib/readnext.c` | none but its place in the host table and a directory | list, kill, rejuvenate, poll | deletes from the queue while `uucico` works through it |
| remote execution | `util/uuxqt.c`, `lib/readnext.c` | received `X.` and `D.` files, `bad.job` | `do_uuxqt`, `process`, `shell`, `rmail`, `rnews` | `uucico` adds files; several `uuxqt` at a time |
| mail batches | `rbmail`, `rcbmail` of `util/uuxqt.c` | the batch and a place in it, an `.ERR` file | `rbmail` | `rmail` |
| mail routing and delivery | `rmail/pcmail.c`, `sendone.c`, `address.c`, `lib/hostable.c` | host table with what lookups noted in it, gathered addresses, the depth of forward files | `lmail`, `sendone`, `ProcessForward`, `user_at_node`, `HostPath`, `HostAlias`, `bounce` | `uux` for remote mail; mailboxes |
| file names | `lib/import.c`, `export.c`, `expath.c`, `arbmath.c` | the files of a directory | `importpath`, `exportpath`, `ImportName` | every program that opens a spool file |
| mail format | `rmail/mime.c`, `koi8.c`, `head.c` | none | headers and character sets | `rmail` |
| tables, library, screen | `lib/*.c`, `uucico/screen.c` | configuration | reading tables, swapping, time, display | all |

What is hard in this code:

* **Unreliable delivery.**  The g protocol works on 3 bit numbers over lines
  that lose, garble and delay packets; three different mechanisms (timers, NAKs,
  repeated ACKs) resend, each throttled by a counter of its own.
* **Protocol order.**  The transfer protocol changes master and slave within a
  session, and either side may refuse, fail or vanish at each message.  Two
  systems may call one another at the same time.
* **Crashes.**  Files on disk are the only memory: each pair of steps (rename
  and reply, reply and delete, data and call file, execute and delete) can be
  cut by a crash, Ctrl-Break or a lost line.
* **Interleaving.**  Several programs of one machine share the queue, the
  sequence file, the status file and the lock files; OS/2 and DOS under a
  multitasker run them at the same time.
* **Polling.**  Drivers, modem, carrier, clock and keyboard are polled in loops
  that keep counters and time stamps of their own from one call to the next.
* **Nested retries.**  Speeds, phones, passes, lines of the systems file and
  passes through it are five loops, some of them sharing a counter.
* **Recursion over data of users.**  A mail's addresses lead through aliases,
  routes, gateways and forward files, gathered and delivered at several depths.
* **Damaged data.**  A batch of mails is taken apart again after errors by going
  back in it.

`PROJECT.json` lists the single hazards, each at its line, with the properties
that would catch it; those left to reading are in section 6.

## 2. Modules

The modules named `...Proofs` hold the theorems, those of components that meet in
one.  The `MC` modules prepare the others for TLC; one `MC` module holds several
small models, each in behaviours of its own: a variable `which`, chosen at the
start, says whose steps are taken, and the other models' variables keep their
first values.  A model that theorems are about is brought in by EXTENDS, so that
a run checks the very definition that is proved (the variables of such models have
names of their own); the others by INSTANCE, and their properties then read
`which = "x" => ...`.

| module | models | state and actions |
|---|---|---|
| `ReliableLink` | what the transfer layer takes a packet protocol to be | `sent`, `got`; `Send`, `Deliver` |
| `GPacket` | `dcpgpkt.c` after the handshake, both ends | the C variables by name; one action per iteration of `gmachine`'s loop together with what its caller (`gsendpkt`, `ggetpkt`, `gclosepk`) does next |
| `GHandshake` | `gopenpk`, both ends | one action per packet that comes, and for a timeout |
| `TPacket` | the t protocol carrying one file and its confirmation | one action per `sread` or `swrite` of a length, a block, a packet's bytes; the line is a sequence of tokens |
| `Delivery` | what the system promises whoever queues a file | `Arrive`, `Refuse`, `Purge`, `Forget` |
| `Xfer` | `process` and `dcpxfer.c`, both hosts, over many sessions | `p[h].state` is the `XFER_` state; a handler that sends and waits is two actions; disks survive `Drop` and `Crash` |
| `Conv` | `startup_server`, `startup_client` and `sysend` of several machines | one process per end of a wire, one action per message sent or read; the lock files |
| `Call` | a run of `dcpmain` as a caller and as an answerer: `getsystem`, `callup`, `cdial`, `direct`, `callin`, `login` | `state` is the `CONN_` state, `at` the place in `cdial`'s loop or the script |
| `Line` | `sread`, `swrite`, `w_flush`, `carrier`, `hangup` on DOS with a FOSSIL driver and on OS/2 | one action per turn of a polling loop; the driver, modem, clock, other side and keyboard between the turns |
| `Telnet` | `readtcp`, `writetcp` | one action per portion the network takes or gives |
| `Status` | locks, status file, `dcpmain`'s loop and `dcupdate`, several processes | `p[x].at` is the place in the code; one action per call that other processes can see |
| `Spool` | sequence file, `uux`, and `uucico` scanning and sending | one action per file operation |
| `Ustat` | `uustat`'s commands on a queue `uucico` works through | one action per file operation of either |
| `Uuxqt` | several `uuxqt` and arriving commands | one action per file operation or mail |
| `Rbmail` | `rbmail` on a damaged batch | the C control flow between reads; lines as units |
| `Routing` | the host table and the resolution of addresses (operators) | operators that take and return the table, which lookups write in |
| `Mail` | `rmail` with one message | a stack of `sendone` calls; one action per address, forward file, delivery and report |
| `Names` | `importpath`, `exportpath`, `ImportName`, the arithmetic of `arbmath.c` | functions on sequences of characters; a directory that fills with the names made |

| module | holds the proofs about |
|---|---|
| `GPacketInv`, `GPacketProofs` | `GPacket`: its inductive invariant; safety and the refinement of `ReliableLink` |
| `ConvProofs` | `GHandshake`, `Conv` and `TPacket`: how a session is opened and closed, and its simpler protocol |
| `XferProofs` | `Xfer`: nothing is lost, the refinement of `Delivery`, when a host takes its turn again; files come in order, and twice only after a loss |
| `LineProofs` | `Line`, `Call` and `Telnet`: what the driver, the modem and a TCP connection show to the protocols |
| `StatusProofs` | `Status` and `Ustat`: locks and status file; killing jobs while they are sent |
| `SpoolProofs` | `Spool`: jobs are whole, of one name each, and sent whole |
| `UuxqtProofs` | `Uuxqt` and `Rbmail`: commands are executed once, batches are taken apart without loss |
| `MailProofs` | `Mail` and `Routing`: lookups end and do not disturb one another; an addressee is served or somebody is told, as often as he is named and each one his own way |

How they compose: `GHandshake` gives `GPacket` its initial state (the agreed
window).  `GPacket` implements `ReliableLink`, which is the channel `inb` of
`Xfer`; `TPacket` is such a channel as long as `TLink` holds; `Xfer` implements
`Delivery`.  `Line` (or `Telnet` over it) is the line of `GPacket` and
`TPacket`: what it loses or reports as lost are their faults.  `Call` leads to
`Conv`, which leads to the handshake and `Xfer`; `Status` is `dcpmain` around the
sessions, with several processes.  `Spool` is the caller's disk of `Xfer` with
the writers added, `Ustat` with a program that deletes from it; `Uuxqt` is the
receiver's with the readers added, and takes from `Xfer` that data comes before
its command (`InOrder`); `Rbmail` is one `Deliver` of `Uuxqt` for a batch, `Mail`
one `rmail` of either, which uses `Routing` and queues as `Spool` does.  `Names`
is how each of them finds a spool file.

## 3. Runs

Every run is small, and bounded where the program is not; the bounds are the
constants whose comment in the module says "bound".

| run | instance and bounds | shows |
|---|---|---|
| `g` (`MCGPacket`) | MAXSEQ 3, windows of 2, 4 packets one way and 1 the other, one lost or garbled header, one bad checksum, one early timeout, one lost carrier, one abort; a line of 3 packets; MaxErr 5 | the machine implements `ReliableLink` (`LinkSpec`), `AckedWasReceived`, `NothingSkipped`; a fault of each of two kinds does not break a conversation (`Completes`: a session that is over without a lost carrier, an abort or more faults than that has delivered every packet and closed at both ends); both ends stop (`Terminates`) |
| `conv` (`MCConv`) | handshake: windows 7 and 3, sizes that differ, two lost packets, three early timeouts, a lost carrier.  Conversation: three machines and three wires, two calls on each, two of them between the same pair in opposite directions, one that may reach the wrong machine and has no protocol in common; carrier lost and messages late anywhere.  t protocol: two packets, messages of two blocks, one end DOS and one OS/2 | `WindowAgreed`, `HandshakeOpens`; `SessionsAgree`, `GoodCall`; `TLink` |
| `xfer` (`MCXfer`) | stuck: a file on either side that cannot be read, a command with its data that is queued before or while the hosts run, two faults (drop, crash, a crash between `unlink` and RENAME).  live: three files one way (one asked for), one the other, two faults of the same kinds, with and without restart.  disk: five files, three jobs, refused, unreadable and empty files, a host that only sends, copies across drives, one fault (disk, crash).  spool: two `uux` and a `uucico`, number at the wrap or no sequence file, two faults | `FilesSafe`, `InOrder`, `NoIdleRetry`, `Delivers` (refinement of `Delivery`) on the stuck instance; `SafeElsewhere`, which is the four of them on the live instance, and all but `InOrder` on the disk one; `QueueSafe`; `QueuesDrain`: every session ends, everything arrives (live), every job is sent (spool) |
| `line` (`MCLine`) | driver: DOS and OS/2, an output queue of 2, writes of 1 or 2 characters, reads of 1, timeouts of 0 and 1, MAXSPIN 1, carrier, flow control, clock and keys as they please.  calls: four lines for three hosts (a modem with two speeds and two phones, a direct line, one speed and another limit, a broken modem), two passes, one failure no counter counts, two rings | `NextCallClean`, `NoFalseLoss`, `StuckGivesWay`, `LineLive`; `DialsRight`, `RunEnds` |
| `programs` (`MCPrograms`) | status: two `uucico`, or one that calls twice and a `uusub`, one host, a clock that ticks once, so that stamps are equal or not, one crash or failed open; the two `uucico` are interchangeable (symmetry).  uustat: three hosts (`kre` is the start of `kremvax`), two queues of jobs of all kinds, every command, one fault.  names: the program's own character sets and lengths, four nodes, three remotes, names that end alike, users' names with upper case, dots and characters DOS has not; two files in a directory.  telnet: what is written and read in portions of one or two characters of every class, options asked for in between | `HostExclusive`, `LoadsWholeFile`, `NoPanic`, `NewestKept`; `KilledWhole`, `KillsAllOrRaces`, `NothingAfterKill`; `NamesSafe`; `TelnetClear` |
| `uuxqt` (`MCUuxqt`) | two `uuxqt`, a batch of two mails, a mail, a command without data, two faults | `OncePerRun`, `KeptUntilDone`, `RejectedIsWhole`, `Handled` |
| `mail` (`MCMail`) | rmail: a host with a route, an alias of it, a gateway with a wildcard, a host without a path, a route through another; eight forward files for each of two users, seven lists of addresses, with and without filters, near the hop limit or not, with and without receipts, return addresses here, elsewhere, two, none, our own host's and blank, on DOS and on OS/2, one fault; and the tables of two hosts, called or not, with any route and alias, circles and unknown hosts included, with any two addresses (`OnePath` is about those that lead somewhere).  rbmail: every batch that up to three damages (a lost line, a garbled line or header, a truncation) make of three mails of two lines, one that begins with an empty line, one with a header inside, one with a ^Z, an rmail that may fail | `Told`, `OnePath`, `EveryMention`; `BatchSafe` |
| `call_speed` (`MCLine`) | one line, a modem with two speeds, a phone nobody answers | violation of `GivesUp`, see 6 |
| `line_read` (`Line`) | OS/2, reads of 1 and 2 | violation of `SreadSpec`, see 6 |
| `t_timeout` (`TPacket`) | DOS, the t protocol of `conv` | violation of `Confirmed`, see 6 |
| `xfer_empty` (`MCXfer`) | an empty file and a line that drops | violation of `EmptyEnds`, see 6 |
| `spool_lost` (`Spool`) | two `uux` and a `uucico` without faults | violation of `NeverLost`, see 6 |

Why the bounds are enough for what they are asked: MAXSEQ 3 with four packets
makes the numbers wrap and a slot be used twice, which is what 8 does after
eight packets; where section 5 has a theorem, it removes the bounds.  One fault of each kind at any place is enough to make each resend
path fire and to make them meet.  In `Xfer`, files have up to two blocks because
a handler tells the first, a further and the last block apart, and two faults
let a fault strike the recovery from another.  Two programs are enough for the
races of `Status`, `Spool`, `Ustat` and `Uuxqt`, each of which is between two;
three mails let a damage of one reach the next but leave the third.  In `Conv`
two opposite wires are the one way two sessions of a pair can come about, and a
second call on each meets what the first has left.  In `Call` each counter of
`cdial` reaches its end at two, and two lines of one host are what shares the
count of attempts.  `Line` counts characters: a queue of two is empty, partly
and wholly full; its clock has the unit in which a
free line takes a character, and counts no further than the carrier's second and
a timeout of one tell apart.  `Mail` starts from every combination, so the depth
of nested forward files and each way of gathering addresses is in it.  `Names`
keeps the real lengths (7, 8 and 3) and character sets: its coding is one of
lengths.

Deadlock is checked for `GPacket` and `Uuxqt`, whose end states stutter.  The
other models come to an end that the code means to be one, or reach their
bounds; their cfgs say so, and liveness is stated where it matters instead.

## 4. Fairness

In an `MC` module of several models the fairness of each is that of its own
steps (`WF_vars(which = "x" /\ Step)`), which is the same as the model's own.

* `GHandshake`: weak fairness of each host's program; `GPacket`: of the two
  together (each waits for the other or its clock).  `sread` always
  returns (data, timeout or lost carrier), so the loop of `gmachine` goes on;
  `LineLive` is that promise for the driver.  Faults are never fair and bounded,
  except that `Terminates` allows the line to stay silent.
* `Xfer`: weak fairness of each host's step, which includes reading a lost line,
  and of `Call`: `dcpmain` goes through its hosts for ever, and `getsystem` calls
  a host that has work.
* `Spool`: of the session steps of `uucico` and of each `uux` (programs run on).
* `Call`: weak fairness of all steps together: the program runs on, a modem or
  a login script's expect string answers or times out.  Which of them happens is
  never assumed.
* `Line`: weak fairness of the turns of a loop and of the driver's transmission
  of what it may send, and of calling `sread` again (a program that stops reading
  notices nothing); strong fairness of the clock, which moves between turns and is
  disabled while a reading of it would only repeat.  Held output, a lost XON,
  the carrier and keys have no fairness.
* `Uuxqt`: of each program's steps and of its start: `uucico` starts `uuxqt`
  after each call.

`Status`, `Conv`, `Ustat`, `Mail`, `Rbmail`, `Names` and `Telnet` are run for
their safety only.

## 5. Proofs

TLAPS checks these for every value of the constants that the ASSUMEs allow.  None
of the safety properties is inductive as it stands; each part below says what the
inductive invariant adds, and why.

**`GPacketProofs`** (`AckedWasReceivedHolds`, `NothingSkippedHolds`, `SendWindowHolds`,
`OneSpeakerHolds`, `Implements`).  That an ACK in the window is a good one
depends on every packet still on the line.  `GPacketInv` therefore counts
packets without wrapping (`rcvd`, `Len(sent)`, and a history field `upto` or
`id` in each packet) and says that the wrapped numbers in the variables, the
buffers and in each packet on the line are the true counts modulo MAXSEQ,
that counts of one direction lie within one window, and that the line keeps
order.  As a window is less than MAXSEQ, a number then names one packet
(`SeqNoUnique`, `BetweenCounts`).  `EndOfLoopStep` and `Kept` prove the part
that all iterations of `gmachine` share, one lemma per action the rest.  MAXSEQ
is any of 2..8.

**`ConvProofs`**
* `WindowAgreedHolds` (GHandshake): `LearntWindow` extends `WindowAgreed` to every
  packet on the line: who has sent INITB has learnt the window, and INITC answers
  an INITB.
* `OneSessionAtATime`, `GoodCallCounts` (Conv): `InStep` lists, for a wire that is
  up, where its two ends can be together and what is then under way; `CallerOK`,
  `AnswererOK` and `SameProto` say what an end still knows when the line is gone;
  `LocksOK` that a lock file bears the name of an end that is in that call.
  `Good` is `GoodCall` at every step of the call.  Any number of wires, machines
  and protocols, whoever reaches the wrong machine.
* `TPacketIsALink` (TPacket): every token on the line carries, as history, the
  place it has in the sequence of all lengths, blocks and packets of the session.
  What is on its way is then a piece of that sequence, token for token, from where
  the receiver goes on to where the sender does (`StreamWhole`, `StreamFront`,
  `StreamBack`).  A length that comes too late breaks that, which is the flaw of
  `t_timeout`; hence `TInv == mistimed \/ TWell`, and `TLink` says the same.

**`StatusProofs`**
* `LockNoPanic`, `CallsExclusive`: `IInv` ties `locket`, the saved lock and the
  owner of each lock to the place in the code, the nested lock of `dcupdate`
  included.  Any number of processes and hosts.
* `FileWhole`: reading under the lock and rewriting the file exclude each other
  (`OneHolder`), so `dcupdate` finds the file torn only if its writer died.
* `NewestStays`: the history variable `view` says what a process has got of the
  file since somebody else last wrote it.  Who has got all (`NewOK`) has no older
  attempt than the file, and a `uucico` that rewrites the file has looked since
  (`LookedOK`), as its lock lets nobody write in between.  The clock is any, and
  the load without a lock as a program starts may find the file torn: what it
  missed the load under the lock brings, unless the file has the same stamp then
  (`hostatus.c:116`) or is torn with its writer dead; `NewestKept` names those two,
  and section 6 has what the code does then.
* `KillsWhole`, `KillsThemAll`, `KilledIsSilent` (Ustat, beside a `uucico` that works
  through the same queue): `UsInv`.  `AtKill` and `DataGone` relate the data files
  that are left of a job to what has been reported of them: whoever deletes
  unsent data of a command is killing it, died doing so, or met `uucico` there.
  `Visits` says of a job that is to be killed that it has been reported, lies ahead
  in the host table or the directory, or is at hand; `Dead` and `AtWork` that a job
  reported killed has no call file and `uucico` none of it open.  Any hosts and jobs
  that `UstatAssumption` allows: no host is listed twice and each can be polled.

**`SpoolProofs`** (`JobsSafe`; `SentWhole` and `QueuedStays` for its parts that need
less).  `NumberInv`: while at most one program took its number from the clock
(`OneClock`), the numbers given out lie one behind the other, at distances from
the sequence file that differ and are at most the number of programs (`Row`), wrap
included.  With `FewJobs` (no more programs than there are numbers before the
names come back) numbers that differ give names that differ.  `FileInv` says which
files a program has at each step (`Progress`), what `uucico` does with them
(`AtWork`), and that a file belongs to the program whose name it has (`Owned`).
A program that nobody shares its name with (`Apart`) is enough for both.

**`XferProofs`** (`NothingIsLost`, `PromiseIsKept`, `NoIdleTurns`, `InOrderAndOnce`).
* That `sdata` may send block after block, and that `seof`'s `CY` may let the sender
  delete its file, depends on where the other host is and on each packet between
  the two.  `XferInv` has, per host, who is master in which state (`Roles`), what
  it works on (`Work`), the temporary file it holds (`Holds`), the lines of the job
  that are done with (`Behind`), what may be on its way to it (`Mail`: after `RY`
  the blocks in order and the end, after an end `CY` or `CN` and the next
  command), and that nothing follows a `CLOSE` (`Closed`).  `Turns` says of the
  two together that exactly one of them leads, asks, answers, has answered or
  sends; while the line is up it counts the packets between them.  One lemma per
  handler proves that each part is kept.
* `PromiseIsKept` is the refinement: every step of `Xfer` is an `Arrive`, `Refuse`,
  `Purge` or `Forget` of `Delivery`, or none.  `NothingIsLost` and it hold with
  any faults.  They assume `OwnTemps`: each file has a temporary file of its own
  (section 6 has what happens otherwise).
* `NoIdleTurns` adds `IdleInv`: `tried` is what the last scan of a queue began with
  (nothing, once the other host has asked for something).  What of it is still
  queued has a file that cannot be read (`Stuck`), or is still to be run by the
  master that is at it (`Runs`); so once the line is given away only stuck jobs are
  left of it.  For files readable or not, jobs queued at any time, and any faults.
  That stuck jobs do make the hosts hand the line over is in section 6.
* `Intact` lets a crash leave part of a copy across drives under the file's own
  name.  Such a file will be sent again, or it was refused after its first
  arrival and stays as it is; the second case is part of the invariant because
  the proof attempt without it met just that behaviour.
* `InOrderAndOnce`.  `OrderInv`: a file that is asked for, taken or in place has
  those before it in its work file in place.  `TwiceInv` charges each further
  arrival to a fault: while a file may still arrive again there is a fault that was
  not charged, a lost line included before either host has seen it.  Assumes
  `Steady` (files can be read, disks do not fail: else a job is kept though its
  files were sent, and they are sent again without any loss) and `Orderly`:
  no crash between `reof`'s `unlink` and RENAME, and none that cuts the copy of a
  file that another follows.  TLC checks `InOrder` with the former, on files that
  are queued as spool copies.

**`LineProofs`**
* `NextIsClean`, `LossesAreTrue`, `WritesGetThrough` (Line): `LineInv`.  `Missed`
  relates the second counted by `carrier` to the time it was really away.
  `Releases` and `Progress` account, in a write that nothing excuses, for each
  turn without room by an XON that was lost, and for the time by characters that
  have left; the first wait of a write is a case of its own, because only then
  can the driver's queue be full at the start.
* `CallsAreCounted` (Call): `CallInv`.  `Attempts` ties what is remembered of a
  host to how often it really was not reached; `Dialling` says of `cdial`'s four
  nested loops that the phones before the present one are done with, and how
  often it was tried.  For any systems file, modems and limits.
* `TelnetIsClear` (Telnet): any data, in any portions.  What the encoding makes
  of data is a fold over it, so both directions say what a reader has made of the
  characters so far.  `OutInv`: the host's reader has heard all that was said but
  what `tosend` still owes, and half an IAC if a pair is cut; a portion is made of
  whole pairs, or has half a pair besides, and counting the characters taken gives
  the data reported as written (`Counts`).  `InInv`: what is still on its way is
  read by an ideal reader (`Meant`), and what `readtcp` has given out with what it
  means is what was sent.  The induction over the data is by the least number or
  the shortest sequence for which a lemma fails (`NatInductive`, `SeqInductive`,
  each about a set, so that no operator is a parameter).

**`UuxqtProofs`**
* `SpecOncePerRun`, `SpecKeptUntilDone`, `SpecRejectedIsWhole` (Uuxqt): whoever opens
  an execute file holds the system's lock and looks again whether the file is there
  (`Locks`, `Working`), so a mail is never begun twice in one run of its command
  (`Counted`, of which `OncePerRun` is the part that can be observed); `Files` says
  where a command's two files are at each step.
* `BatchIsSafe` (Rbmail): `RbInv`.  `AllAhead`: a mail that arrived as it was sent has
  been delivered, is at hand with the right checksum, or begins at or behind the
  place where `rbmail` goes on.  That a wrong length cannot lead past it is the work
  of `saveseek` (`AtRmail`), and that a right checksum cannot either follows from the
  lines' numbers (`Taking`).  `Covered` has the lines that were passed, `Smooth` an
  undamaged batch.  Any mails, and any lines of them as the batch: no bound on
  the damages.  Two losses are the code's own and exempted by name (see 6): what
  follows a ^Z, and an empty first line (`Deliverable`, `Swallowed`).

**`MailProofs`**
* `MailIsTold` (Mail): `MailInv`.  `Owed` says of each argument before the next one
  that it is settled (skipped, delivered, or something was counted as not sent),
  is among the gathered addresses, or in the hands of a `sendone` (`InHand`); `Frames`
  that the forward files being worked through, at any depth, stand for the same
  arguments, and that one of them reports success only after a delivery for
  these; `MasterHears` that the notice to the postmaster gets through or counts as
  an error.  For any host table, forward files and addresses: what the lookups
  answer plays no part in it.  `Told` leaves out, by name, the two cases in which the
  code tells nobody (section 6).  The postmaster is a user with a mailbox
  (`CasesAssumption`), and a NULL pointer is no call (`NullIsNoCall`).
* `LookupsEnd` (Routing): a lookup writes in the table that it reads, and calls
  itself on what it has found there; each of the recursions has a measure that
  gets smaller (`AliasLess`, `PathLess`: what is not yet marked in the table;
  `LeadsOn`: the length of the address), and a recursion with a measure has
  exactly one solution (`Solution`).  For any table, circles included.
* `MailOnOnePath` (Mail, Routing): what a lookup notes in the table never changes
  an answer.  A table is `Fresh` as `loadhost` leaves it (`LoadedFresh`, over the
  lines of SYSTEMS and PATHS); each mark set since then agrees with what the fresh
  table says of that host (`Ready`), and in a table that agrees so far, `HostAlias`,
  `HostPath`, the walks along routes and bang paths, `user_at_node` and
  `remote_address` answer as in the fresh one and leave a table that agrees
  (`AliasStays`, `PathsStay`, `BangPathsAgree`, `NodeAnswer`, `LeadsAnswer`).  It takes
  a table that leads somewhere (`Leads`): in a circle the answer depends on the
  host asked first.  `WayInv` then has every address that `lmail` gathers, that a
  call of `sendone` is given, or that a forward file at any depth has collected, on
  the path noted with it; `PathInv` is that for the table of the case.
* `MailToEveryMention` (Mail, Routing): each addressee is sent exactly as many copies
  as he is named.  `Mentions` is the recursion over the forward files that the
  property counts by; it is well-founded by the hops that are left, so it has one
  solution (`Solution` again).  `Balanced`: what somebody has got, and what the call
  under way, each frame of the stack (its gathered addresses and the rest of its
  forward file) and the addresses waiting for one `uux` (`remotes`) still mean for
  him, is what the arguments before `next` are due.  `Orderly` says what makes the
  sums step: the "+" of a file counts only while a forward file is read, and only
  remote addresses are gathered in a list, local ones being sent one at a time.
  Each step of `sendone` moves an amount from one summand to another.  The lookups
  are made in the table with its marks and counted in the fresh one; that they
  agree is `LeadsAgree`, so the table has to lead somewhere (TLC checks the property
  without that).  The property itself is about runs without a fault, and forward
  files none of whose addresses ends the list early (`ListsAreGood`).

Only model-checked:

* all liveness (`Terminates`, `HandshakeOpens`, `QueuesDrain`,
  `Handled`, `LineLive`, `RunEnds`), since fairness means ENABLED, which the prover
  does not handle;
* `Completes`, which bounds the errors that two faults can cost, clock and all;
* `NamesSafe`: arithmetic in a base over the characters of a name, and only for the
  lengths and bases the program has; `Names` uses a RECURSIVE operator, about which
  nothing can be proved with these provers;
* `SafeElsewhere`: the theorems about `Xfer` once more, on instances with other
  constants.

## 6. What the code does otherwise than it says

Shown by a run that violates the property a comment states:

* `xfer_empty`: `S_LOST` from `geofpkt` is the same number as `RETRY`, so `seof`
  answers a lost line by sending the file again; with an empty file for ever
  (`dcpxfer.c:268`).
* `spool_lost`: `uucico` may find a call file that `uux` has created and not yet
  closed, take it for a finished one and delete it (`dcpxfer.c:408`).
* `call_speed`: with a second speed, the end of the phone list resets the count of
  tries and neither changes the speed nor gives up (`modem.c:804`).
* `line_read`: the OS/2 `sread` looks at the output queue to see what has come
  in, drops what it reads in a poll, and drops what came before a time limit
  (`ulib2.c:503`, `ulib2.c:541-553`).
* `t_timeout`: `tgetpkt` and `tsendpkt` compare a signed result with a `sizeof`, so
  a length that did not come in time is used all the same (`dcptpkt.c:130`).

Met while modelling, and not turned into runs of their own.

File transfer and queue:

* Two files of one base name share a temporary file; a restart then continues
  the wrong one (`dcpxfer.c:1138`; give `Tmp` one value for both, and `FilesSafe`
  does not hold).
* Two hosts that each have a job with a file that cannot be read hand the line to
  each other for ever (`dcpxfer.c:776`): `schkdir` finds the job that `newrequest` has
  left in the queue (`dcpxfer.c:408`).  The comment of `sbreak` says that "we just
  decline here to avoid trying the queue again without intervening work from the
  other side" and knows of later jobs only (`dcpxfer.c:209-212`).  `NoIdleRetry` is
  about everything else: it lets a host try its queue again for a job that has come
  since or that is `Stuck`, and for no other.  Without "`Stuck(j)`" in `NotIdle` the run
  `xfer` fails.
* With one such file its job is kept though its other files were sent, and they
  are sent again in the next session (`InOrderAndOnce` needs `Steady`).
* `reof` deletes a spool file that has the new one's name before RENAME
  (`dcpxfer.c:904`): a crash between the two leaves neither, until the file is sent
  again.  For a data file that is not a spool copy (it may be sent twice) the
  command that follows it can be there by then; `InOrderAndOnce` excludes it.
* A file refused for want of disk space (SN4, SN6) is forgotten by its sender
  (`dcpxfer.c:591`).
* `scandir` keeps its directory handle in a static variable (`dcpsys.c:860`): a
  session that ends in the middle leaves it to the next one.
* Two programs that find no sequence file take the same number from the clock
  (`getseq.c:40-47`); `QueueSafe` excludes that.  The wrap at 2^30 is not a
  multiple of 62^3, so names shift there (`getseq.c:50`).
* `cp.c` reports an error for an empty file; `tsendpkt` returns success for a
  lost line if the packet is empty (`dcptpkt.c:160`).

Calls:

* `commrate[]` keeps the tail of an earlier, longer list of speeds
  (`modem.c:929-931`).
* `callin` leaves the port open if there is a carrier after the modem's
  initialization, and `dcpmain` panics at its end (`dcp.c:423`).
* Whether the systems file is read again depends on the attempts of the host
  loaded last (`dcpsys.c:138-141`); an exhausted host followed by one that is
  locked or has an invalid line makes `uucico` spin.
* Failures of a login script and a carrier lost after CONNECT do not count as
  failed attempts; `direct` never looks at the limit; `cdial`'s branch that waits
  (`modem.c:583`) is not reached; the answerer's limit is always 0.
* `sysend` waits 5 seconds for the other's farewell and otherwise marks a call
  that went well as failed (`dcpsys.c:431`); `GoodCall` is about calls whose
  messages are in time.

Lines:

* On OS/2 `need_out_flush` is never set, so `w_flush` never waits, though
  `sysend` says "Wait for it to be transmitted" (`dcpsys.c:358`); `carrier` and
  `sread` forget `NoCheckCarrier`; `write_block` waits for ever without a look at
  the carrier; `s_w_purge` is empty, so old output stays for the next call.
* The time stamp of a missing carrier is kept between looks that are far apart:
  two short blinks are a loss (`fossil.c:113`; `NoFalseLoss` names that case).
* `w_flush` resets `need_out_flush` before it waits, so after a failure the next
  one reports success (`ulib.c:896-916`).
* `grpack` computes the time that is left as `timeout - now - start`, which is
  always negative (`dcpgpkt.c:1272`).
* `writetcp`: a CR that is cut from its NUL is sent twice; a short write with an
  inserted byte pending loses data or reports too much; the refusal of an option
  may go between the halves of a pair.  `readtcp` takes a byte after a one-byte
  command as data.  `TelnetClear` excludes these cases by name (`miscounted`, `rawdata`).

Programs of one machine:

* An update of the status file is undone if it has the time stamp of the file that
  the next to write knows (`hostatus.c:116`; stamps are two seconds apart on DOS),
  or if that one has seen it torn, as it started, with the stamp that it has in the
  end; what a writer that died has torn is lost.  `NewestKept` leaves out these two
  cases by name (`view[x] \in {"same", "torn"}`).  `HostReset` (`uusub`) does not load
  the file again before it writes (`hostrset.c:124`), so it writes back what it read
  long ago: `NewestKept` is about `uucico` processes.
* `dcupdate` returns without giving back the host's lock if it cannot lock or
  open the status file (`dcpstats.c:138-154`).
* After another process has rewritten the file, `HostStatus` replaces "called" in
  memory by what the file has, and the host may be called again
  (`hostatus.c:203`).
* `uustat -r` changes nothing (`uustat.c:1227`) though its usage says "Refreshes
  timestamps"; `uustat` panics or stops if `uucico` deletes a call file between
  `readnext` and its opening; a kill that meets a session, or dies half way, sends
  the command without its data; a data file that is being sent cannot be deleted
  and stays without its job (it is reported).
* Hosts that agree in their first seven characters share a spool directory.

Execution and mail:

* A crash in a batch delivers its first mails again (`OncePerRun` allows just
  that), and a batch with a refused mail goes to `bad.job` with the others
  delivered.  The X. file is deleted before the D. file, so a crash between the
  two leaves an orphan (`uuxqt.c:632`).
* A mail of length 0 swallows the next header (`uuxqt.c:1545`); a batch whose
  errors could be resynchronised is reported as good.
* `rbmail` writes nothing of a mail from a ^Z on (`uuxqt.c:1582-1584`), but goes on
  with the checksum, which agrees: the mail is cut, no error is counted and the
  batch is deleted.  Likewise an empty line at the start of a mail is counted and
  not written (`uuxqt.c:1555-1559`).  `BatchSafe` names both.
* On OS/2, `sendone` makes the exit code of `uux` out of `(i>>8) & (i<<8)`, which is
  always 0 (`sendone.c:1035`): if `uux` fails, nothing is queued, and the mail
  counts as sent (`UuxUnseen`).  `Told` takes such an addressee for served.
* With a blank return address, mail that could not be delivered is reported to
  nobody, not even to the postmaster (`*retaddr`, `pcmail.c:595`), and a refusal
  is not in the exit code either.  `Told` leaves a blank return address out.
* A forward file's error return drops the addresses gathered so far;
  `ProcessForward` stays set after a bad forward file; `AliasLoop` finds only
  aliases of themselves, and longer loops of routes or aliases end in `bugout`.
* `loadhost` drops the last entry of the table (`hostable.c:632`).
* For a host whose alias or route ends at a host the table lacks, `HostPath` notes
  the path that the first address with it came by (`address.c:554-560`), and
  later addresses go that way too; and in a circle of aliases or routes, the answer
  is the host before the one asked first.  `OnePath` is about tables that lead
  somewhere (`Leads`).

Names:

* The code 7 stands for the local host's name of seven characters and for a
  remote's name of one (`import.c:363`, `export.c:191`): two files collide and
  `exportpath` panics.  `NamesSafe` leaves names of one letter out.
* A name that begins with no host's name is coded with a leading 0, which is
  lost; `ImportName` leaves a name unterminated in two cases
  (`import.c:536-546`); grades outside `"` to `z` are out of the code's range.

## 7. Assumptions

* A line keeps the order of packets (serial lines and TCP do).  A checksum or
  header that is damaged is detected.
* Disk operations are atomic except a RENAME across drives (a copy) and the
  rewriting of the status file; a crash may also come between `reof`'s `unlink` and
  its RENAME.  What a spool file holds reaches the disk when
  it is closed (it is shorter than a stdio buffer).  Opening the status file to read
  does not fail.
* `Status`: SHARE is on (without it `LockSystem` locks nothing, `lock.c:174-183`);
  a torn status file loads nothing (the code then reads lengths that were never
  set, `hostatus.c:137-145`).
* `Spool`: no second passes while numbers are taken from the clock.
* `Rbmail`: no mail is empty; the `.ERR` file can be created.
* `Call`: a call window is open or closed for a whole run; what two systems say
  to one another once connected is one step.
* `TPacket`: what `Nbytes` holds when nothing has been read into it is any length
  of the model; a negative length does not come.
* `Routing`: `E_fromdomain` is not set apart from `E_domain`; the HostPath of a
  whole bang path is not found; hosts have names, without an exclamation mark in
  them (`HostNames`).
* `Ustat`: hosts differ in their first seven characters; a job's file name is
  taken for the job (`Names` is the model of that).
* `Line`: one program uses the port; characters are counted, not told apart.

## 8. Not modelled, and what is left

Not modelled, or in part (`PROJECT.json` gives the reason for each component):

* the interrupt-driven driver (`commfifo.asm`, `mx5.c`): assembler for one chip;
  its faults are those of the line in `GPacket` and `GHandshake`;
* MIME, KOI-8 and header rewriting: text to text, no state that lasts;
* the display of `screen.c`, the swapper, the parsing of options and tables:
  done before anything runs concurrently, or without effect on what does;
* the parsing of call windows and grades (`checktim.c`), the matching of expect
  strings and their escapes (`script.c`), the set-up of ports;
* `uux`'s copies from remote sources, `uucp`, `batch` and `uupoll`, which queue by
  the steps that `Spool` has for `uux` or wait around `uucico`;
* the environment and the list of permitted commands of `uuxqt`, and rnews's
  hand-over.

Left of the plan: reference definitions for call windows (over midnight and the
week's end) and for the matching of expect strings; a composition of `Line` and
`GPacket` in one model (too many states for TLC at present: each is checked
against what the other assumes of it).  Worth trying next: an abstract
specification of a call as a whole that `Conv` implements; what the theorems about
`Line` and `Call` assume of each other, stated as one.
