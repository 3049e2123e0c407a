------------------------------- MODULE Rbmail -------------------------------
(***************************************************************************)
(* rbmail: taking a batch of mails apart (rbmail, rcbmail and rzbmail      *)
(* commands of uuxqt).                                                     *)
(*                                                                         *)
(* Before each mail the batch has a header line with its length, its       *)
(* checksum and its addresses.  A batch may be damaged on its way; rbmail  *)
(* then copies what it cannot make out to an .ERR file in bad.job and goes *)
(* on at the next line that looks like a header, going back in the batch   *)
(* when a mail's length may have led it astray.                            *)
(*                                                                         *)
(* The unit is the line.  Lines are told apart by where they come from; a  *)
(* checksum agrees if the lines taken are just those it was made of.       *)
(***************************************************************************)
EXTENDS Integers, Sequences

CONSTANTS
    Lengths,    \* Lengths[k]: lines of mail k that were sent
    Nested,     \* mails whose first line looks like a header itself
    EmptyFirst, \* mails whose first line is empty
    CtrlZ,      \* lines of a mail with a ^Z in them: <<mail, line>>
    Batches,    \* what may arrive: any lines of the mails, damaged or not
    MaxRefused, \* bound: mails rmail refuses
    TempKept    \* the mail is in a file (MS-DOS) and not in a pipe (OS/2)

MailIds == 1..Len(Lengths)

(***************************************************************************)
(* Lines.  kind says what valid() and the parsing of a header make of it:  *)
(* a "header", one that only looks like it ("likeness": no addresses, say) *)
(* or "text".  Line n of mail of, its header for n = 0; len is what a      *)
(* header announces; sound tells an undamaged line.                        *)
(***************************************************************************)
BatchLines == [kind : {"header", "likeness", "text"}, of : MailIds, n : Nat,
               len : Nat, sound : BOOLEAN]

ASSUME RbmailAssumption ==
    /\ Lengths \in Seq(Nat \ {0}) /\ Nested \subseteq MailIds
    /\ EmptyFirst \subseteq MailIds \ Nested /\ CtrlZ \subseteq MailIds \X Nat
    /\ Batches \subseteq Seq(BatchLines)
    /\ MaxRefused \in Nat /\ TempKept \in BOOLEAN

BatchLine(kind, of, n, len) ==
    [kind |-> kind, of |-> of, n |-> n, len |-> len, sound |-> TRUE]

Body(k) == [n \in 1..Lengths[k] |->
              IF n = 1 /\ k \in Nested THEN BatchLine("header", k, n, 1)
                                       ELSE BatchLine("text", k, n, 0)]
MailOf(k) == <<BatchLine("header", k, 0, Lengths[k])>> \o Body(k)

VARIABLES
    rbatch,    \* the batch
    rbpc,      \* "header", "parse", "body", "rmail", "resync" or "done"
    pos,       \* the next line to be read
    header,    \* the line being parsed as a header
    temp,      \* lines written to rmail's input
    agrees,    \* its checksum is right
    saveseek,  \* where to go on after an error (0: no such place yet)
    syncflg,   \* look for a header again
    err,       \* lines copied to the .ERR file
    handed,    \* mails delivered: line of the header, lines rmail got, checksum agrees
    returned,  \* what rbmail returned
    refused    \* mails that rmail has refused

rbVars == <<rbatch, rbpc, pos, header, temp, agrees, saveseek, syncflg, err,
            handed, returned, refused>>

Where == 0..(Len(rbatch) + 1)
HandedMails == [at : Where, lines : SUBSET Where, agrees : BOOLEAN]

RbTypeOK ==
    /\ rbatch \in Seq(BatchLines)
    /\ rbpc \in {"header", "parse", "body", "rmail", "resync", "done"}
    /\ pos \in Where /\ header \in Where /\ saveseek \in Where
    /\ rbpc = "rmail" => header < saveseek /\ saveseek <= pos
    /\ temp \subseteq Where /\ err \subseteq Where
    /\ agrees \in BOOLEAN /\ syncflg \in BOOLEAN
    /\ handed \in Seq(HandedMails)
    /\ returned \in {0, 1} /\ refused \in 0..MaxRefused

RbStart ==
    /\ rbpc = "header" /\ pos = 1 /\ header = 0 /\ temp = {} /\ agrees = FALSE
    /\ saveseek = 0 /\ syncflg = FALSE /\ err = {} /\ handed = <<>>
    /\ returned = 0 /\ refused = 0
RbInit == rbatch \in Batches /\ RbStart

AtEnd == pos > Len(rbatch)

-----------------------------------------------------------------------------
(***************************************************************************)
(* Errors: what has been read of the mail goes to the .ERR file, and the   *)
(* rest of the batch up to the next header (filesync) or the whole rest    *)
(* (copy_on_error).                                                        *)
(***************************************************************************)

FileSync(bad) ==
    /\ syncflg' = TRUE
    /\ pos' = IF saveseek = 0 THEN pos ELSE saveseek
    /\ err' = err \cup bad
    /\ rbpc' = "resync"

CopyOnError(bad) ==
    /\ syncflg' = FALSE
    /\ err' = err \cup bad
    /\ rbpc' = "resync"

WhatFailed == {header} \cup (IF TempKept THEN temp ELSE {})

-----------------------------------------------------------------------------
\* The next header, or the end of the batch.
NextHeader ==
    /\ rbpc = "header"
    /\ IF AtEnd THEN rbpc' = "done" /\ UNCHANGED <<pos, header>>
       ELSE rbpc' = "parse" /\ header' = pos /\ pos' = pos + 1
    /\ UNCHANGED <<rbatch, temp, agrees, saveseek, syncflg, err, handed,
                   returned, refused>>

\* The header makes sense.
GoodHeader ==
    /\ rbpc = "parse" /\ rbatch[header].kind = "header"
    /\ rbpc' = "body"
    /\ UNCHANGED <<rbatch, pos, header, temp, agrees, saveseek, syncflg, err,
                   handed, returned, refused>>

BadHeader ==
    /\ rbpc = "parse" /\ rbatch[header].kind # "header"
    /\ FileSync({header})
    /\ UNCHANGED <<rbatch, header, temp, agrees, saveseek, handed, returned,
                   refused>>

HasCtrlZ(l)     == l.sound /\ <<l.of, l.n>> \in CtrlZ
IsEmptyFirst(l) == l.sound /\ l.n = 1 /\ l.of \in EmptyFirst

\* Of the lines i..j of a mail, those that rmail's input has in full: an empty
\* first line is left out, and nothing is written from a ^Z on.
ToRmail(i, j) ==
    {k \in i..j : /\ ~(k = i /\ IsEmptyFirst(rbatch[k]))
                  /\ \A m \in i..k : ~HasCtrlZ(rbatch[m])}

\* Of the lines announced, what there is.
Taken(len) == IF len < Len(rbatch) - pos + 1 THEN len ELSE Len(rbatch) - pos + 1

\* Mutant: the place to come back to is lost.
TakeMail_NoSeek ==
    LET first == rbatch[header]
        n     == Taken(first.len)
        lines == SubSeq(rbatch, pos, pos + n - 1)
        ok    == first.n = 0 /\ n = first.len /\ lines = Body(first.of)
    IN  /\ rbpc = "body" /\ ~AtEnd
        /\ temp' = ToRmail(pos, pos + n - 1)
        /\ agrees' = ok
        /\ pos' = IF n = 0 THEN pos + 1 ELSE pos + n
        /\ saveseek' = pos'
        /\ rbpc' = "rmail"
        /\ UNCHANGED <<rbatch, header, syncflg, err, handed, returned, refused>>

\* The mail: the lines announced, of which the first is read in any case.  All
\* of them, and that they are there, count for the checksum, those not written
\* too.  One comes back to them unless it agrees.
TakeMail ==
    LET first == rbatch[header]
        n     == Taken(first.len)
        lines == SubSeq(rbatch, pos, pos + n - 1)
        ok    == first.n = 0 /\ n = first.len /\ lines = Body(first.of)
    IN  /\ rbpc = "body" /\ ~AtEnd
        /\ temp' = ToRmail(pos, pos + n - 1)
        /\ agrees' = ok
        /\ pos' = IF n = 0 THEN pos + 1 ELSE pos + n
        /\ saveseek' = IF ok THEN pos' ELSE pos
        /\ rbpc' = "rmail"
        /\ UNCHANGED <<rbatch, header, syncflg, err, handed, returned, refused>>

\* The batch ends with a header.
NoMail ==
    /\ rbpc = "body" /\ AtEnd
    /\ saveseek' = pos /\ temp' = {}
    /\ CopyOnError({header})
    /\ UNCHANGED <<rbatch, pos, header, agrees, handed, returned, refused>>

\* rmail delivers the mail, with a warning in it if the checksum is wrong.
HandOver ==
    /\ rbpc = "rmail"
    /\ handed' = Append(handed, [at |-> header, lines |-> temp,
                                 agrees |-> agrees])
    /\ IF agrees THEN rbpc' = "header" /\ UNCHANGED <<pos, syncflg, err>>
                 ELSE FileSync(WhatFailed)
    /\ UNCHANGED <<rbatch, header, temp, agrees, saveseek, returned, refused>>

\* rmail fails or cannot be started.
RmailFails ==
    /\ rbpc = "rmail" /\ refused < MaxRefused
    /\ refused' = refused + 1
    /\ CopyOnError(WhatFailed)
    /\ UNCHANGED <<rbatch, pos, header, temp, agrees, saveseek, handed,
                   returned>>

\* A line on the way to the next header.
SkipLine ==
    /\ rbpc = "resync" /\ ~AtEnd
    /\ ~(syncflg /\ rbatch[pos].kind # "text")
    /\ err' = err \cup {pos}
    /\ saveseek' = pos + 1 /\ pos' = pos + 1
    /\ UNCHANGED <<rbatch, rbpc, header, temp, agrees, syncflg, handed,
                   returned, refused>>

\* A line that looks like a header.
Rescan ==
    /\ rbpc = "resync" /\ ~AtEnd
    /\ syncflg /\ rbatch[pos].kind # "text"
    /\ header' = pos /\ saveseek' = pos + 1 /\ pos' = pos + 1
    /\ rbpc' = "parse"
    /\ UNCHANGED <<rbatch, temp, agrees, syncflg, err, handed, returned,
                   refused>>

\* None to be found: the postmaster is told and the whole batch stays in
\* bad.job.
GiveUp ==
    /\ rbpc = "resync" /\ AtEnd
    /\ returned' = 1 /\ rbpc' = "done"
    /\ UNCHANGED <<rbatch, pos, header, temp, agrees, saveseek, syncflg, err,
                   handed, refused>>

Reads == \/ NextHeader \/ GoodHeader \/ BadHeader \/ TakeMail \/ NoMail
         \/ HandOver \/ SkipLine \/ Rescan \/ GiveUp

RbNext == Reads \/ RmailFails

RbSpec == RbInit /\ [][RbNext]_rbVars

-----------------------------------------------------------------------------
(***************************************************************************)
(* Properties                                                              *)
(***************************************************************************)

\* Lines at .. at + Lengths[k] are mail k as it was sent.
Intact(k, at) == /\ at + Lengths[k] <= Len(rbatch)
                 /\ SubSeq(rbatch, at, at + Lengths[k]) = MailOf(k)

\* The batch consists of such mails.
Undamaged == \A i \in DOMAIN rbatch : \E k \in MailIds, at \in 1..i :
                Intact(k, at) /\ i <= at + Lengths[k]

\* What can be delivered of mail k that begins at line at: the code itself
\* leaves out an empty first line, and all from a ^Z on.
Deliverable(k, at) ==
    {i \in (at + 1)..(at + Lengths[k]) :
        /\ ~(i = at + 1 /\ k \in EmptyFirst)
        /\ \A m \in (at + 1)..i : <<k, m - at>> \notin CtrlZ}

\* Mail k that begins at line at has been delivered: as it was sent, if it has
\* neither.
Delivered(k, at) ==
    \E i \in DOMAIN handed : /\ handed[i].at = at /\ handed[i].agrees
                             /\ handed[i].lines = Deliverable(k, at)

\* Whatever happened to the rest of the batch, a mail that arrived as it was
\* sent is delivered as such, once, unless rmail refused a mail; and a batch
\* that arrived as it was sent leaves no error (the seeks of rbmail).
IntactDelivered ==
    rbpc = "done" /\ refused = 0 =>
       /\ \A k \in MailIds, at \in DOMAIN rbatch :
             Intact(k, at) => Delivered(k, at)
       /\ Undamaged => err = {} /\ returned = 0

\* The code takes line i for a part of mail m, and does not write it.
Swallowed(m, i) ==
    /\ m.agrees /\ i \in (m.at + 1)..(m.at + rbatch[m.at].len)
    /\ \/ i = m.at + 1 /\ IsEmptyFirst(rbatch[i])
       \/ \E j \in (m.at + 1)..i : HasCtrlZ(rbatch[j])

\* Line i is in the .ERR file or in a mail that has been delivered, or has been
\* swallowed.
Accounted(i) ==
    \/ i \in err
    \/ \E m \in DOMAIN handed : \/ i = handed[m].at \/ i \in handed[m].lines
                                \/ Swallowed(handed[m], i)

\* A batch is deleted (0 returned) only if each of its lines has been delivered
\* or is in the .ERR file, but for what a ^Z or an empty first line costs.
NothingDropped ==
    rbpc = "done" /\ returned = 0 => \A i \in DOMAIN rbatch : Accounted(i)

\* Going back in the batch delivers no mail a second time.
OnceInOrder ==
    \A i, j \in DOMAIN handed : i < j => handed[i].at < handed[j].at

\* No mail of a batch is lost, cut or delivered twice, whatever has happened to
\* the rest of the batch (rbmail's seeks).  Two kinds of mails are cut by the
\* code itself, and named in Deliverable and Swallowed: those with a ^Z in them
\* and those that begin with an empty line.
BatchSafe == RbTypeOK /\ IntactDelivered /\ NothingDropped /\ OnceInOrder
=============================================================================
