-------------------------------- MODULE Mail --------------------------------
(***************************************************************************)
(* rmail: one message to its addressees (lmail of rmail/pcmail.c, sendone  *)
(* of rmail/sendone.c).                                                    *)
(*                                                                         *)
(* lmail takes the addresses one by one.  Those on the same path to        *)
(* another host are gathered and handed to uux together; every other one   *)
(* is delivered at once.  A user's forward file turns one delivery into    *)
(* many, by calls of sendone from within sendone, as deep as MAXHOPS.      *)
(* sendone answers 1 (done), 2 (done by a gateway for another system), 0   *)
(* (refused for good) or -1 (a fault of ours).  What could not be          *)
(* delivered is reported to the return addresses and to the postmaster; a  *)
(* fault of ours makes the exit code tell the caller.                      *)
(***************************************************************************)
EXTENDS Routing

CONSTANTS
    Cases,      \* what a run may start from, see MailInit
    Postmaster, \* mastername
    MAXHOPS,    \* bound: sendone within sendone, and hosts the mail has passed
    LISTSIZ,    \* how many addresses fit in one list
    MaxMishaps  \* bound: mishaps of disk, program or memory

ASSUME MailAssumption ==
    /\ MAXHOPS \in Nat \ {0} /\ LISTSIZ \in Nat \ {0} /\ MaxMishaps \in Nat
    /\ Postmaster \in STRING

VARIABLES
    case,     \* the configuration and the message: see MailInit
    rt,       \* the host table
    stage,    \* "args", "flush", "report", "bounce", "master" or "done"
    next,     \* the next argument, and after them the next return address
    remotes,  \* [addrs, path, for]: addresses gathered by lmail
    call,     \* the call of sendone to be made, or Null
    batch,    \* what lmail has called sendone for: [addrs, kind], or Null
    stack,    \* forward files being worked through, innermost last
    ret,      \* what the last sendone returned, or Null
    ProcessForward,
    out,      \* deliveries, in order, and those lost unseen
    unsent,   \* addresses to be reported
    local,    \* some addressee has got it on this host: WasLocal
    nosend, errcnt,
    mishaps

mailVars == <<case, rt, stage, next, remotes, call, batch, stack, ret, ProcessForward,
          out, unsent, local, nosend, errcnt, mishaps>>

Nobody == [addrs |-> <<>>, path |-> NoPath, for |-> {}]
Results == {-1, 0, 1, 2}

ASSUME NullAssumption == Null \notin Results

(***************************************************************************)
(* A case: the files SYSTEMS and PATHS, the users with their forward files *)
(* (<<>> if there is none) and those whose mail goes to a program, the     *)
(* arguments, the hops the mail has made, whether it asks for a receipt,   *)
(* and the system.  The return addresses are those of Return-Receipt-To or *)
(* the sender, as far as there is an address in it ("<>" is none); blank   *)
(* if there is not even text.  The postmaster is a user with a mailbox.    *)
(***************************************************************************)
ASSUME CasesAssumption ==
    \A c \in Cases :
        /\ c.systems \in Seq(HostNames) /\ c.paths \in Seq(PathLines)
        /\ c.args \in Seq(Addresses) /\ c.hops \in Nat /\ c.os2 \in BOOLEAN
        /\ c.returns \in Seq(Addresses) /\ c.blank \in BOOLEAN
        /\ c.blank => c.returns = <<>> /\ ~c.receipt
        /\ \A u \in DOMAIN c.forward : c.forward[u] \in Seq(Addresses)
        /\ Postmaster \in DOMAIN c.forward /\ c.forward[Postmaster] = <<>>
        /\ Postmaster \notin c.filters

MailInit ==
    /\ case \in Cases
    /\ rt = loadhost(case.systems, case.paths)
    /\ stage = "args" /\ next = 1
    /\ remotes = Nobody /\ call = Null /\ batch = Null
    /\ stack = <<>> /\ ret = Null
    /\ ProcessForward = FALSE
    /\ out = <<>> /\ unsent = {} /\ local = FALSE
    /\ nosend = (IF case.args = <<>> THEN 1 ELSE 0) /\ errcnt = 0 /\ mishaps = 0

Users == DOMAIN case.forward
Call(addrs, kind, hop, for) == [addrs |-> addrs, kind |-> kind, hop |-> hop, for |-> for]

\* lmail waits for nothing; the innermost sendone is working on a list.
InLmail   == stack = <<>> /\ call = Null /\ ret = Null
InForward == stack # <<>> /\ call = Null /\ ret = Null

lmailvars  == <<stage, next, remotes, batch, unsent, local, nosend, errcnt>>

-----------------------------------------------------------------------------
(***************************************************************************)
(* sendone: refusals, the forward file, the delivery.                      *)
(***************************************************************************)
Return(c, r) == /\ call' = Null /\ ret' = r

\* ++hop > MAXHOPS
TooManyHops ==
    /\ call # Null /\ call.hop + 1 > MAXHOPS
    /\ Return(call, 0)
    /\ UNCHANGED <<case, rt, lmailvars, stack, ProcessForward, out, mishaps>>

Within == call # Null /\ call.hop + 1 <= MAXHOPS

\* The user of a local call: a mark that means something is a mark, any
\* other one is part of an unknown user's name.
Local  == Within /\ call.kind = "local"
Addr   == IF call.kind = "local" THEN user_at_node(rt, Head(call.addrs)).user
                               ELSE Head(call.addrs)
ToFile == Addr.mark = "+" /\ ProcessForward
Known  == ~ToFile /\ Addr.mark # "+" /\ Addr.user \in Users

NoSuchUser ==
    /\ Local /\ ~ToFile /\ ~Known
    /\ Return(call, 0)
    /\ UNCHANGED <<case, rt, lmailvars, stack, ProcessForward, out, mishaps>>

Forwards == Local /\ Known /\ Addr.mark = "" /\ case.forward[Addr.user] # <<>>

\* AliasLoop looks for the user himself only.
AliasLoop(r, user) == r.kind = "local" /\ r.addr = Person(user)

\* An address of a forward file, without the path up to ourselves;
\* Nothing stands for an address of which nothing is left.
Nothing == Address(<<>>, <<>>, "", Null, Null)
Bad(a)  == a.user = Null

\* The path of a list that begins with an address; only remote ones have one.
ListPath(r, p) == IF r.kind = "remote" THEN p.path ELSE NoPath

\* The work on a forward file whose first address has been looked up.
OpenedFrame(list, r, p) ==
    [user |-> Addr.user, rest |-> Tail(list), pcoll |-> <<r.addr>>, kind |-> r.kind,
     path |-> ListPath(r, p), status |-> 0, hop |-> call.hop + 1, for |-> call.for, old |-> ProcessForward]

(***************************************************************************)
(* The first address of the forward file.  Only now is the meaning of "+"  *)
(* turned on for the list.  rmail ends, here and wherever it looks an      *)
(* address up, if the routes run in a circle ("panic").                    *)
(***************************************************************************)
OpenForward ==
    /\ Forwards
    /\ \E list \in {case.forward[Addr.user]} : \E a \in {AfterOwn(Head(list))} :
       \E r \in {remote_address(rt, a)} : \E p \in {user_at_node(r.rt, r.addr)} :
        /\ Bad(a) \/ r.kind # "panic"
        /\ IF Bad(a) \/ AliasLoop(r, Addr.user)
           THEN /\ Return(call, 0)
                /\ rt' = IF Bad(a) THEN rt ELSE r.rt
                /\ UNCHANGED <<stack, ProcessForward>>
           ELSE /\ stack' = Append(stack, OpenedFrame(list, r, p))
                /\ ProcessForward' = TRUE
                /\ rt' = IF r.kind = "remote" THEN p.rt ELSE r.rt
                /\ call' = Null /\ UNCHANGED ret
    /\ UNCHANGED <<case, lmailvars, out, mishaps>>

Top == Last(stack)
Put(f) == stack' = Append(Front(stack), f)

\* sendone returns from its forward file.
ReturnForward(r) ==
    /\ stack' = Front(stack)
    /\ ret' = r

(***************************************************************************)
(* The next address: it joins those gathered if it is remote on the same   *)
(* path and fits, or else they are sent first.                             *)
(***************************************************************************)
Joins_AnyPath(f, kind, path) ==
    kind = "remote" /\ f.kind = "remote" /\ Len(f.pcoll) < LISTSIZ

Joins(f, kind, path) ==
    /\ kind = "remote" /\ f.kind = "remote" /\ path = f.path
    /\ Len(f.pcoll) < LISTSIZ

Gathered(f, r) == [f EXCEPT !.rest = Tail(@), !.pcoll = Append(@, r.addr)]
Anew(f, r, p) == [f EXCEPT !.rest = Tail(@), !.pcoll = <<r.addr>>, !.kind = r.kind,
                           !.path = ListPath(r, p)]

ForwardNext ==
    /\ InForward /\ Top.rest # <<>>
    /\ \E f \in {Top} : \E a \in {AfterOwn(Head(f.rest))} :
       \E r \in {remote_address(rt, a)} : \E p \in {user_at_node(r.rt, r.addr)} :
           \/ /\ Bad(a) \* ProcessForward is left as it is
              /\ ReturnForward(0) /\ UNCHANGED <<ProcessForward, call, rt>>
           \/ /\ ~Bad(a) /\ r.kind # "panic" /\ AliasLoop(r, f.user)
              /\ ReturnForward(0) /\ ProcessForward' = f.old
              /\ rt' = r.rt /\ UNCHANGED call
           \/ /\ ~Bad(a) /\ r.kind # "panic" /\ ~AliasLoop(r, f.user)
              /\ rt' = IF r.kind = "remote" THEN p.rt ELSE r.rt
              /\ \/ Joins(f, r.kind, ListPath(r, p)) /\ Put(Gathered(f, r)) /\ UNCHANGED call
                 \/ /\ ~Joins(f, r.kind, ListPath(r, p)) /\ Put(Anew(f, r, p))
                    /\ call' = Call(f.pcoll, f.kind, f.hop, f.for)
              /\ UNCHANGED <<ret, ProcessForward>>
    /\ UNCHANGED <<case, lmailvars, out, mishaps>>

\* The end of the list: what is gathered is sent, then sendone returns.
\* A lone address is forgotten.
Pending_Several(pcoll) == Len(pcoll) > 1
\* Something is left to send.
Pending(pcoll) == pcoll # <<>>

ForwardLast ==
    /\ InForward /\ Top.rest = <<>> /\ Pending(Top.pcoll)
    /\ call' = Call(Top.pcoll, Top.kind, Top.hop, Top.for)
    /\ Put([Top EXCEPT !.pcoll = <<>>])
    /\ UNCHANGED <<case, rt, lmailvars, ret, ProcessForward, out, mishaps>>

ForwardEnd ==
    /\ InForward /\ Top.rest = <<>> /\ ~Pending(Top.pcoll)
    /\ ReturnForward(Top.status) /\ ProcessForward' = Top.old
    /\ UNCHANGED <<case, rt, lmailvars, call, out, mishaps>>

\* A 0 of a call from within does not count once another one went well.
ForwardReturned ==
    /\ stack # <<>> /\ call = Null /\ ret # Null
    /\ Put([Top EXCEPT !.status = IF ret # 0 THEN ret ELSE @])
    /\ ret' = Null
    /\ UNCHANGED <<case, rt, lmailvars, call, ProcessForward, out, mishaps>>

(***************************************************************************)
(* The delivery.  A remote list is written for the path of its first       *)
(* address, which is looked up again.                                      *)
(***************************************************************************)
What == IF stage = "bounce" THEN "report" ELSE IF stage = "master" THEN "notice" ELSE "mail"
Delivers == Within /\ ~Forwards /\ ~(Local /\ ~ToFile /\ ~Known)

Program ==
    /\ Delivers
    /\ call.kind = "gateway" \/ (Local /\ Known /\ Addr.user \in case.filters)

\* What has been written, and to whom; result is what sendone returns.
Written(result) ==
    /\ Delivers
    /\ \E r \in {user_at_node(rt, Addr)} :
           /\ rt' = r.rt
           /\ out' = Append(out, [what |-> What, kind |-> call.kind, addrs |-> call.addrs,
                                  path |-> r.path, for |-> call.for, forwarded |-> stack # <<>>])
    /\ Return(call, result)
    /\ UNCHANGED <<case, lmailvars, stack, ProcessForward, mishaps>>

\* A mailbox, or a file: appended to under a lock.
ToMailbox == Written(1) /\ call.kind = "local" /\ ~Program

\* One job of uux, with the addresses on its standard input.
ToUux == Written(1) /\ call.kind = "remote"

\* A filter or a gateway program, whose exit code 48 says that it has passed
\* the mail on to another system.
ToProgram == Program /\ \E exit \in {0, 48} : Written(IF exit = 48 THEN 2 ELSE 1)

\* What ends a delivery early: nothing is delivered.
NotWritten(result) ==
    /\ Delivers /\ mishaps < MaxMishaps
    /\ mishaps' = mishaps + 1
    /\ rt' = user_at_node(rt, Addr).rt
    /\ Return(call, result)
    /\ UNCHANGED <<case, lmailvars, stack, ProcessForward, out>>

\* No temporary file, no mailbox, a full disk, uux or the program not found, or
\* on DOS, uux says that it has failed.
DeliverFails == NotWritten(-1)

\* On OS/2 what uux says is lost: a uux that fails has queued nothing and counts
\* as done.
UuxUnseen ==
    /\ case.os2 /\ call # Null /\ call.kind = "remote" /\ Delivers
    /\ mishaps < MaxMishaps /\ mishaps' = mishaps + 1
    /\ \E r \in {user_at_node(rt, Addr)} :
           /\ rt' = r.rt
           /\ out' = Append(out, [what |-> "lost", kind |-> call.kind, addrs |-> call.addrs,
                                  path |-> r.path, for |-> call.for, forwarded |-> stack # <<>>])
    /\ Return(call, 1)
    /\ UNCHANGED <<case, lmailvars, stack, ProcessForward>>

\* The program says no.
ProgramRefuses == Program /\ NotWritten(0)

sendone == TooManyHops \/ NoSuchUser \/ OpenForward \/ ForwardNext \/ ForwardLast
             \/ ForwardEnd \/ ForwardReturned \/ ToMailbox \/ ToUux \/ ToProgram
             \/ DeliverFails \/ UuxUnseen \/ ProgramRefuses

-----------------------------------------------------------------------------
(***************************************************************************)
(* lmail: the arguments.                                                   *)
(***************************************************************************)
Argument == Stripped(case.args[next])

\* With -m, not the sender himself.
SkipMe ==
    /\ stage = "args" /\ InLmail /\ next <= Len(case.args)
    /\ Argument \in case.skip
    /\ next' = next + 1
    /\ UNCHANGED <<case, rt, stage, remotes, call, batch, stack, ret, ProcessForward, out,
                   unsent, local, nosend, errcnt, mishaps>>

\* A remote address joins those of the same path; the list is sent first if
\* it is full or on another path.
TakeRemote ==
    /\ stage = "args" /\ InLmail /\ next <= Len(case.args)
    /\ Argument \notin case.skip
    /\ \E r \in {remote_address(rt, Argument)} : \E p \in {user_at_node(r.rt, r.addr)} :
       LET joins == p.path = remotes.path /\ Len(remotes.addrs) < LISTSIZ
       IN  /\ r.kind = "remote"
           /\ rt' = p.rt
           /\ IF remotes.addrs = <<>> \/ joins
              THEN /\ remotes' = [addrs |-> Append(remotes.addrs, r.addr), path |-> p.path,
                                  for |-> remotes.for \cup {next}]
                   /\ UNCHANGED <<call, batch>>
              ELSE /\ remotes' = [addrs |-> <<r.addr>>, path |-> p.path, for |-> {next}]
                   /\ call' = Call(remotes.addrs, "remote", case.hops, remotes.for)
                   /\ batch' = [addrs |-> remotes.addrs, kind |-> "remote"]
    /\ next' = next + 1
    /\ UNCHANGED <<case, stage, stack, ret, ProcessForward, out, unsent, local, nosend, errcnt,
                   mishaps>>

\* Any other address is delivered at once.
TakeLocal ==
    /\ stage = "args" /\ InLmail /\ next <= Len(case.args)
    /\ Argument \notin case.skip
    /\ \E r \in {remote_address(rt, Argument)} :
           /\ r.kind \in {"local", "gateway"}
           /\ rt' = r.rt
           /\ call' = Call(<<r.addr>>, r.kind, case.hops, {next})
           /\ batch' = [addrs |-> <<r.addr>>, kind |-> r.kind]
    /\ next' = next + 1
    /\ UNCHANGED <<case, stage, remotes, stack, ret, ProcessForward, out, unsent, local, nosend,
                   errcnt, mishaps>>

Flush ==
    /\ stage = "args" /\ InLmail /\ next > Len(case.args)
    /\ stage' = "flush"
    /\ IF remotes.addrs = <<>> THEN UNCHANGED <<call, batch>>
       ELSE /\ call' = Call(remotes.addrs, "remote", case.hops, remotes.for)
            /\ batch' = [addrs |-> remotes.addrs, kind |-> "remote"]
    /\ remotes' = Nobody
    /\ UNCHANGED <<case, rt, next, stack, ret, ProcessForward, out, unsent, local, nosend, errcnt,
                   mishaps>>

(***************************************************************************)
(* sendone has returned to lmail: what it could not do is counted, with    *)
(* the addresses it was called for.                                        *)
(***************************************************************************)
\* The results by which an address counts as delivered on this host.
Served(kind) == CASE kind = "local" -> {1, 2} [] kind = "gateway" -> {1} [] OTHER -> {}

\* Only faults of ours are reported.
Undelivered_Faults(r) == r < 0
Undelivered(r) == r <= 0

Returned ==
    /\ stack = <<>> /\ call = Null /\ ret # Null
    /\ ret' = Null /\ batch' = Null
    /\ errcnt' = errcnt + (IF ret < 0 THEN 1 ELSE 0)
    /\ nosend' = nosend + (IF Undelivered(ret) THEN 1 ELSE 0)
    /\ unsent' = IF Undelivered(ret) /\ stage # "master" THEN unsent \cup ToSet(batch.addrs) ELSE unsent
    /\ local' = (local \/ (stage = "args" /\ ret \in Served(batch.kind)))
    /\ UNCHANGED <<case, rt, stage, next, remotes, call, stack, ProcessForward, out, mishaps>>

(***************************************************************************)
(* The report: to the return addresses, if the sender has asked for a      *)
(* receipt and some address was delivered here, or if the mail could not   *)
(* be delivered to all.  Without a return address nobody gets one.         *)
(***************************************************************************)
Due == ~case.blank /\ ((case.receipt /\ local) \/ nosend > 0)
LastReturn == Len(case.args) + Len(case.returns)

\* If there is no address in what should have one, that counts as a failure.
Report ==
    /\ stage = "flush" /\ InLmail /\ Due
    /\ stage' = "bounce"
    /\ nosend' = nosend + (IF case.returns = <<>> THEN 1 ELSE 0)
    /\ UNCHANGED <<case, rt, next, remotes, call, batch, stack, ret, ProcessForward, out, unsent,
                   local, errcnt, mishaps>>

\* One of them; one that names only our own host cannot be told.
ToReturn ==
    /\ stage = "bounce" /\ InLmail /\ next \in (Len(case.args) + 1)..LastReturn
    /\ \E a \in {AfterOwn(case.returns[next - Len(case.args)])} :
       \E r \in {remote_address(rt, a)} :
         \/ /\ Bad(a)
            /\ nosend' = nosend + 1
            /\ unsent' = unsent \cup {case.returns[next - Len(case.args)]}
            /\ UNCHANGED <<rt, call, batch>>
         \/ /\ ~Bad(a) /\ r.kind # "panic"
            /\ rt' = r.rt
            /\ call' = Call(<<a>>, r.kind, case.hops, {})
            /\ batch' = [addrs |-> <<a>>, kind |-> r.kind]
            /\ UNCHANGED <<nosend, unsent>>
    /\ next' = next + 1
    /\ UNCHANGED <<case, stage, remotes, stack, ret, ProcessForward, out, local, errcnt, mishaps>>

\* Whenever something was not delivered, the postmaster hears of it too.
ToMaster ==
    /\ stage = "bounce" /\ InLmail /\ next > LastReturn /\ nosend > 0
    /\ call' = Call(<<Person(Postmaster)>>, "local", 0, {})
    /\ batch' = [addrs |-> <<Person(Postmaster)>>, kind |-> "local"]
    /\ stage' = "master"
    /\ UNCHANGED <<case, rt, next, remotes, stack, ret, ProcessForward, out, unsent, local, nosend,
                   errcnt, mishaps>>

\* The end, with an exit code that tells whether errcnt is 0.
Exit ==
    /\ InLmail
    /\ \/ stage = "flush" /\ ~Due
       \/ stage = "bounce" /\ next > LastReturn /\ nosend = 0
       \/ stage = "master"
    /\ stage' = "done"
    /\ UNCHANGED <<case, rt, next, remotes, call, batch, stack, ret, ProcessForward, out, unsent,
                   local, nosend, errcnt, mishaps>>

\* No memory or disk for the temporary file of the message or of a report:
\* rmail ends there.
NoTempFile ==
    /\ mishaps < MaxMishaps /\ InLmail
    /\ \/ stage = "args" /\ next = 1
       \/ stage = "flush" /\ Due
       \/ stage = "bounce" /\ next > LastReturn /\ nosend > 0
    /\ stage' = "done" /\ errcnt' = errcnt + 1 /\ mishaps' = mishaps + 1
    /\ UNCHANGED <<case, rt, next, remotes, call, batch, stack, ret, ProcessForward, out, unsent,
                   local, nosend>>

lmail == SkipMe \/ TakeRemote \/ TakeLocal \/ Flush \/ Returned \/ Report \/ ToReturn
           \/ ToMaster \/ Exit \/ NoTempFile

MailNext == sendone \/ lmail
MailSpec == MailInit /\ [][MailNext]_mailVars

-----------------------------------------------------------------------------
(***************************************************************************)
(* Properties.                                                             *)
(***************************************************************************)
(***************************************************************************)
(* An addressee who has got the message nowhere is reported to the sender  *)
(* or the postmaster, or rmail's exit code tells its caller, who keeps the *)
(* message.  Batching, forward files and nested errors all have a part in  *)
(* it.  Two cases are left out by name, where the code tells nobody: the   *)
(* return address is blank, and a uux that fails on OS/2.                  *)
(***************************************************************************)
Told ==
    stage = "done" =>
        \A i \in DOMAIN case.args :
            \/ Stripped(case.args[i]) \in case.skip
            \/ \E k \in DOMAIN out : out[k].what \in {"mail", "lost"} /\ i \in out[k].for
            \/ \E k \in DOMAIN out : out[k].what \in {"report", "notice"}
            \/ errcnt > 0
            \/ case.blank

\* Following onward from any entry comes to an end (0).
NoCircle(onward) == \A S \in SUBSET DOMAIN onward : S # {} => \E i \in S : onward[i] \notin S

\* The entry that an entry's alias names, and the one that its mail is passed on
\* to; 0 if it is its own or a host the table lacks.
AliasOf(t, i) == IF t[i].realname \in {Null, t[i].name} THEN 0 ELSE checkname(t, t[i].realname)

\* Mail for the entry's host goes to that host itself.
Direct(t, i) ==
    \/ t[i].status = "gatewayed"
    \/ t[i].via = t[i].name
    \/ t[i].via = Null /\ t[i].realname \in {Null, t[i].name}

PassedTo(fresh, i) ==
    LET e == fresh.hosts[i]
    IN  IF Direct(fresh.hosts, i) THEN 0
        ELSE checkname(fresh.hosts, IF e.via # Null THEN e.via ELSE HostAlias[<<fresh, e.name>>].to)

\* The table by itself leads from each of its hosts to one that mail can be handed
\* to: ourselves, one that is called, a gateway.  It does not if aliases or routes
\* run in a circle or end at a host the table lacks.
Leads(fresh) ==
    LET t == fresh.hosts
    IN  /\ NoCircle([i \in DOMAIN t |-> AliasOf(t, i)])
        /\ NoCircle([i \in DOMAIN t |-> PassedTo(fresh, i)])
        /\ \A i \in DOMAIN t :
              PassedTo(fresh, i) = 0 =>
                  Direct(t, i) /\ t[i].status \in {"localhost", "nocall", "gatewayed"}

(***************************************************************************)
(* All the addresses of a list handed to uux are on the path it is written *)
(* for, and that path is the one a table with no lookups behind it gives:  *)
(* neither the gathering of addresses nor what HostAlias and HostPath note *)
(* in the table sends an addressee's mail along another one's path.  The   *)
(* table must lead somewhere: a host that it says no way to keeps the one  *)
(* that the first address with it happened to come by.                     *)
(***************************************************************************)
OnePath ==
    stage = "done" =>
      \A fresh \in {loadhost(case.systems, case.paths)} :
        Leads(fresh) =>
          \A k \in DOMAIN out : out[k].kind = "remote" =>
            \A a \in ToSet(out[k].addrs) : user_at_node(fresh, a).path = out[k].path

Total[s \in Seq(Nat)] == IF s = <<>> THEN 0 ELSE Total[Front(s)] + Last(s)

\* How often x is in a list.
Count(s, x) == Total[[i \in DOMAIN s |-> IF s[i] = x THEN 1 ELSE 0]]

(***************************************************************************)
(* How often a message to an address is to get to x, by the forward files  *)
(* alone and within MAXHOPS; r is where the address leads.  A file ("+")   *)
(* can be named in a forward file only.                                    *)
(***************************************************************************)
IsForwarded(forward, r) ==
    /\ r.kind = "local" /\ r.addr.mark = "" /\ r.addr.user \in DOMAIN forward
    /\ forward[r.addr.user] # <<>>

MentionTurn(mentions, forward, x, r, hop) ==
    IF hop + 1 > MAXHOPS THEN 0
    ELSE IF r.kind = "local" /\ r.addr.mark # "+" /\ r.addr.user \notin DOMAIN forward THEN 0
    ELSE IF IsForwarded(forward, r)
    THEN Total[[i \in DOMAIN forward[r.addr.user] |->
                   mentions[<<AfterOwn(forward[r.addr.user][i]), hop + 1>>]]]
    ELSE IF r.addr = x THEN 1 ELSE 0

Mentions(forward, fresh, x) ==
    LET mentions[q \in Addresses \X Nat] ==
            MentionTurn(mentions, forward, x, remote_address(fresh, q[1]), q[2])
    IN  mentions

\* What x is to get for each argument, and has got in each delivery.
FileNamed(r) == r.kind = "local" /\ r.addr.mark = "+"

DueTo(fresh, x) ==
    [i \in DOMAIN case.args |->
        LET a == Stripped(case.args[i])
        IN  IF a \in case.skip \/ FileNamed(remote_address(fresh, a)) THEN 0
            ELSE Mentions(case.forward, fresh, x)[<<a, case.hops>>]]

GotBy(x) == [k \in DOMAIN out |-> IF out[k].what = "mail" THEN Count(out[k].addrs, x) ELSE 0]

\* No forward file has an address that ends its list early.
ListsAreGood(fresh) ==
    \A u \in Users : \A a \in ToSet(case.forward[u]) :
        ~Bad(AfterOwn(a)) /\ ~AliasLoop(remote_address(fresh, AfterOwn(a)), u)

\* Who is named anywhere, or has got anything.
Addressees(fresh) ==
    {remote_address(fresh, Stripped(a)).addr : a \in ToSet(case.args)}
      \cup UNION {{remote_address(fresh, AfterOwn(a)).addr : a \in ToSet(case.forward[u])} : u \in Users}
      \cup UNION {ToSet(out[k].addrs) : k \in DOMAIN out}

(***************************************************************************)
(* If nothing fails, each addressee gets the message as often as he is     *)
(* named, directly and in forward files, and nobody else gets it: gathered *)
(* addresses are neither left behind nor sent twice.                       *)
(***************************************************************************)
EveryMention ==
    \A fresh \in {loadhost(case.systems, case.paths)} :
      stage = "done" /\ mishaps = 0 /\ ListsAreGood(fresh) =>
        \A x \in Addressees(fresh) : Total[GotBy(x)] = Total[DueTo(fresh, x)]

=============================================================================
