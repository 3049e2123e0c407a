------------------------------ MODULE Routing ------------------------------
(***************************************************************************)
(* The host table of rmail and uux (lib/hostable.c) and the way an address *)
(* is resolved against it (rmail/address.c, remote_address of pcmail.c).   *)
(*                                                                         *)
(* The table is loaded from the SYSTEMS file (hosts that are called) and   *)
(* the PATHS file (routes, aliases, gateways, wildcards).  Looking a host  *)
(* up writes in the table: HostAlias and HostPath keep what they find in   *)
(* the host's entry, so that an answer may depend on the questions before. *)
(*                                                                         *)
(* A host name is the sequence of its labels, <<"mx", "dom", "net">>.  An  *)
(* address is a record of its explicit route, its bang path, its user and  *)
(* the host after the at sign.  Operators that write in the table take it  *)
(* first and return it in the field rt.                                    *)
(***************************************************************************)
EXTENDS Integers, Sequences, SequencesExt

CONSTANTS
    Null,         \* no value: a NULL pointer, an absent part of an address
    E_nodename,   \* our own host
    E_domain,     \* our own domain
    E_localdomain,
    E_mailserv    \* the default mail server, a host of SYSTEMS

\* A host is the sequence of its labels.
Hosts == Seq(STRING)

\* Answers that are no host: the empty path, which stands for a route that
\* must not be taken, and the end of the program by panic() or bugout(); no
\* host's name has an exclamation mark.
NoPath == <<>>
Panic  == <<"panic!">>

HostNames == Hosts \ {NoPath, Panic}

\* Panic has the form of a host, as the other constants have and Null has not.
ASSUME RoutingAssumption ==
    /\ Null \notin Hosts /\ Panic \in Hosts
    /\ E_nodename \in HostNames /\ E_domain \in HostNames /\ Len(E_domain) >= 2
    /\ E_localdomain \in Hosts /\ E_mailserv \in Hosts

(***************************************************************************)
(* The table: a sequence of entries.                                       *)
(***************************************************************************)
Entry(name) == [name |-> name, status |-> "phantom", realname |-> Null,
                via |-> Null, aliased |-> FALSE, routed |-> FALSE]

States == {"phantom", "nocall", "localhost", "gatewayed"}

\* An entry that has been looked up under its real name has one.
Entries == {e \in [name : Hosts, status : States, realname : Hosts \cup {Null},
                   via : Hosts \cup {Null}, aliased : BOOLEAN, routed : BOOLEAN] :
              e.aliased => e.realname # Null}

Find(t, name) == IF \E i \in DOMAIN t : t[i].name = name
                 THEN CHOOSE i \in DOMAIN t : t[i].name = name
                 ELSE 0

\* The table in which the name has an entry.
inithost(t, name) == IF Find(t, name) # 0 THEN t ELSE Append(t, Entry(name))

\* Our host and our domain, which are in the table before any file is read.
OwnHost == [Entry(E_nodename) EXCEPT !.status = "localhost", !.realname = E_nodename]

OwnEntries ==
    IF E_domain = E_nodename THEN << [OwnHost EXCEPT !.via = E_nodename] >>
    ELSE << OwnHost, [Entry(E_domain) EXCEPT !.via = E_nodename, !.realname = E_nodename] >>

\* A host of the SYSTEMS file.
LoadSystem(t, name) ==
    LET t1 == inithost(t, name)
        i  == Find(t1, name)
    IN  IF t1[i].status = "phantom" THEN [t1 EXCEPT ![i].status = "nocall"] ELSE t1

(***************************************************************************)
(* A line of the PATHS file: the host, what kind of line it is, and what   *)
(* it names ("bare": nothing).  A line at fault is reported; if its host   *)
(* is a phantom, the last entry of the table is dropped, which is that     *)
(* host's only if the line made it.                                        *)
(***************************************************************************)
PathLines == [host : HostNames, kind : {"alias", "route", "gateway"}, to : HostNames]
               \cup [host : HostNames, kind : {"bare"}, to : {Null}]

LineRefused(e, l) ==
    \/ l.kind = "bare"
    \/ l.kind = "alias" /\ e.realname # Null
    \/ l.kind \in {"route", "gateway"} /\ e.via # Null
    \/ l.kind \in {"alias", "route"} /\ Head(l.to) = "*"

LineNoted(e, l) ==
    CASE l.kind = "alias" /\ e.realname = Null -> [e EXCEPT !.realname = l.to]
      [] l.kind = "route" /\ e.via = Null      -> [e EXCEPT !.via = l.to]
      [] l.kind = "gateway" /\ e.via = Null    -> [e EXCEPT !.via = l.to,
                                                            !.status = "gatewayed"]
      [] OTHER                                 -> e

LoadPath(t, l) ==
    LET t1 == inithost(t, l.host)
        i  == Find(t1, l.host)
        e  == LineNoted(t1[i], l)
        t2 == [t1 EXCEPT ![i] = e]
    IN  IF LineRefused(t1[i], l) /\ e.status = "phantom" THEN Front(t2) ELSE t2

\* The entries after the first lines of SYSTEMS, and of PATHS after it.
FromSystems[s \in Seq(HostNames)] ==
    IF s = <<>> THEN OwnEntries ELSE LoadSystem(FromSystems[Front(s)], Last(s))

FromPaths[q \in Seq(HostNames) \X Seq(PathLines)] ==
    IF q[2] = <<>> THEN FromSystems[q[1]] ELSE LoadPath(FromPaths[<<q[1], Front(q[2])>>], Last(q[2]))

\* The table at the first lookup; nothing has been asked yet.
loadhost(systems, paths) == [hosts |-> FromPaths[<<systems, paths>>], last |-> Null]

(***************************************************************************)
(* checkname: the entry that speaks for a name, or 0.  In turn: the name,  *)
(* the name without .UUCP, the name in the local domain, and for a name    *)
(* with a domain the wildcards of its domains from the smallest upwards,   *)
(* ours being the last one tried, or else the entry "*".                   *)
(***************************************************************************)
\* The domains of a name, <<"b", "c">> and <<"c">> for <<"a", "b", "c">>.
Domains(name) == [k \in 1..(Len(name) - 1) |-> SubSeq(name, k + 1, Len(name))]

WildcardsOf(domains, ours) ==
    [k \in 1..(IF ours = {} THEN Len(domains) ELSE CHOOSE k \in ours : TRUE) |-> <<"*">> \o domains[k]]
    \o (IF ours = {} THEN << <<"*">> >> ELSE <<>>)

Wildcards(name) ==
    WildcardsOf(Domains(name), {k \in 1..(Len(name) - 1) : SubSeq(name, k + 1, Len(name)) = E_domain})

Candidates(name) ==
    <<name>>
    \o (IF Len(name) > 1 /\ Last(name) = "UUCP" THEN <<Front(name)>> ELSE <<>>)
    \o <<name \o E_localdomain>>
    \o (IF Len(name) = 1 THEN <<>> ELSE Wildcards(name))

\* The entry of the first of the names that has one.
FoundAt(t, names, known) == IF known = {} THEN 0 ELSE Find(t, names[Min(known)])
FirstOf(t, names) == FoundAt(t, names, {k \in DOMAIN names : Find(t, names[k]) # 0})

checkname(t, name) == FirstOf(t, Candidates(name))

checkreal(t, name) ==
    LET i == Find(t, name) IN IF i # 0 /\ t[i].status = "nocall" THEN i ELSE 0

(***************************************************************************)
(* Addresses.  "@h1,@h2:n1!n2!user@host" is                                *)
(*   [via |-> <<h1, h2>>, bang |-> <<n1, n2>>, mark |-> "", user |-> user, *)
(*    at |-> host];                                                        *)
(* mark is "+" or "\" if the user part begins with it.  An explicit route  *)
(* comes with a host at the end.                                           *)
(***************************************************************************)
Address(via, bang, mark, user, at) ==
    [via |-> via, bang |-> bang, mark |-> mark, user |-> user, at |-> at]
Addresses == {a \in [via : Seq(Hosts), bang : Seq(Hosts), mark : {"", "+", "\\"},
                     user : STRING \cup {Null}, at : Hosts \cup {Null}] :
                a.via # <<>> => a.bang # <<>> \/ a.at # Null}
Person(user)    == Address(<<>>, <<>>, "", user, Null)
At(user, host)  == Address(<<>>, <<>>, "", user, host)

\* A host delimiter in the address.
Delimited(a) == a.via # <<>> \/ a.bang # <<>> \/ a.at # Null

\* The host table, and the last address asked for with its answer.
Lasts  == {Null} \cup [of : Addresses, user : Addresses, node : Hosts, path : Hosts]
Tables == [hosts : Seq(Entries), last : Lasts]

(***************************************************************************)
(* A lookup answers with a record of the answer, to, and the table, rt, in *)
(* which it may have written entry i.                                      *)
(***************************************************************************)
Answer(rt, to) == [rt |-> rt, to |-> to]
Write(rt, i, e) == [rt EXCEPT !.hosts = [@ EXCEPT ![i] = e]]

NoteName(r, i) == Answer(Write(r.rt, i, [r.rt.hosts[i] EXCEPT !.realname = r.to]), r.to)
NotePath(r, i) == Answer(Write(r.rt, i, [r.rt.hosts[i] EXCEPT !.via = r.to]), r.to)
Aliased(rt, i) == Write(rt, i, [rt.hosts[i] EXCEPT !.aliased = TRUE])
Routed(rt, i)  == Write(rt, i, [rt.hosts[i] EXCEPT !.routed = TRUE])

(***************************************************************************)
(* HostAlias: the real name of a host, noted in the entries on the way; i  *)
(* is the entry that speaks for it.  The operators named ...Turn are the   *)
(* bodies of the functions that call themselves, which they take as their  *)
(* first argument.                                                         *)
(***************************************************************************)
NoName(e) == e.realname = Null /\ e.status \in {"phantom", "gatewayed"}

OwnName(rt, i, e) == Answer(Write(rt, i, [e EXCEPT !.aliased = TRUE, !.realname = e.name]), e.name)

AliasTurn(alias, rt, input, i) ==
    IF i = 0 THEN Answer(rt, input)
    ELSE IF NoName(rt.hosts[i]) THEN Answer(rt, input)
    ELSE IF rt.hosts[i].aliased THEN Answer(rt, rt.hosts[i].realname)
    ELSE IF rt.hosts[i].realname = Null THEN OwnName(rt, i, rt.hosts[i])
    ELSE NoteName(alias[<<Aliased(rt, i), rt.hosts[i].realname>>], i)

HostAlias[q \in Tables \X Hosts] == AliasTurn(HostAlias, q[1], q[2], checkname(q[1].hosts, q[2]))

(***************************************************************************)
(* HostPath: the neighbour mail for a host goes through; best is where it  *)
(* goes if the table does not say.  An entry without a route has the one   *)
(* of its real name, of ourselves, of itself if it is called, or best;     *)
(* what is found is looked up in its turn, and noted.                      *)
(***************************************************************************)
\* A name of our own domain that the table does not know.
Strange(input) == Len(input) > Len(E_domain) /\ IsSuffix(E_domain, input)

\* The answer for an entry that a lookup under way has come to again.
Again(rt, i, e, best) ==
    IF e.via # Null THEN Answer(rt, e.via)
    ELSE IF e.aliased /\ e.realname # e.name THEN NotePath(Answer(rt, best), i)
    ELSE Answer(rt, Panic)

\* The route of an entry that is its own real name and has none.
OwnPath(hosts, e, best) ==
    IF e.status = "localhost" THEN E_nodename
    ELSE IF checkreal(hosts, e.name) = 0 THEN best ELSE e.name

\* The way that the entry's real name a leads.
Implied(path, a, e, best) ==
    IF a.to # e.name THEN path[<<a.rt, a.to, best>>]
    ELSE Answer(a.rt, OwnPath(a.rt.hosts, e, best))

\* The first answer for an entry: its route, or the way its real name leads.
FirstPath(path, marked, e, best) ==
    IF e.via # Null THEN Answer(marked, e.via)
    ELSE Implied(path, HostAlias[<<marked, e.name>>], e, best)

Further(path, r, best) == path[<<r.rt, r.to, best>>]

PathTurn(path, rt, input, best, i) ==
    IF input \in {NoPath, Panic} THEN Answer(rt, Panic)
    ELSE IF i = 0 THEN Answer(rt, IF Strange(input) THEN NoPath ELSE best)
    ELSE IF rt.hosts[i].status = "gatewayed" THEN Answer(rt, rt.hosts[i].name)
    ELSE IF rt.hosts[i].routed THEN Again(rt, i, rt.hosts[i], best)
    ELSE NotePath(Further(path, NotePath(FirstPath(path, Routed(rt, i), rt.hosts[i], best), i), best), i)

HostPath[q \in Tables \X Hosts \X Hosts] ==
    PathTurn(HostPath, q[1], q[2], q[3], checkname(q[1].hosts, q[2]))

(***************************************************************************)
(* The way to an address.                                                  *)
(***************************************************************************)
\* rfc_route: HostPath of each host of the explicit route in turn, the answer
\* being the best of the next one.
RouteTurn(route, r, hosts) == route[<<r.rt, Tail(hosts), r.to>>]

rfc_route[q \in Tables \X Seq(Hosts) \X Hosts] ==
    IF q[2] = <<>> \/ q[3] = Panic THEN Answer(q[1], q[3])
    ELSE RouteTurn(rfc_route, HostPath[<<q[1], Head(q[2]), q[3]>>], q[2])

\* The same along a bang path, up to a host that must not be mailed to.
\* first is the first host, with its path, that is not reached through us.
Firsts == {Null} \cup [host : Hosts, path : Hosts]

FirstAway(first, host, to) ==
    IF first = Null /\ to # E_nodename THEN [host |-> host, path |-> to] ELSE first

BangTurn(bang, r, hosts, first) ==
    bang[<<r.rt, Tail(hosts), r.to, FirstAway(first, Head(hosts), r.to)>>]

BangRoute[q \in Tables \X Seq(Hosts) \X Hosts \X Firsts] ==
    IF q[2] = <<>> \/ q[3] \in {NoPath, Panic} THEN [rt |-> q[1], to |-> q[3], first |-> q[4]]
    ELSE BangTurn(BangRoute, HostPath[<<q[1], Head(q[2]), q[3]>>], q[2], q[4])

\* The path that the bang path b has led to: that of its first host away.
BangPath(b) ==
    IF b.to \in {NoPath, Panic} \/ b.first = Null THEN Answer(b.rt, b.to)
    ELSE HostPath[<<b.rt, b.first.host, b.first.path>>]

\* The path for an address whose explicit route leads to r, before the last look
\* at our own host.
PathFrom(r, a) ==
    IF r.to \in {NoPath, Panic} THEN r
    ELSE IF a.at # Null THEN HostPath[<<r.rt, a.at, r.to>>]
    ELSE BangPath(BangRoute[<<r.rt, a.bang, r.to, Null>>])

PathOf(rt, a) == PathFrom(rfc_route[<<rt, a.via, E_mailserv>>], a)

(***************************************************************************)
(* user_at_node: the user, the node and the path of an address.  The same  *)
(* address as the last time has the same answer; a route that must not be  *)
(* taken makes the whole address a user of ours.                           *)
(***************************************************************************)
\* Mail for a host reached through us that we do not know.
Away(p, real) == p.to = E_nodename /\ checkname(real.rt.hosts, real.to) = 0

Host(a) == IF a.at # Null THEN a.at ELSE Last(a.bang)
User(a) == IF a.at # Null THEN [a EXCEPT !.via = <<>>, !.at = Null]
                          ELSE [a EXCEPT !.via = <<>>, !.bang = <<>>]

AtNode(a, p, real) == [user |-> User(a), node |-> real.to, rt |-> real.rt,
                       path |-> IF Away(p, real) THEN E_mailserv ELSE p.to]

Parsed(a, p) ==
    IF p.to \in {NoPath, Panic}
    THEN [user |-> a, node |-> E_domain, rt |-> p.rt,
          path |-> IF p.to = Panic THEN Panic ELSE E_nodename]
    ELSE AtNode(a, p, HostAlias[<<p.rt, Host(a)>>])

Remembered(r, a) ==
    [r EXCEPT !.rt = [@ EXCEPT !.last = [of |-> a, user |-> r.user, node |-> r.node, path |-> r.path]]]

user_at_node(rt, a) ==
    IF ~Delimited(a)
    THEN [user |-> a, node |-> E_nodename, path |-> E_nodename, rt |-> rt]
    ELSE IF rt.last # Null /\ rt.last.of = a
    THEN [user |-> rt.last.user, node |-> rt.last.node, path |-> rt.last.path, rt |-> rt]
    ELSE Remembered(Parsed(a, PathOf(rt, a)), a)

\* Where an address leads: the kind of delivery and the address, from which
\* our own host has been taken off.
IsGateway(hosts, i) == i # 0 /\ hosts[i].status = "gatewayed"
Gateway(r) == IsGateway(r.rt.hosts, checkname(r.rt.hosts, r.path))

Lead(r, kind, addr) == [rt |-> r.rt, kind |-> kind, addr |-> addr]

LeadTurn(leads, r, a) ==
    IF r.path = Panic THEN Lead(r, "panic", a)
    ELSE IF Gateway(r) THEN Lead(r, "gateway", a)
    ELSE IF r.path # E_nodename THEN Lead(r, "remote", a)
    ELSE IF ~Delimited(a) THEN Lead(r, "local", r.user)
    ELSE IF r.user = a THEN Lead(r, "remote", a)
    ELSE leads[<<r.rt, r.user>>]

Leading[q \in Tables \X Addresses] == LeadTurn(Leading, user_at_node(q[1], q[2]), q[2])

remote_address(rt, a) == Leading[<<rt, a>>]

\* Our own name at the head of an address is taken off.
Stripped(a) ==
    LET others == {k \in DOMAIN a.bang : a.bang[k] \notin {E_nodename, E_domain}}
    IN  IF a.via # <<>> THEN a
        ELSE [a EXCEPT !.bang = IF others = {} THEN <<>> ELSE SubSeq(@, Min(others), Len(@))]

\* As Stripped, and everything before our own name as well.
AfterOwn(a) ==
    LET ours == {k \in DOMAIN a.bang : /\ a.bang[k] \in {E_nodename, E_domain}
                                       /\ k > 1 \/ a.via = <<>>}
    IN  IF ours = {} THEN a
        ELSE [a EXCEPT !.via = <<>>, !.bang = SubSeq(@, Max(ours) + 1, Len(@))]
=============================================================================
