------------------------------- MODULE MCMail -------------------------------
(***************************************************************************)
(* rmail on a small host, and rbmail with a batch of three mails, the      *)
(* first with an empty line at its beginning, the second with a header in  *)
(* its text, the third with a ^Z in its last line; each in behaviours of   *)
(* its own: `which` says whose steps are taken.                            *)
(***************************************************************************)
EXTENDS Mail, Rbmail, SequencesExt

VARIABLE which

allVars == <<mailVars, rbVars, which>>

us   == <<"us">>
our  == <<"us", "net">>
net  == <<"net">>
srv  == <<"srv">>
nb   == <<"nb">>
foo  == <<"foo">>
bar  == <<"bar">>
fido == <<"fido">>
ph   == <<"ph">>

OnRoute(host, kind, to) == [host |-> host, kind |-> kind, to |-> to]

Systems == <<srv, nb>>
Paths == << OnRoute(foo, "route", nb), OnRoute(bar, "alias", foo),
            OnRoute(<<"*", "zone">>, "gateway", <<"prog">>),
            OnRoute(ph, "bare", Null), OnRoute(<<"far", "org">>, "route", foo) >>

\* Forward files of ann and bob.
Lists == { <<>>, <<Person("bob")>>, <<Address(<<>>, <<>>, "\\", "ann", Null), At("x", foo)>>,
           <<At("x", bar), At("v", srv), At("y", nb), At("w", <<"far", "org">>),
             At("z", <<"z", "zone">>)>>,
           <<Address(<<>>, <<us>>, "", "ann", Null), Person("bob")>>,
           <<At("x", foo), Person("ann"), At("y", nb)>>,
           <<Person("cat"), Address(<<>>, <<us>>, "", Null, Null), At("y", nb)>>,
           <<Address(<<>>, <<>>, "+", "box", Null), Person("nobody")>> }

Args == { <<>>, <<Person("ann")>>, <<Person("ann"), Person("bob")>>,
          <<At("v", foo), At("x", nb), At("u", <<"q", "zone">>), Person("ann")>>,
          <<At("x", bar), At("v", <<"unknown", "org">>), At("w", srv), Person("nobody")>>,
          <<Address(<<>>, <<us, foo>>, "", "x", Null), Address(<<>>, <<>>, "+", "box", Null),
            At("ann", our), Address(<<nb>>, <<>>, "", "y", foo)>>,
          <<At("x", <<"new", "us", "net">>), Person("cat"), At("v", <<"ph", "net">>)>> }

\* Who is to be told: a user, somebody elsewhere who wants a receipt, several
\* addresses with one that is only our host's name, none ("<>"), and nothing.
Sender(receipt, returns) == [receipt |-> receipt, returns |-> returns, blank |-> FALSE]
Senders == { Sender(FALSE, <<Person("cat")>>), Sender(TRUE, <<At("s", foo)>>),
             Sender(TRUE, <<Address(<<>>, <<us>>, "", Null, Null), Person("cat")>>),
             Sender(FALSE, <<>>), [receipt |-> FALSE, returns |-> <<>>, blank |-> TRUE] }

ForwardCases ==
    {[systems |-> Systems, paths |-> Paths,
      forward |-> [u \in {"ann", "bob", "cat", "postmaster"} |->
                     IF u = "ann" THEN a ELSE IF u = "bob" THEN b ELSE <<>>],
      filters |-> f, args |-> args, skip |-> {Person("cat")} \ ToSet(s.returns), hops |-> h,
      receipt |-> s.receipt, returns |-> s.returns, blank |-> s.blank, os2 |-> TRUE]
     : a \in Lists, b \in Lists, f \in {{}, {"cat", "bob"}}, args \in Args,
       h \in {0, 2}, s \in Senders}

\* Any route and alias of two hosts that are called or not, circles and unknown
\* hosts included, and any two addresses at them.
Lines(h) ==
    {<<>>} \cup {<<OnRoute(h, kind, to)>> :
                   kind \in {"route", "alias"}, to \in {foo, bar, nb, <<"gone">>}}
           \cup {<<OnRoute(h, "route", to), OnRoute(h, "alias", name)>> :
                   to \in {foo, bar}, name \in {foo, bar}}
Places == UNION {{At("x", h), Address(<<nb>>, <<>>, "", "y", h)} : h \in {foo, bar}}

TableCases ==
    {[systems |-> called, paths |-> l \o m,
      forward |-> [u \in {"postmaster"} |-> <<>>], filters |-> {}, args |-> <<a, b>>,
      skip |-> {}, hops |-> 0, receipt |-> FALSE,
      returns |-> <<Person("postmaster")>>, blank |-> FALSE, os2 |-> FALSE]
     : l \in Lines(foo), m \in Lines(bar), a \in Places, b \in Places,
       called \in {Systems, Systems \o <<foo, bar>>}}

MCCases == ForwardCases \cup TableCases

-----------------------------------------------------------------------------
\* The batch as it was sent, and what up to MaxDamage damages make of it: a
\* line becomes text, gets lost or is the first of a lost rest; a header becomes
\* worthless or announces another length.
MCLengths == <<2, 2, 2>>
MCCtrlZ == {<<3, 2>>}
WholeBatch == FlattenSeq([k \in 1..3 |-> MailOf(k)])
MaxLen == 3
MaxDamage == 3

Damages(b) ==
    LET harm(i, kind, len) ==
          [b EXCEPT ![i].kind = kind, ![i].len = len, ![i].sound = FALSE]
    IN  {b} \cup UNION {
          {harm(i, "text", 0), RemoveAt(b, i), SubSeq(b, 1, i - 1)}
            \cup (IF b[i].kind # "header" THEN {}
                  ELSE {harm(i, "likeness", b[i].len)}
                         \cup {harm(i, "header", len) : len \in 0..MaxLen})
          : i \in DOMAIN b}

MCBatches == LET damaged[d \in 0..MaxDamage] ==
                   IF d = 0 THEN {WholeBatch}
                   ELSE UNION {Damages(b) : b \in damaged[d - 1]}
             IN  damaged[MaxDamage]

-----------------------------------------------------------------------------
NoBatch == rbatch = <<>> /\ RbStart
NoRmail == case = (CHOOSE c \in Cases : TRUE) /\ MailInit

MCInit == \/ which = "rmail" /\ MailInit /\ NoBatch
          \/ which = "rbmail" /\ NoRmail /\ RbInit

MCNext == /\ UNCHANGED which
          /\ \/ which = "rmail" /\ MailNext /\ UNCHANGED rbVars
             \/ which = "rbmail" /\ RbNext /\ UNCHANGED mailVars

MCSpec == MCInit /\ [][MCNext]_allVars
=============================================================================
