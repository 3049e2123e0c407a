----------------------------- MODULE MailProofs -----------------------------
(***************************************************************************)
(* Proofs about Mail.tla, for any host table, forward files and addresses: *)
(* each argument of rmail is settled, gathered or in the hands of some     *)
(* sendone (Owed), and a sendone within another one reports success only   *)
(* after a delivery for the argument (Frames).                             *)
(*                                                                         *)
(* And about Routing.tla, for any host table: the lookups end, and if the  *)
(* table leads somewhere they answer as in the table that was loaded,      *)
(* whatever the earlier ones have noted in it (Ready); so rmail keeps each *)
(* addressee's own path (WayInv), and at each step what everyone has got   *)
(* and what is in hand for him is what he is due (Balanced).               *)
(***************************************************************************)
EXTENDS Mail, SequenceTheorems, FiniteSetTheorems, WellFoundedInduction, TLAPS

-----------------------------------------------------------------------------
(***************************************************************************)
(* rmail: an addressee who has got the message nowhere is not forgotten.   *)
(***************************************************************************)
\* How an argument has been dealt with.
Skipped(i) == Stripped(case.args[i]) \in case.skip
Mailed(i)  == \E k \in DOMAIN out : out[k].what \in {"mail", "lost"} /\ i \in out[k].for
Heard      == \E k \in DOMAIN out : out[k].what \in {"report", "notice"}
Settled(i) == Skipped(i) \/ Mailed(i) \/ nosend > 0
AllMailed(F) == \A i \in F : Mailed(i)

\* sendone is at work for the argument, or is about to tell lmail that it
\* could do nothing for it.
InHand(i) ==
    \/ call # Null /\ i \in call.for
    \/ \E j \in DOMAIN stack : i \in stack[j].for
    \/ stack = <<>> /\ ret \in {-1, 0}

Proper(s) == s \in Seq(ToSet(s))

MailTypes ==
    /\ case \in Cases
    /\ next \in Nat \ {0} /\ nosend \in Nat /\ errcnt \in Nat
    /\ ret \in Results \cup {Null}
    /\ stage \in {"args", "flush", "bounce", "master", "done"}
    /\ Proper(out) /\ Proper(stack) /\ Proper(remotes.addrs)

\* What lmail does and where: addresses are gathered among the arguments, and a
\* list without addresses stands for no argument.
Stages ==
    /\ call # Null => ret = Null
    /\ remotes.addrs = <<>> => remotes.for = {}
    /\ stage \in {"flush", "bounce", "master"} =>
          next > Len(case.args) /\ remotes.for = {}
    /\ stage \notin {"args", "flush"} =>
          /\ call # Null => call.for = {}
          /\ \A j \in DOMAIN stack : stack[j].for = {}

\* The calls of sendone within sendone are made for the same arguments, and
\* only a delivery for them makes one of them report success.
FrameFor(f, F) ==
    /\ {"for", "status"} \subseteq DOMAIN f
    /\ f.for = F /\ f.status \in Results
    /\ f.status > 0 => AllMailed(F)

Frames ==
    /\ \A j \in DOMAIN stack :
          /\ FrameFor(stack[j], stack[1].for)
          /\ call # Null => call.for = stack[j].for
    /\ stack # <<>> /\ ret \in {1, 2} => AllMailed(stack[1].for)

\* Every argument taken so far is settled, gathered or in hand.
Owed ==
    /\ stage \in {"args", "flush"} =>
          \A i \in DOMAIN case.args :
              i < next => Settled(i) \/ i \in remotes.for \/ InHand(i)
    /\ stage \in {"bounce", "master"} => \A i \in DOMAIN case.args : Settled(i)

\* The notice to the postmaster gets through, or counts as an error.
MasterHears ==
    stage = "master" =>
        /\ stack = <<>>
        /\ \/ call = Call(<<Person(Postmaster)>>, "local", 0, {})
           \/ call = Null /\ ret = -1
           \/ call = Null /\ ret \in {1, 2} /\ Heard
           \/ call = Null /\ ret = Null /\ (errcnt > 0 \/ Heard)

Ended ==
    stage = "done" =>
        /\ InLmail
        /\ \/ Heard \/ errcnt > 0 \/ case.blank
           \/ \A i \in DOMAIN case.args : Skipped(i) \/ Mailed(i)

MailInv == MailTypes /\ Stages /\ Frames /\ Owed /\ MasterHears /\ Ended

\* The null pointer is no call of sendone.
NullIsNoCall == \A addrs, kind, hop, for : Call(addrs, kind, hop, for) # Null

LEMMA Appended ==
    ASSUME NEW s, Proper(s), NEW e
    PROVE  /\ Proper(Append(s, e))
           /\ Len(s) \in Nat /\ DOMAIN s = 1..Len(s)
           /\ DOMAIN Append(s, e) = 1..(Len(s) + 1)
           /\ \A j \in 1..Len(s) : Append(s, e)[j] = s[j]
           /\ Append(s, e)[Len(s) + 1] = e
           /\ Append(s, e) # <<>>
<1> DEFINE S == ToSet(s) \cup {e}
<1>1. s \in Seq(S)  BY DEF Proper
<1> HIDE DEF S
<1>2. /\ Append(s, e) \in Seq(S) /\ e \in S  BY <1>1 DEF S
<1>3. /\ Len(s) \in Nat /\ DOMAIN s = 1..Len(s)
      /\ DOMAIN Append(s, e) = 1..(Len(s) + 1) /\ Len(Append(s, e)) = Len(s) + 1
      /\ \A j \in 1..Len(s) : Append(s, e)[j] = s[j]
      /\ Append(s, e)[Len(s) + 1] = e
  BY <1>1, <1>2
<1>4. Append(s, e) \in Seq(ToSet(Append(s, e)))
  <2>1. \A j \in 1..Len(Append(s, e)) : Append(s, e)[j] \in ToSet(Append(s, e))
    BY <1>3 DEF ToSet
  <2> QED  BY <2>1, <1>2, <1>3
<1> QED  BY <1>3, <1>4 DEF Proper

LEMMA FrontAndLast ==
    ASSUME NEW s, Proper(s), s # <<>>
    PROVE  /\ Proper(Front(s)) /\ Len(s) \in Nat \ {0} /\ DOMAIN s = 1..Len(s)
           /\ Len(Front(s)) = Len(s) - 1 /\ DOMAIN Front(s) = 1..(Len(s) - 1)
           /\ \A j \in 1..(Len(s) - 1) : Front(s)[j] = s[j]
           /\ Last(s) = s[Len(s)]
<1> DEFINE S == ToSet(s)
<1>1. s \in Seq(S) /\ s # <<>>  BY DEF Proper
<1> HIDE DEF S
<1>2. /\ Len(s) \in Nat \ {0} /\ DOMAIN s = 1..Len(s)
      /\ Front(s) = SubSeq(s, 1, Len(s) - 1) /\ Last(s) = s[Len(s)]
  BY <1>1 DEF Front, Last
<1>3. /\ Front(s) \in Seq(S) /\ Len(Front(s)) = Len(s) - 1
      /\ DOMAIN Front(s) = 1..(Len(s) - 1)
      /\ \A j \in 1..(Len(s) - 1) : Front(s)[j] = s[j]
  BY <1>1, <1>2
<1>4. Front(s) \in Seq(ToSet(Front(s)))
  <2>1. \A j \in 1..Len(Front(s)) : Front(s)[j] \in ToSet(Front(s))
    BY <1>3 DEF ToSet
  <2> QED  BY <2>1, <1>3
<1> QED  BY <1>2, <1>3, <1>4 DEF Proper

LEMMA ProperSeq ==
    /\ Proper(<<>>) /\ \A x : Proper(<<x>>)
<1>1. Proper(<<>>)  BY DEF Proper, ToSet
<1>2. ASSUME NEW x PROVE Proper(<<x>>)
  <2>1. x \in ToSet(<<x>>)  BY DEF ToSet
  <2> QED  BY <2>1 DEF Proper
<1> QED  BY <1>1, <1>2

LEMMA Arguments == MailInv => Len(case.args) \in Nat /\ DOMAIN case.args = 1..Len(case.args)
<1> SUFFICES ASSUME MailInv PROVE Len(case.args) \in Nat /\ DOMAIN case.args = 1..Len(case.args)
  OBVIOUS
<1>1. case.args \in Seq(Addresses)  BY CasesAssumption DEF MailInv, MailTypes
<1> HIDE DEF Addresses
<1> QED  BY <1>1

LEMMA MailInitInv == MailInit => MailInv
<1> SUFFICES ASSUME MailInit PROVE MailInv
  OBVIOUS
<1>1. MailTypes  BY ProperSeq DEF MailInit, MailTypes, Nobody, Results
<1>2. Stages  BY NullAssumption DEF MailInit, Stages, Nobody
<1>3. Frames  BY NullAssumption DEF MailInit, Frames, Results
<1>4. case.args \in Seq(Addresses)  BY CasesAssumption DEF MailInit
<1>5. Owed
  <2>1. DOMAIN case.args \subseteq Nat \ {0}  BY <1>4
  <2> QED  BY <2>1 DEF MailInit, Owed
<1> QED  BY <1>1, <1>2, <1>3, <1>5 DEF MailInv, MailInit, MasterHears, Ended

\* What has been delivered stays delivered.
LEMMA MoreOut ==
    ASSUME MailInv, NEW e, out' = out \/ out' = Append(out, e)
    PROVE  /\ Proper(out)'
           /\ \A i : Mailed(i) => Mailed(i)'
           /\ Heard => Heard'
<1>0. Proper(out)  BY DEF MailInv, MailTypes
<1>1. CASE out' = out
  BY <1>0, <1>1 DEF Mailed, Heard, Proper
<1>2. CASE out' = Append(out, e)
  <2>1. /\ Proper(Append(out, e)) /\ Len(out) \in Nat /\ DOMAIN out = 1..Len(out)
        /\ DOMAIN out' = 1..(Len(out) + 1)
        /\ \A j \in 1..Len(out) : out'[j] = out[j]
    BY <1>0, <1>2, Appended
  <2>2. DOMAIN out \subseteq DOMAIN out'  BY <2>1
  <2>3. \A k \in DOMAIN out : k \in DOMAIN out' /\ out'[k] = out[k]  BY <2>1, <2>2
  <2> QED  BY <2>1, <2>3, <1>2 DEF Mailed, Heard, Proper
<1> QED  BY <1>1, <1>2

\* What is written now has been delivered to those it is for.
LEMMA JustOut ==
    ASSUME MailInv, NEW e, out' = Append(out, e)
    PROVE  /\ e.what \in {"mail", "lost"} => AllMailed(e.for)'
           /\ e.what \in {"report", "notice"} => Heard'
<1>1. Proper(out)  BY DEF MailInv, MailTypes
<1>2. /\ Len(out) \in Nat /\ DOMAIN out' = 1..(Len(out) + 1) /\ out'[Len(out) + 1] = e
  BY <1>1, Appended
<1>3. Len(out) + 1 \in DOMAIN out'  BY <1>2
<1>4. ASSUME e.what \in {"mail", "lost"} PROVE \A i \in e.for : Mailed(i)'
  BY <1>2, <1>3, <1>4 DEF Mailed
<1>5. ASSUME e.what \in {"report", "notice"} PROVE Heard'
  BY <1>2, <1>3, <1>5 DEF Heard
<1>6. ASSUME e.what \in {"mail", "lost"} PROVE AllMailed(e.for)'
  <2>1. ASSUME NEW F, F = e.for PROVE AllMailed(F)'
    BY <2>1, <1>4, <1>6 DEF AllMailed
  <2> QED  BY <2>1
<1> QED  BY <1>5, <1>6

\* sendone answers: a positive answer comes with a delivery for the arguments
\* of the call, and the postmaster is not refused.
LEMMA CallReturns ==
    ASSUME MailInv, NEW r \in Results, call # Null, call' = Null, ret' = r,
           UNCHANGED <<case, lmailvars, stack>>,
           NEW e, out' = out \/ out' = Append(out, e),
           r > 0 => /\ out' = Append(out, e)
                    /\ e.what = What \/ (e.what = "lost" /\ stage # "master")
                    /\ e.for = call.for,
           stage = "master" => r # 0
    PROVE  MailInv'
<1> SUFFICES ASSUME NEW F, F = call.for PROVE MailInv'
  OBVIOUS
<1>0. MailTypes /\ Stages /\ Frames /\ Owed /\ MasterHears /\ Ended  BY DEF MailInv
<1>1. /\ Proper(out)' /\ \A i : Mailed(i) => Mailed(i)'
      /\ Heard => Heard'
  BY MoreOut
<1>2. stage \in {"args", "flush", "bounce", "master"}
  BY <1>0 DEF MailTypes, Ended, InLmail
<1>3. MailTypes'
  BY <1>0, <1>1, <1>2 DEF MailTypes, lmailvars, Proper
<1>4. ASSUME r > 0 PROVE \A i \in F : Mailed(i)'
  <2>1. CASE stage \in {"args", "flush"}
    <3>1. e.what \in {"mail", "lost"}  BY <2>1, <1>4 DEF What
    <3>2. AllMailed(e.for)'  BY <3>1, <1>4, JustOut
    <3> QED  BY <3>2, <1>4 DEF AllMailed
  <2>2. CASE stage \in {"bounce", "master"}
    BY <2>2, <1>0 DEF Stages
  <2> QED  BY <2>1, <2>2, <1>2
<1>5. Stages'  BY <1>0 DEF Stages, lmailvars
<1>6. Frames'
  <2>1. ASSUME NEW j \in DOMAIN stack
        PROVE  /\ {"for", "status"} \subseteq DOMAIN stack[j]
               /\ stack[j].for = stack[1].for /\ stack[j].for = F
               /\ stack[j].status \in Results
               /\ stack[j].status > 0 => \A i \in stack[1].for : Mailed(i)'
    BY <1>0, <1>1 DEF Frames, FrameFor, AllMailed
  <2>2. ASSUME stack # <<>>, r \in {1, 2} PROVE \A i \in stack[1].for : Mailed(i)'
    <3>1. 1 \in DOMAIN stack  BY <1>0, <2>2, Appended DEF MailTypes
    <3> QED  BY <3>1, <2>1, <2>2, <1>4
  <2> QED  BY <2>1, <2>2 DEF Frames, FrameFor, AllMailed
<1>7. Owed'
  <2>1. \A i : Settled(i) => Settled(i)'
    BY <1>1 DEF Settled, Skipped, lmailvars
  <2>2. ASSUME NEW i, InHand(i) PROVE InHand(i)' \/ Mailed(i)'
    <3>1. CASE \E j \in DOMAIN stack : i \in stack[j].for
      BY <3>1 DEF InHand
    <3>2. CASE i \in F /\ r > 0
      BY <3>2, <1>4
    <3>3. CASE i \in F /\ ~(r > 0)
      <4>1. CASE stack = <<>>
        BY <3>3, <4>1 DEF InHand, Results
      <4>2. CASE stack # <<>>
        <5>1. 1 \in DOMAIN stack  BY <1>0, <4>2, Appended DEF MailTypes
        <5> QED  BY <5>1, <3>3, <1>0 DEF Frames, FrameFor, InHand
      <4> QED  BY <4>1, <4>2
    <3>4. ~(stack = <<>> /\ ret \in {-1, 0})
      BY <1>0, NullAssumption DEF Stages, Results
    <3> QED  BY <3>1, <3>2, <3>3, <3>4, <2>2 DEF InHand
  <2>4. \A i : Mailed(i)' => Settled(i)'  BY DEF Settled
  <2> QED  BY <2>1, <2>2, <2>4, <1>0 DEF Owed, lmailvars
<1>8. MasterHears'
  <2>1. SUFFICES ASSUME stage = "master" PROVE MasterHears'
    BY DEF MasterHears, lmailvars
  <2>2. stack = <<>>  BY <2>1, <1>0 DEF MasterHears
  <2>3. r = -1 \/ r \in {1, 2}  BY <2>1 DEF Results
  <2>4. ASSUME r \in {1, 2} PROVE Heard'
    <3>1. e.what = "notice"  BY <2>1, <2>4 DEF What
    <3> QED  BY <3>1, <2>4, JustOut
  <2> QED  BY <2>1, <2>2, <2>3, <2>4 DEF MasterHears
<1>9. Ended'  BY <1>2 DEF Ended, lmailvars
<1> QED  BY <1>3, <1>5, <1>6, <1>7, <1>8, <1>9 DEF MailInv

\* The postmaster's notice is a delivery to a mailbox.
LEMMA AtMaster ==
    ASSUME MailInv, NullIsNoCall, stage = "master", call # Null
    PROVE  /\ Within /\ ~Forwards /\ ~Program /\ Delivers
           /\ call.kind = "local"
<1>0. MailTypes /\ Stages /\ MasterHears  BY DEF MailInv
<1>1. call = Call(<<Person(Postmaster)>>, "local", 0, {})
  BY <1>0 DEF MasterHears
<1>2. /\ call.kind = "local" /\ call.hop = 0 /\ Head(call.addrs) = Person(Postmaster)
  BY <1>1 DEF Call
<1>3. Within  BY <1>2, MailAssumption DEF Within
<1>4. Local  BY <1>2, <1>3 DEF Local
<1>5. user_at_node(rt, Person(Postmaster)).user = Person(Postmaster)
  BY DEF user_at_node, Delimited, Person, Address
<1>6. Addr = Person(Postmaster)  BY <1>2, <1>5 DEF Addr
<1>7. Addr.user = Postmaster /\ Addr.mark = ""  BY <1>6 DEF Person, Address
<1>8. /\ Postmaster \in DOMAIN case.forward /\ case.forward[Postmaster] = <<>>
      /\ Postmaster \notin case.filters
  BY <1>0, CasesAssumption DEF MailTypes
<1>9. ~ToFile /\ Known  BY <1>7, <1>8 DEF ToFile, Known, Users
<1>10. ~Forwards  BY <1>7, <1>8 DEF Forwards
<1>11. Delivers  BY <1>3, <1>9, <1>10 DEF Delivers
<1>12. ~Program  BY <1>2, <1>7, <1>8 DEF Program
<1> QED  BY <1>2, <1>3, <1>10, <1>11, <1>12

LEMMA RefusedStep ==
    ASSUME MailInv, NullIsNoCall, TooManyHops \/ NoSuchUser
    PROVE  MailInv'
<1>1. call # Null /\ call' = Null /\ ret' = 0 /\ UNCHANGED <<case, lmailvars, stack, out>>
  BY DEF TooManyHops, NoSuchUser, Return, Local, Within
<1>2. stage # "master"
  <2>1. SUFFICES ASSUME stage = "master" PROVE FALSE
    OBVIOUS
  <2>2. Within /\ Delivers  BY <2>1, <1>1, AtMaster
  <2>3. MailTypes /\ MasterHears  BY DEF MailInv
  <2>4. call.hop = 0  BY <2>1, <2>3, <1>1 DEF MasterHears, Call
  <2> QED  BY <2>2, <2>4, MailAssumption DEF TooManyHops, NoSuchUser, Within, Delivers
<1>3. 0 \in Results  BY DEF Results
<1> QED  BY <1>1, <1>2, <1>3, CallReturns

LEMMA WrittenStep ==
    ASSUME MailInv, NullIsNoCall, NEW r \in {1, 2}, Written(r)
    PROVE  MailInv'
<1>1. PICK w \in {user_at_node(rt, Addr)} :
          out' = Append(out, [what |-> What, kind |-> call.kind, addrs |-> call.addrs,
                              path |-> w.path, for |-> call.for, forwarded |-> stack # <<>>])
  BY DEF Written
<1>2. SUFFICES ASSUME NEW e, e = [what |-> What, kind |-> call.kind, addrs |-> call.addrs,
                              path |-> w.path, for |-> call.for, forwarded |-> stack # <<>>]
               PROVE  MailInv'
  OBVIOUS
<1>3. out' = Append(out, e) /\ e.what = What /\ e.for = call.for
  BY <1>1, <1>2
<1>4. call # Null /\ call' = Null /\ ret' = r /\ UNCHANGED <<case, lmailvars, stack>>
  BY DEF Written, Delivers, Within, Return
<1>5. r \in Results /\ r # 0  BY DEF Results
<1> QED  BY <1>3, <1>4, <1>5, CallReturns

LEMMA UuxUnseenStep ==
    ASSUME MailInv, NullIsNoCall, UuxUnseen
    PROVE  MailInv'
<1>1. PICK w \in {user_at_node(rt, Addr)} :
          out' = Append(out, [what |-> "lost", kind |-> call.kind, addrs |-> call.addrs,
                              path |-> w.path, for |-> call.for, forwarded |-> stack # <<>>])
  BY DEF UuxUnseen
<1>2. SUFFICES ASSUME NEW e, e = [what |-> "lost", kind |-> call.kind, addrs |-> call.addrs,
                              path |-> w.path, for |-> call.for, forwarded |-> stack # <<>>]
               PROVE  MailInv'
  OBVIOUS
<1>3. out' = Append(out, e) /\ e.what = "lost" /\ e.for = call.for
  BY <1>1, <1>2
<1>4. /\ call # Null /\ call.kind = "remote" /\ call' = Null /\ ret' = 1
      /\ UNCHANGED <<case, lmailvars, stack>>
  BY DEF UuxUnseen, Return
<1>5. stage # "master"  BY <1>4, AtMaster
<1>6. 1 \in Results /\ 1 # 0  BY DEF Results
<1> QED  BY <1>3, <1>4, <1>5, <1>6, CallReturns

LEMMA NotWrittenStep ==
    ASSUME MailInv, NullIsNoCall, DeliverFails \/ ProgramRefuses
    PROVE  MailInv'
<1>1. PICK r \in {-1, 0} : NotWritten(r) /\ (r = 0 => Program)
  BY DEF DeliverFails, ProgramRefuses
<1>2. call # Null /\ call' = Null /\ ret' = r /\ UNCHANGED <<case, lmailvars, stack, out>>
  BY <1>1 DEF NotWritten, Delivers, Within, Return
<1>3. stage = "master" => r # 0  BY <1>1, <1>2, AtMaster
<1>4. r \in Results /\ ~(r > 0)  BY DEF Results
<1> QED  BY <1>2, <1>3, <1>4, CallReturns

\* Nothing that has been delivered or counted changes.
LEMMA SameBooks ==
    ASSUME UNCHANGED <<case, lmailvars, out>>
    PROVE  /\ \A i : Mailed(i) <=> Mailed(i)'
           /\ \A i : Settled(i) <=> Settled(i)'
           /\ Heard <=> Heard'
  BY DEF Mailed, Settled, Skipped, Heard, lmailvars

\* A step within a forward file: the frames stay those of the same arguments,
\* and one of them is left for what was in hand.
LEMMA FrameStep ==
    ASSUME MailInv, UNCHANGED <<case, lmailvars, out>>, NEW F,
           stage \notin {"master", "done"},
           call # Null => call.for = F,
           \A j \in DOMAIN stack : stack[j].for = F,
           ret' \in Results \cup {Null},
           call' # Null => ret' = Null /\ call'.for = F,
           Proper(stack'),
           call # Null \/ stack # <<>>,
           \A j \in DOMAIN stack' : FrameFor(stack'[j], F),
           ret' \in {1, 2} => AllMailed(F),
           stack' = <<>> => call' = Null /\ ret' \in Results
    PROVE  MailInv'
<1>0. MailTypes /\ Stages /\ Frames /\ Owed /\ MasterHears /\ Ended  BY DEF MailInv
<1>1. /\ \A i : Mailed(i) <=> Mailed(i)'
      /\ \A i : Settled(i) <=> Settled(i)'
  BY SameBooks
<1>2. MailTypes'  BY <1>0 DEF MailTypes, lmailvars, Proper
<1>3. stack # <<>> => 1 \in DOMAIN stack  BY <1>0, Appended DEF MailTypes
<1>4. stack' # <<>> => 1 \in DOMAIN stack'  BY Appended
<1>5. stage = "bounce" => F = {}
  BY <1>0, <1>3 DEF Stages
<1>6. stage \in {"args", "flush", "bounce"}  BY <1>0 DEF MailTypes
<1>7. Stages'
  BY <1>0, <1>5, <1>6 DEF Stages, FrameFor, lmailvars
<1>8. ASSUME AllMailed(F) PROVE \A i \in F : Mailed(i)'
  BY <1>1, <1>8 DEF AllMailed
<1>9. Frames'
  <2>1. ASSUME NEW j \in DOMAIN stack'
        PROVE  /\ {"for", "status"} \subseteq DOMAIN stack'[j]
               /\ stack'[j].for = stack'[1].for
               /\ call' # Null => stack'[j].for = call'.for
               /\ stack'[j].status \in Results
               /\ stack'[j].status > 0 => \A i \in stack'[1].for : Mailed(i)'
    <3>1. stack' # <<>>  BY <2>1
    <3>2. FrameFor(stack'[j], F) /\ FrameFor(stack'[1], F)  BY <3>1, <2>1, <1>4
    <3>3. stack'[1].for = F  BY <3>2 DEF FrameFor
    <3> QED  BY <3>2, <3>3, <1>8 DEF FrameFor
  <2>2. ASSUME stack' # <<>>, ret' \in {1, 2} PROVE \A i \in stack'[1].for : Mailed(i)'
    BY <2>2, <1>4, <1>8 DEF FrameFor
  <2> QED  BY <2>1, <2>2 DEF Frames, FrameFor, AllMailed
<1>10. Owed'
  <2>1. ASSUME NEW i, InHand(i) PROVE i \in F
    BY <2>1, NullAssumption, <1>0 DEF InHand, Stages, Results
  <2>2. ASSUME NEW i \in F PROVE InHand(i)' \/ Mailed(i)'
    <3>1. CASE stack' # <<>>  BY <3>1, <1>4 DEF InHand, FrameFor
    <3>2. CASE stack' = <<>> /\ ret' \in {1, 2}  BY <3>2, <1>8
    <3>3. CASE stack' = <<>> /\ ret' \in {-1, 0}  BY <3>3 DEF InHand
    <3> QED  BY <3>1, <3>2, <3>3 DEF Results
  <2>3. \A i : Mailed(i)' => Settled(i)'  BY DEF Settled
  <2>4. \A i : InHand(i) => InHand(i)' \/ Settled(i)'  BY <2>1, <2>2, <2>3
  <2> QED  BY <1>0, <1>1, <1>6, <2>4 DEF Owed, lmailvars
<1>11. MasterHears' /\ Ended'  BY <1>6 DEF MasterHears, Ended, lmailvars
<1> QED  BY <1>2, <1>7, <1>9, <1>10, <1>11 DEF MailInv

\* The innermost frame is one of the stack.
LEMMA TopFrame ==
    ASSUME MailInv, stack # <<>>
    PROVE  /\ Top = stack[Len(stack)] /\ Len(stack) \in DOMAIN stack
           /\ Proper(Front(stack))
           /\ \A j \in DOMAIN Front(stack) : FrameFor(Front(stack)[j], Top.for)
           /\ FrameFor(Top, Top.for)
           /\ \A j \in DOMAIN stack : stack[j].for = Top.for
           /\ call # Null => call.for = Top.for
           /\ ret \in {1, 2} => AllMailed(Top.for)
           /\ stage \notin {"master", "done"}
<1>0. MailTypes /\ Frames /\ MasterHears /\ Ended  BY DEF MailInv
<1>1. /\ Proper(Front(stack)) /\ Len(stack) \in Nat \ {0} /\ DOMAIN stack = 1..Len(stack)
      /\ DOMAIN Front(stack) = 1..(Len(stack) - 1)
      /\ \A j \in 1..(Len(stack) - 1) : Front(stack)[j] = stack[j]
      /\ Last(stack) = stack[Len(stack)]
  BY <1>0, FrontAndLast DEF MailTypes
<1>2. /\ Top = stack[Len(stack)] /\ Len(stack) \in DOMAIN stack
      /\ \A j \in DOMAIN Front(stack) : j \in DOMAIN stack /\ Front(stack)[j] = stack[j]
  BY <1>1 DEF Top
<1>3. \A j \in DOMAIN stack : /\ FrameFor(stack[j], stack[1].for)
                              /\ call # Null => call.for = stack[j].for
  BY <1>0 DEF Frames
<1>4. ret \in {1, 2} => AllMailed(stack[1].for)  BY <1>0 DEF Frames
<1>5. \A j \in DOMAIN stack : stack[j].for = stack[1].for  BY <1>3 DEF FrameFor
<1>6. Top.for = stack[1].for  BY <1>2, <1>5
<1>7. stage \notin {"master", "done"}  BY <1>0 DEF MasterHears, Ended, InLmail
<1> QED  BY <1>1, <1>2, <1>3, <1>4, <1>5, <1>6, <1>7

\* A frame on top of the others.
LEMMA OnTop ==
    ASSUME NEW s, Proper(s), NEW f, NEW F, FrameFor(f, F),
           \A j \in DOMAIN s : FrameFor(s[j], F)
    PROVE  /\ Proper(Append(s, f)) /\ Append(s, f) # <<>>
           /\ \A j \in DOMAIN Append(s, f) : FrameFor(Append(s, f)[j], F)
<1>1. /\ Proper(Append(s, f)) /\ Append(s, f) # <<>> /\ Len(s) \in Nat
      /\ DOMAIN s = 1..Len(s) /\ DOMAIN Append(s, f) = 1..(Len(s) + 1)
      /\ \A j \in 1..Len(s) : Append(s, f)[j] = s[j]
      /\ Append(s, f)[Len(s) + 1] = f
  BY Appended
<1>2. ASSUME NEW j \in DOMAIN Append(s, f)
      PROVE  Append(s, f)[j] = f \/ (j \in DOMAIN s /\ Append(s, f)[j] = s[j])
  BY <1>1
<1> QED  BY <1>1, <1>2

LEMMA OpenForwardStep ==
    ASSUME MailInv, NullIsNoCall, OpenForward
    PROVE  MailInv'
<1>0. MailTypes /\ Stages /\ Frames /\ Ended  BY DEF MailInv
<1>1. /\ call # Null /\ Forwards /\ UNCHANGED <<case, lmailvars, out>>
  BY DEF OpenForward, Forwards, Local, Within
<1>2. stage \notin {"master", "done"}  BY <1>0, <1>1, AtMaster DEF Ended, InLmail
<1>3. CASE Return(call, 0) /\ UNCHANGED stack
  <2>1. 0 \in Results /\ call' = Null /\ ret' = 0  BY <1>3 DEF Results, Return
  <2> QED  BY <1>1, <1>2, <1>3, <2>1, CallReturns
<1>4. CASE /\ call' = Null /\ UNCHANGED ret
           /\ \E f : stack' = Append(stack, f) /\ FrameFor(f, call.for)
  <2>1. SUFFICES ASSUME NEW F, F = call.for PROVE MailInv'
    OBVIOUS
  <2>2. PICK f : stack' = Append(stack, f) /\ FrameFor(f, F)
    BY <1>4, <2>1
  <2>3. Proper(stack)  BY <1>0 DEF MailTypes
  <2>4. \A j \in DOMAIN stack : FrameFor(stack[j], F) /\ stack[j].for = F
    <3>1. ASSUME NEW j \in DOMAIN stack PROVE FrameFor(stack[j], F) /\ stack[j].for = F
      <4>1. FrameFor(stack[j], stack[1].for) /\ F = stack[j].for
        BY <1>0, <1>1, <2>1, <3>1 DEF Frames
      <4> QED  BY <4>1 DEF FrameFor
    <3> QED  BY <3>1
  <2>5. /\ Proper(stack') /\ stack' # <<>>
        /\ \A j \in DOMAIN stack' : FrameFor(stack'[j], F)
    BY <2>2, <2>3, <2>4, OnTop
  <2>6. ret' = Null  BY <1>0, <1>1, <1>4 DEF Stages
  <2>7. ret' \notin {1, 2}  BY <2>6, NullAssumption DEF Results
  <2> QED  BY <1>1, <1>2, <1>4, <2>1, <2>4, <2>5, <2>6, <2>7, FrameStep
<1>5. (Return(call, 0) /\ UNCHANGED stack)
        \/ (/\ call' = Null /\ UNCHANGED ret
            /\ \E f : stack' = Append(stack, f) /\ FrameFor(f, call.for))
  <2>1. \E list \in {case.forward[Addr.user]} : \E a \in {AfterOwn(Head(list))} :
        \E r \in {remote_address(rt, a)} : \E p \in {user_at_node(r.rt, r.addr)} :
           IF Bad(a) \/ AliasLoop(r, Addr.user)
           THEN Return(call, 0) /\ UNCHANGED stack
           ELSE /\ stack' = Append(stack, OpenedFrame(list, r, p))
                /\ call' = Null /\ UNCHANGED ret
    BY DEF OpenForward
  <2>2. \A list, r, p : FrameFor(OpenedFrame(list, r, p), call.for)
    BY DEF OpenedFrame, FrameFor, Results
  <2> QED  BY Zenon, <2>1, <2>2
<1> QED  BY <1>3, <1>4, <1>5

\* The innermost frame goes on, with or without a call.
LEMMA PutStep ==
    ASSUME MailInv, stack # <<>>, call = Null, NEW f, Put(f), FrameFor(f, Top.for),
           ret' = Null, call' # Null => call'.for = Top.for,
           UNCHANGED <<case, lmailvars, out>>
    PROVE  MailInv'
<1>1. SUFFICES ASSUME NEW F, F = Top.for PROVE MailInv'
  OBVIOUS
<1>2. /\ Proper(Front(stack))
      /\ \A j \in DOMAIN Front(stack) : FrameFor(Front(stack)[j], F)
      /\ \A j \in DOMAIN stack : stack[j].for = F
      /\ stage \notin {"master", "done"}
  BY <1>1, TopFrame
<1>3. stack' = Append(Front(stack), f) /\ FrameFor(f, F)  BY <1>1 DEF Put
<1>4. /\ Proper(stack') /\ stack' # <<>>
      /\ \A j \in DOMAIN stack' : FrameFor(stack'[j], F)
  BY <1>2, <1>3, OnTop
<1>5. ret' \notin {1, 2}  BY NullAssumption DEF Results
<1>6. call' # Null => ret' = Null /\ call'.for = F  BY <1>1
<1> QED  BY <1>2, <1>4, <1>5, <1>6, FrameStep

\* The innermost frame returns.
LEMMA PopStep ==
    ASSUME MailInv, stack # <<>>, call = Null, call' = Null, NEW r \in Results,
           ReturnForward(r), r \in {1, 2} => AllMailed(Top.for),
           UNCHANGED <<case, lmailvars, out>>
    PROVE  MailInv'
<1>1. SUFFICES ASSUME NEW F, F = Top.for PROVE MailInv'
  OBVIOUS
<1>2. /\ Proper(Front(stack))
      /\ \A j \in DOMAIN Front(stack) : FrameFor(Front(stack)[j], F)
      /\ \A j \in DOMAIN stack : stack[j].for = F
      /\ stage \notin {"master", "done"}
  BY <1>1, TopFrame
<1>3. stack' = Front(stack) /\ ret' = r  BY DEF ReturnForward
<1>4. /\ Proper(stack')
      /\ \A j \in DOMAIN stack' : FrameFor(stack'[j], F)
  BY <1>2, <1>3
<1>5. ret' \in {1, 2} => AllMailed(F)  BY <1>1, <1>3
<1> QED  BY <1>2, <1>3, <1>4, <1>5, FrameStep

LEMMA ForwardNextStep ==
    ASSUME MailInv, ForwardNext
    PROVE  MailInv'
<1>1. /\ stack # <<>> /\ call = Null /\ ret = Null /\ UNCHANGED <<case, lmailvars, out>>
  BY DEF ForwardNext, InForward
<1>2. FrameFor(Top, Top.for)  BY <1>1, TopFrame
<1>3. \/ ReturnForward(0) /\ UNCHANGED call
      \/ \E f : /\ Put(f) /\ FrameFor(f, Top.for) /\ UNCHANGED ret
                /\ UNCHANGED call \/ \E addrs, kind, hop : call' = Call(addrs, kind, hop, Top.for)
  <2>1. \E f \in {Top} : \E a \in {AfterOwn(Head(f.rest))} :
        \E r \in {remote_address(rt, a)} : \E p \in {user_at_node(r.rt, r.addr)} :
            \/ ReturnForward(0) /\ UNCHANGED call
            \/ Put(Gathered(f, r)) /\ UNCHANGED call /\ UNCHANGED ret
            \/ /\ Put(Anew(f, r, p)) /\ UNCHANGED ret
               /\ call' = Call(f.pcoll, f.kind, f.hop, f.for)
    BY DEF ForwardNext
  <2>2. \A r : FrameFor(Gathered(Top, r), Top.for)
    BY <1>2 DEF FrameFor, Gathered
  <2>3. \A r, p : FrameFor(Anew(Top, r, p), Top.for)
    BY <1>2 DEF FrameFor, Anew
  <2> QED  BY <2>1, <2>2, <2>3
<1>4. CASE ReturnForward(0) /\ UNCHANGED call
  <2>1. 0 \in Results /\ 0 \notin {1, 2}  BY DEF Results
  <2> QED  BY <1>1, <1>4, <2>1, PopStep
<1>5. ASSUME NEW f, Put(f), FrameFor(f, Top.for), UNCHANGED ret,
             UNCHANGED call \/ \E addrs, kind, hop : call' = Call(addrs, kind, hop, Top.for)
      PROVE MailInv'
  <2>1. call' # Null => call'.for = Top.for  BY <1>1, <1>5 DEF Call
  <2> QED  BY <1>1, <1>5, <2>1, PutStep
<1> QED  BY <1>3, <1>4, <1>5

LEMMA ForwardLastStep ==
    ASSUME MailInv, ForwardLast
    PROVE  MailInv'
<1>1. /\ stack # <<>> /\ call = Null /\ ret' = Null /\ UNCHANGED <<case, lmailvars, out>>
      /\ call' = Call(Top.pcoll, Top.kind, Top.hop, Top.for)
      /\ Put([Top EXCEPT !.pcoll = <<>>])
  BY DEF ForwardLast, InForward
<1>2. FrameFor(Top, Top.for)  BY <1>1, TopFrame
<1>3. FrameFor([Top EXCEPT !.pcoll = <<>>], Top.for)  BY <1>2 DEF FrameFor
<1>4. call'.for = Top.for  BY <1>1 DEF Call
<1> QED  BY <1>1, <1>3, <1>4, PutStep

\* The status of a frame changes.
LEMMA StatusSet ==
    ASSUME NEW f, NEW F, FrameFor(f, F), NEW v \in Results, v > 0 => AllMailed(F)
    PROVE  FrameFor([f EXCEPT !.status = v], F)
<1> DEFINE g == [f EXCEPT !.status = v]
<1>1. {"for", "status"} \subseteq DOMAIN f /\ f.for = F  BY DEF FrameFor
<1>2. DOMAIN g = DOMAIN f /\ g.for = F /\ g.status = v  BY <1>1
<1> HIDE DEF g
<1>3. FrameFor(g, F)  BY <1>1, <1>2 DEF FrameFor
<1> QED  BY <1>3 DEF g

LEMMA ForwardReturnedStep ==
    ASSUME MailInv, ForwardReturned
    PROVE  MailInv'
<1>1. /\ stack # <<>> /\ call = Null /\ ret # Null /\ ret' = Null /\ call' = Null
      /\ UNCHANGED <<case, lmailvars, out>>
      /\ Put([Top EXCEPT !.status = IF ret # 0 THEN ret ELSE @])
  BY DEF ForwardReturned
<1>2. FrameFor(Top, Top.for) /\ (ret \in {1, 2} => AllMailed(Top.for))
  BY <1>1, TopFrame
<1>3. ret \in Results  BY <1>1 DEF MailInv, MailTypes
<1>4. FrameFor([Top EXCEPT !.status = IF ret # 0 THEN ret ELSE @], Top.for)
  <2>1. CASE ret # 0
    <3>1. ret > 0 => ret \in {1, 2}  BY <1>3 DEF Results
    <3>2. FrameFor([Top EXCEPT !.status = ret], Top.for)  BY <3>1, <1>2, <1>3, StatusSet
    <3> QED  BY <3>2, <2>1
  <2>2. CASE ret = 0
    <3>1. Top.status \in Results /\ (Top.status > 0 => AllMailed(Top.for))
      BY <1>2 DEF FrameFor
    <3>2. FrameFor([Top EXCEPT !.status = Top.status], Top.for)
      BY <3>1, <1>2, StatusSet
    <3> QED  BY <3>2, <2>2
  <2> QED  BY <2>1, <2>2
<1> QED  BY <1>1, <1>4, PutStep

LEMMA ForwardEndStep ==
    ASSUME MailInv, ForwardEnd
    PROVE  MailInv'
<1>1. /\ stack # <<>> /\ call = Null /\ call' = Null /\ UNCHANGED <<case, lmailvars, out>>
      /\ ReturnForward(Top.status)
  BY DEF ForwardEnd, InForward
<1>2. FrameFor(Top, Top.for)  BY <1>1, TopFrame
<1>3. SUFFICES ASSUME NEW r, r = Top.status PROVE MailInv'
  OBVIOUS
<1>4. r \in Results /\ (r \in {1, 2} => AllMailed(Top.for))
  BY <1>2, <1>3 DEF FrameFor
<1> QED  BY <1>1, <1>3, <1>4, PopStep

-----------------------------------------------------------------------------
\* Between two calls, nothing is in hand.
LEMMA LmailAtWork ==
    ASSUME MailInv, InLmail
    PROVE  /\ stack = <<>> /\ call = Null /\ ret = Null /\ DOMAIN stack = {}
           /\ \A i : ~InHand(i)
<1>1. stack = <<>> /\ call = Null /\ ret = Null  BY DEF InLmail
<1>2. DOMAIN stack = {}  BY <1>1
<1> QED  BY <1>1, <1>2, NullAssumption DEF InHand, Results

\* lmail turns to an argument, the gathered list or a report: nothing that has
\* been delivered changes, and every argument is settled, gathered or in hand.
LEMMA LmailStep ==
    ASSUME MailInv, InLmail, UNCHANGED <<case, stack, ret, out>>,
           nosend' \in Nat, nosend' >= nosend, errcnt' \in Nat, errcnt' >= errcnt, next' \in Nat \ {0},
           stage' \in {"args", "flush", "bounce", "master", "done"},
           Proper(remotes'.addrs),
           remotes'.addrs = <<>> => remotes'.for = {},
           stage' \in {"flush", "bounce", "master"} =>
               next' > Len(case.args) /\ remotes'.for = {},
           stage' \notin {"args", "flush"} => (call' # Null => call'.for = {}),
           stage' \in {"args", "flush"} =>
               \A i \in DOMAIN case.args :
                   i < next' => \/ Settled(i) \/ i \in remotes'.for
                                \/ (call' # Null /\ i \in call'.for),
           stage' \in {"bounce", "master"} => \A i \in DOMAIN case.args : Settled(i),
           MasterHears',
           stage' = "done" =>
               /\ call' = Null
               /\ \/ Heard \/ errcnt' > 0 \/ case.blank
                  \/ \A i \in DOMAIN case.args : Skipped(i) \/ Mailed(i)
    PROVE  MailInv'
<1>0. MailTypes /\ Stages /\ Frames /\ Owed  BY DEF MailInv
<1>1. stack = <<>> /\ call = Null /\ ret = Null /\ DOMAIN stack = {}  BY LmailAtWork
<1>2. /\ \A i : Mailed(i) <=> Mailed(i)'
      /\ \A i : Skipped(i) <=> Skipped(i)'
      /\ \A i : Settled(i) => Settled(i)'
      /\ Heard <=> Heard'
  BY <1>0 DEF MailTypes, Mailed, Settled, Skipped, Heard
<1>3. MailTypes'  BY <1>0 DEF MailTypes, Proper
<1>4. Stages'  BY <1>1 DEF Stages
<1>5. Frames'  BY <1>1, NullAssumption DEF Frames, Results
<1>6. Owed'
  <2>1. \A i : call' # Null /\ i \in call'.for => InHand(i)'  BY DEF InHand
  <2> QED  BY <1>2, <2>1 DEF Owed
<1>7. Ended'  BY <1>1, <1>2 DEF Ended, InLmail
<1> QED  BY <1>3, <1>4, <1>5, <1>6, <1>7 DEF MailInv

LEMMA SkipMeStep ==
    ASSUME MailInv, SkipMe
    PROVE  MailInv'
<1>0. MailTypes /\ Stages /\ Owed /\ MasterHears  BY DEF MailInv
<1>1. /\ stage = "args" /\ InLmail /\ next' = next + 1 /\ Skipped(next)
      /\ UNCHANGED <<case, rt, stage, remotes, call, batch, stack, ret, ProcessForward, out,
                     unsent, local, nosend, errcnt, mishaps>>
  BY DEF SkipMe, Argument, Skipped
<1>2. DOMAIN case.args = 1..Len(case.args)  BY Arguments
<1>3. call = Null /\ \A i : ~InHand(i)  BY <1>1, LmailAtWork
<1>4. ASSUME NEW i \in DOMAIN case.args, i < next' PROVE Settled(i) \/ i \in remotes'.for
  <2>1. CASE i = next  BY <2>1, <1>1 DEF Settled
  <2>2. CASE i # next
    <3>1. i < next  BY <2>2, <1>0, <1>1, <1>2, <1>4 DEF MailTypes
    <3> QED  BY <3>1, <1>0, <1>1, <1>3 DEF Owed
  <2> QED  BY <2>1, <2>2
<1>5. MasterHears'  BY <1>1 DEF MasterHears
<1>6. /\ next' \in Nat \ {0} /\ errcnt' \in Nat /\ errcnt' >= errcnt
      /\ nosend' \in Nat /\ nosend' >= nosend
  BY <1>0, <1>1 DEF MailTypes
<1>7. Proper(remotes'.addrs)  BY <1>0, <1>1 DEF MailTypes
<1> QED  BY <1>0, <1>1, <1>3, <1>4, <1>5, <1>6, <1>7, LmailStep DEF Stages

\* The arguments up to and with the next one, once that one is taken care of.
LEMMA UpToNext ==
    ASSUME MailInv, InLmail, stage = "args", next' = next + 1,
           NEW i \in DOMAIN case.args, i < next'
    PROVE  Settled(i) \/ i \in remotes.for \/ i = next
<1>0. MailTypes /\ Owed  BY DEF MailInv
<1>1. DOMAIN case.args = 1..Len(case.args)  BY Arguments
<1>2. \A k : ~InHand(k)  BY LmailAtWork
<1>3. i = next \/ i < next  BY <1>0, <1>1 DEF MailTypes
<1> QED  BY <1>0, <1>2, <1>3 DEF Owed

LEMMA TakeRemoteStep ==
    ASSUME MailInv, NullIsNoCall, TakeRemote
    PROVE  MailInv'
<1>0. MailTypes /\ Stages /\ Owed /\ MasterHears  BY DEF MailInv
<1>1. /\ stage = "args" /\ InLmail /\ next' = next + 1
      /\ UNCHANGED <<case, stage, stack, ret, out, nosend, errcnt>>
  BY DEF TakeRemote
<1>2. \/ \E addr, path :
            /\ remotes' = [addrs |-> Append(remotes.addrs, addr), path |-> path,
                           for |-> remotes.for \cup {next}]
            /\ UNCHANGED call
      \/ \E addr, path, hop :
            /\ remotes' = [addrs |-> <<addr>>, path |-> path, for |-> {next}]
            /\ call' = Call(remotes.addrs, "remote", hop, remotes.for)
  BY DEF TakeRemote
<1>3. call = Null  BY <1>1, LmailAtWork
<1>4. Proper(remotes.addrs)  BY <1>0 DEF MailTypes
<1>5. /\ Proper(remotes'.addrs) /\ remotes'.addrs # <<>> /\ next \in remotes'.for
      /\ \A i \in remotes.for : i \in remotes'.for \/ (call' # Null /\ i \in call'.for)
  <2>1. CASE \E addr, path :
            /\ remotes' = [addrs |-> Append(remotes.addrs, addr), path |-> path,
                           for |-> remotes.for \cup {next}]
            /\ UNCHANGED call
    BY <2>1, <1>4, Appended
  <2>2. CASE \E addr, path, hop :
            /\ remotes' = [addrs |-> <<addr>>, path |-> path, for |-> {next}]
            /\ call' = Call(remotes.addrs, "remote", hop, remotes.for)
    <3>1. call' # Null /\ call'.for = remotes.for  BY <2>2 DEF NullIsNoCall, Call
    <3>2. PICK addr : remotes'.addrs = <<addr>> /\ next \in remotes'.for  BY <2>2
    <3>3. Proper(remotes'.addrs) /\ remotes'.addrs # <<>>  BY <3>2, ProperSeq
    <3> QED  BY <3>1, <3>2, <3>3
  <2> QED  BY <1>2, <2>1, <2>2
<1>6. \A i \in DOMAIN case.args :
         i < next' => Settled(i) \/ i \in remotes'.for \/ (call' # Null /\ i \in call'.for)
  BY <1>1, <1>5, UpToNext
<1>7. MasterHears'  BY <1>1 DEF MasterHears
<1>8. /\ next' \in Nat \ {0} /\ errcnt' \in Nat /\ errcnt' >= errcnt
      /\ nosend' \in Nat /\ nosend' >= nosend
  BY <1>0, <1>1 DEF MailTypes
<1> QED  BY <1>1, <1>5, <1>6, <1>7, <1>8, LmailStep

LEMMA TakeLocalStep ==
    ASSUME MailInv, NullIsNoCall, TakeLocal
    PROVE  MailInv'
<1>0. MailTypes /\ Stages /\ Owed /\ MasterHears  BY DEF MailInv
<1>1. /\ stage = "args" /\ InLmail /\ next' = next + 1
      /\ UNCHANGED <<case, stage, remotes, stack, ret, out, nosend, errcnt>>
      /\ \E addrs, kind, hop : call' = Call(addrs, kind, hop, {next})
  BY DEF TakeLocal
<1>2. call' # Null /\ call'.for = {next}  BY <1>1 DEF NullIsNoCall, Call
<1>3. \A i \in DOMAIN case.args :
         i < next' => Settled(i) \/ i \in remotes'.for \/ (call' # Null /\ i \in call'.for)
  BY <1>1, <1>2, UpToNext
<1>4. MasterHears'  BY <1>1 DEF MasterHears
<1>5. /\ next' \in Nat \ {0} /\ errcnt' \in Nat /\ errcnt' >= errcnt
      /\ nosend' \in Nat /\ nosend' >= nosend
  BY <1>0, <1>1 DEF MailTypes
<1>6. Proper(remotes'.addrs)  BY <1>0, <1>1 DEF MailTypes
<1> QED  BY <1>0, <1>1, <1>3, <1>4, <1>5, <1>6, LmailStep DEF Stages

LEMMA FlushStep ==
    ASSUME MailInv, NullIsNoCall, Flush
    PROVE  MailInv'
<1>0. MailTypes /\ Stages /\ Owed /\ MasterHears  BY DEF MailInv
<1>1. /\ stage = "args" /\ InLmail /\ next > Len(case.args) /\ stage' = "flush"
      /\ remotes' = Nobody
      /\ UNCHANGED <<case, next, stack, ret, out, nosend, errcnt>>
      /\ \/ remotes.addrs = <<>>
         \/ \E hop : call' = Call(remotes.addrs, "remote", hop, remotes.for)
  BY DEF Flush
<1>2. \A i : ~InHand(i)  BY <1>1, LmailAtWork
<1>3. ASSUME NEW i \in remotes.for PROVE call' # Null /\ i \in call'.for
  BY <1>0, <1>1, <1>3 DEF Stages, NullIsNoCall, Call
<1>4. \A i \in DOMAIN case.args :
         i < next' => Settled(i) \/ i \in remotes'.for \/ (call' # Null /\ i \in call'.for)
  BY <1>0, <1>1, <1>2, <1>3 DEF Owed
<1>5. MasterHears'  BY <1>1 DEF MasterHears
<1>6. /\ next' \in Nat \ {0} /\ errcnt' \in Nat /\ errcnt' >= errcnt
      /\ nosend' \in Nat /\ nosend' >= nosend
  BY <1>0, <1>1 DEF MailTypes
<1>7. Proper(remotes'.addrs) /\ remotes'.for = {}  BY <1>1, ProperSeq DEF Nobody
<1> QED  BY <1>1, <1>4, <1>5, <1>6, <1>7, LmailStep

LEMMA ReturnedStep ==
    ASSUME MailInv, Returned
    PROVE  MailInv'
<1>0. MailTypes /\ Stages /\ Frames /\ Owed /\ MasterHears /\ Ended  BY DEF MailInv
<1>1. /\ stack = <<>> /\ call = Null /\ ret # Null /\ ret' = Null
      /\ errcnt' = errcnt + (IF ret < 0 THEN 1 ELSE 0)
      /\ nosend' = nosend + (IF ret <= 0 THEN 1 ELSE 0)
      /\ UNCHANGED <<case, rt, stage, next, remotes, call, stack, ProcessForward, out, mishaps>>
  BY DEF Returned, Undelivered
<1>2. ret \in {-1, 0, 1, 2}  BY <1>0, <1>1 DEF MailTypes, Results
<1>3. /\ errcnt \in Nat /\ nosend \in Nat  BY <1>0 DEF MailTypes
<1>4. /\ errcnt' \in Nat /\ nosend' \in Nat /\ nosend' >= nosend /\ errcnt' >= errcnt
      /\ ret = -1 => errcnt' > 0
      /\ ret \in {-1, 0} => nosend' > 0
  BY <1>1, <1>2, <1>3
<1>5. DOMAIN stack = {}  BY <1>1
<1>6. stage # "done"  BY <1>0, <1>1 DEF Ended, InLmail
<1>7. MailTypes'  BY <1>0, <1>1, <1>4 DEF MailTypes, Proper
<1>8. Stages'  BY <1>0, <1>1, <1>5 DEF Stages
<1>9. Frames'  BY <1>1, <1>5, NullAssumption DEF Frames, Results
<1>10. \A i : Settled(i) => Settled(i)'
  BY <1>1, <1>3, <1>4 DEF Settled, Skipped, Mailed
<1>11. ASSUME NEW i, InHand(i) PROVE Settled(i)'
  BY <1>1, <1>4, <1>5, <1>11 DEF InHand, Settled
<1>12. Owed'  BY <1>0, <1>1, <1>10, <1>11 DEF Owed
<1>13. MasterHears'
  <2>1. SUFFICES ASSUME stage = "master" PROVE MasterHears'
    BY <1>1 DEF MasterHears
  <2>2. \/ call = Call(<<Person(Postmaster)>>, "local", 0, {})
        \/ ret = -1
        \/ ret \in {1, 2} /\ Heard
    BY <2>1, <1>0, <1>1 DEF MasterHears
  <2>3. Heard => Heard'  BY <1>1 DEF Heard
  <2>4. CASE call = Call(<<Person(Postmaster)>>, "local", 0, {})
    BY <2>4, <2>1, <1>1 DEF MasterHears
  <2>5. CASE ret = -1
    BY <2>5, <2>1, <1>1, <1>4 DEF MasterHears
  <2>6. CASE ret \in {1, 2} /\ Heard
    BY <2>6, <2>3, <2>1, <1>1 DEF MasterHears
  <2> QED  BY <2>2, <2>4, <2>5, <2>6
<1>14. Ended'  BY <1>1, <1>6 DEF Ended
<1> QED  BY <1>7, <1>8, <1>9, <1>12, <1>13, <1>14 DEF MailInv

\* Once the arguments are done and nothing is gathered or in hand, each one
\* is settled.
LEMMA AllSettled ==
    ASSUME MailInv, InLmail, stage \in {"flush", "bounce", "master"}
    PROVE  /\ \A i \in DOMAIN case.args : Settled(i)
           /\ next \in Nat \ {0} /\ errcnt \in Nat /\ nosend \in Nat
           /\ Proper(remotes.addrs) /\ remotes.for = {}
           /\ next > Len(case.args) /\ call = Null
<1>0. MailTypes /\ Stages /\ Owed  BY DEF MailInv
<1>1. DOMAIN case.args = 1..Len(case.args) /\ Len(case.args) \in Nat  BY Arguments
<1>2. /\ next \in Nat \ {0} /\ errcnt \in Nat /\ nosend \in Nat
      /\ Proper(remotes.addrs) /\ remotes.for = {}
      /\ next > Len(case.args)
  BY <1>0 DEF MailTypes, Stages
<1>3. call = Null /\ \A i : ~InHand(i)  BY LmailAtWork
<1>4. \A i \in DOMAIN case.args : i < next  BY <1>1, <1>2
<1> QED  BY <1>0, <1>2, <1>3, <1>4 DEF Owed

LEMMA ReportStep ==
    ASSUME MailInv, Report
    PROVE  MailInv'
<1>1. /\ stage = "flush" /\ InLmail /\ stage' = "bounce"
      /\ UNCHANGED <<case, next, remotes, call, stack, ret, out, errcnt>>
      /\ nosend' = nosend + (IF case.returns = <<>> THEN 1 ELSE 0)
  BY DEF Report
<1>2. /\ \A i \in DOMAIN case.args : Settled(i)
      /\ next \in Nat \ {0} /\ errcnt \in Nat /\ nosend \in Nat
      /\ Proper(remotes.addrs) /\ remotes.for = {}
      /\ next > Len(case.args) /\ call = Null
  BY <1>1, AllSettled
<1>3. nosend' \in Nat /\ nosend' >= nosend  BY <1>1, <1>2
<1>4. MasterHears'  BY <1>1 DEF MasterHears
<1> QED  BY <1>1, <1>2, <1>3, <1>4, LmailStep

LEMMA ToReturnStep ==
    ASSUME MailInv, ToReturn
    PROVE  MailInv'
<1>1. /\ stage = "bounce" /\ InLmail /\ next' = next + 1
      /\ UNCHANGED <<case, stage, remotes, stack, ret, out, errcnt>>
      /\ \/ nosend' = nosend + 1 /\ UNCHANGED call
         \/ nosend' = nosend /\ \E addrs, kind, hop : call' = Call(addrs, kind, hop, {})
  BY DEF ToReturn
<1>2. /\ \A i \in DOMAIN case.args : Settled(i)
      /\ next \in Nat \ {0} /\ errcnt \in Nat /\ nosend \in Nat
      /\ Proper(remotes.addrs) /\ remotes.for = {}
      /\ next > Len(case.args) /\ call = Null
  BY <1>1, AllSettled
<1>3. Len(case.args) \in Nat  BY Arguments
<1>4. /\ nosend' \in Nat /\ nosend' >= nosend
      /\ next' \in Nat \ {0} /\ next' > Len(case.args)
  BY <1>1, <1>2, <1>3
<1>5. call' # Null => call'.for = {}  BY <1>1, <1>2 DEF Call
<1>6. MasterHears'  BY <1>1 DEF MasterHears
<1> QED  BY <1>1, <1>2, <1>4, <1>5, <1>6, LmailStep

LEMMA ToMasterStep ==
    ASSUME MailInv, ToMaster
    PROVE  MailInv'
<1>1. /\ stage = "bounce" /\ InLmail /\ stage' = "master"
      /\ UNCHANGED <<case, next, remotes, stack, ret, out, nosend, errcnt>>
      /\ call' = Call(<<Person(Postmaster)>>, "local", 0, {})
  BY DEF ToMaster
<1>2. call'.for = {}  BY <1>1 DEF Call
<1>3. MasterHears'  BY <1>1, LmailAtWork DEF MasterHears
<1>4. nosend' = nosend /\ nosend \in Nat  BY <1>1, AllSettled
<1> QED  BY <1>1, <1>2, <1>3, <1>4, AllSettled, LmailStep

LEMMA ExitStep ==
    ASSUME MailInv, NullIsNoCall, Exit
    PROVE  MailInv'
<1>0. MasterHears  BY DEF MailInv
<1>1. /\ InLmail /\ stage' = "done"
      /\ \/ stage = "flush" /\ ~Due
         \/ stage = "bounce" /\ nosend = 0
         \/ stage = "master"
      /\ UNCHANGED <<case, next, remotes, call, stack, ret, out, nosend, errcnt>>
  BY DEF Exit
<1>2. /\ \A i \in DOMAIN case.args : Settled(i)
      /\ next \in Nat \ {0} /\ errcnt \in Nat /\ nosend \in Nat
      /\ Proper(remotes.addrs) /\ remotes.for = {}
      /\ call = Null
  BY <1>1, AllSettled
<1>3. \/ Heard \/ errcnt > 0 \/ case.blank
      \/ \A i \in DOMAIN case.args : Skipped(i) \/ Mailed(i)
  <2>1. CASE stage \in {"flush", "bounce"}
    <3>1. ~(nosend > 0) \/ case.blank  BY <2>1, <1>1 DEF Due
    <3> QED  BY <3>1, <1>2 DEF Settled
  <2>2. CASE stage = "master"
    <3>1. call = Null /\ ret = Null  BY <1>1 DEF InLmail
    <3>2. \/ call = Call(<<Person(Postmaster)>>, "local", 0, {})
          \/ errcnt > 0 \/ Heard
      BY <2>2, <3>1, <1>0, NullAssumption DEF MasterHears, Results
    <3> QED  BY <3>1, <3>2 DEF NullIsNoCall
  <2> QED  BY <2>1, <2>2, <1>1
<1>4. MasterHears'  BY <1>1 DEF MasterHears
<1> QED  BY <1>1, <1>2, <1>3, <1>4, LmailStep

LEMMA NoTempFileStep ==
    ASSUME MailInv, NoTempFile
    PROVE  MailInv'
<1>0. MailTypes /\ Stages /\ MasterHears  BY DEF MailInv
<1>1. /\ InLmail /\ stage' = "done" /\ errcnt' = errcnt + 1
      /\ stage = "args" \/ stage \in {"flush", "bounce"}
      /\ UNCHANGED <<case, next, remotes, call, stack, ret, out, nosend>>
  BY DEF NoTempFile
<1>2. call = Null  BY <1>1 DEF InLmail
<1>3. /\ next' \in Nat \ {0} /\ errcnt' \in Nat /\ errcnt' > 0 /\ errcnt' >= errcnt
      /\ nosend' \in Nat /\ nosend' >= nosend
      /\ Proper(remotes'.addrs)
  BY <1>0, <1>1 DEF MailTypes
<1>4. MasterHears'  BY <1>1 DEF MasterHears
<1> QED  BY <1>0, <1>1, <1>2, <1>3, <1>4, LmailStep DEF Stages

LEMMA MailNextInv ==
    ASSUME MailInv, NullIsNoCall, [MailNext]_mailVars
    PROVE  MailInv'
<1>1. CASE sendone
  <2>1. CASE TooManyHops \/ NoSuchUser  BY <2>1, RefusedStep
  <2>2. CASE OpenForward  BY <2>2, OpenForwardStep
  <2>3. CASE ForwardNext  BY <2>3, ForwardNextStep
  <2>4. CASE ForwardLast  BY <2>4, ForwardLastStep
  <2>5. CASE ForwardEnd  BY <2>5, ForwardEndStep
  <2>6. CASE ForwardReturned  BY <2>6, ForwardReturnedStep
  <2>7. CASE ToMailbox \/ ToUux
    <3>1. Written(1) /\ 1 \in {1, 2}  BY <2>7 DEF ToMailbox, ToUux
    <3> QED  BY <3>1, WrittenStep
  <2>8. CASE ToProgram
    <3>1. PICK exit \in {0, 48} : Written(IF exit = 48 THEN 2 ELSE 1)
      BY <2>8 DEF ToProgram
    <3>2. CASE exit = 48  BY <3>1, <3>2, WrittenStep
    <3>3. CASE exit = 0  BY <3>1, <3>3, WrittenStep
    <3> QED  BY <3>1, <3>2, <3>3
  <2>9. CASE DeliverFails \/ ProgramRefuses  BY <2>9, NotWrittenStep
  <2>10. CASE UuxUnseen  BY <2>10, UuxUnseenStep
  <2> QED  BY <1>1, <2>1, <2>2, <2>3, <2>4, <2>5, <2>6, <2>7, <2>8, <2>9, <2>10 DEF sendone
<1>2. CASE lmail
  BY <1>2, SkipMeStep, TakeRemoteStep, TakeLocalStep, FlushStep, ReturnedStep, ReportStep,
     ToReturnStep, ToMasterStep, ExitStep, NoTempFileStep DEF lmail
<1>3. CASE UNCHANGED mailVars
  BY <1>3 DEF mailVars, MailInv, MailTypes, Stages, Frames, FrameFor, Owed, MasterHears, Ended,
              InLmail, Settled, Skipped, Mailed, AllMailed, Heard, InHand, Proper, ToSet
<1> QED  BY <1>1, <1>2, <1>3 DEF MailNext

LEMMA MailInvAlways ==
    ASSUME NullIsNoCall
    PROVE  MailSpec => []MailInv
<1>1. MailInv /\ [MailNext]_mailVars => MailInv'  BY MailNextInv
<1> QED  BY <1>1, MailInitInv, PTL DEF MailSpec

(***************************************************************************)
(* rmail forgets no addressee: when it ends, each one is skipped on        *)
(* purpose, or has got the message somewhere, or the sender or the         *)
(* postmaster has been written to, or the exit code says that something    *)
(* went wrong -- whatever the host table, the forward files, the return    *)
(* addresses, the way the addresses are gathered and the faults.  Told     *)
(* leaves out the two cases in which the code itself tells nobody.         *)
(***************************************************************************)
THEOREM MailIsTold ==
    ASSUME NullIsNoCall
    PROVE  MailSpec => []Told
<1>1. MailInv => Told
  <2> SUFFICES ASSUME MailInv, stage = "done", NEW i \in DOMAIN case.args
               PROVE  \/ Stripped(case.args[i]) \in case.skip
                      \/ \E k \in DOMAIN out :
                            out[k].what \in {"mail", "lost"} /\ i \in out[k].for
                      \/ \E k \in DOMAIN out : out[k].what \in {"report", "notice"}
                      \/ errcnt > 0
                      \/ case.blank
    BY DEF Told
  <2> QED  BY DEF MailInv, Ended, Skipped, Mailed, Heard
<1> QED  BY <1>1, MailInvAlways, PTL

-----------------------------------------------------------------------------
(***************************************************************************)
(* rmail's lookups: each addressee goes along his own path.                *)
(***************************************************************************)
LEMMA NatInductive ==
    ASSUME NEW S, 0 \in S, \A n \in Nat : n \in S => n + 1 \in S
    PROVE  \A n \in Nat : n \in S
<1> SUFFICES ASSUME Nat \ S # {} PROVE FALSE
  OBVIOUS
<1>1. PICK m \in Nat \ S : \A k \in Nat \ S : ~(<<k, m>> \in OpToRel(<, Nat))
  BY WFMin, NatLessThanWellFounded, Zenon
<1>2. m # 0 /\ m - 1 \in Nat /\ m - 1 < m /\ (m - 1) + 1 = m
  OBVIOUS
<1>3. m - 1 \in S
  BY <1>1, <1>2 DEF OpToRel
<1> QED BY <1>2, <1>3

LEMMA SeqInductive ==
    ASSUME NEW C, NEW P, <<>> \in P,
           \A w \in Seq(C) : \A b \in C : w \in P => Append(w, b) \in P
    PROVE  \A w \in Seq(C) : w \in P
<1> DEFINE S == {n \in Nat : \A w \in Seq(C) : Len(w) = n => w \in P}
<1>1. 0 \in S
  BY EmptySeq
<1>2. ASSUME NEW n \in Nat, n \in S PROVE n + 1 \in S
  <2> SUFFICES ASSUME NEW w \in Seq(C), Len(w) = n + 1 PROVE w \in P
    OBVIOUS
  <2> DEFINE v == SubSeq(w, 1, n)
             b == w[n + 1]
  <2>1. v \in Seq(C) /\ Len(v) = n /\ b \in C /\ w = Append(v, b)
    OBVIOUS
  <2>2. v \in P
    BY <1>2, <2>1
  <2> QED BY <2>1, <2>2
<1>3. \A n \in Nat : n \in S
  <2> HIDE DEF S
  <2> QED BY <1>1, <1>2, NatInductive
<1> QED BY <1>3

(***************************************************************************)
(* A function that is defined by recursion, each call being made for an    *)
(* argument of a smaller measure: the recursion has a solution in K, the   *)
(* functions of the type it is to have, and any solution g is that one.    *)
(***************************************************************************)
LEMMA LeastOf ==
    ASSUME NEW S, NEW m \in [S -> Nat], NEW B, \E x \in S : x \in B
    PROVE  \E x \in S : x \in B /\ \A y \in S : m[y] < m[x] => y \notin B
<1> DEFINE N == {n \in Nat : \E x \in S : x \in B /\ m[x] = n}
<1>1. N # {} /\ N \subseteq Nat
  OBVIOUS
<1>2. PICK n \in N : \A k \in N : ~(<<k, n>> \in OpToRel(<, Nat))
  BY <1>1, WFMin, NatLessThanWellFounded, Zenon
<1>3. PICK x \in S : x \in B /\ m[x] = n
  BY <1>2
<1>4. ASSUME NEW y \in S, m[y] < m[x] PROVE y \notin B
  BY <1>2, <1>3, <1>4 DEF OpToRel
<1> QED BY <1>3, <1>4

Recursive(S, K, m, G, g) ==
    /\ m \in [S -> Nat] /\ K # {}
    /\ \A f \in K : f = [x \in S |-> f[x]]
    /\ \A f \in K : G[f] \in K
    /\ \A h \in [S -> K] : [x \in S |-> h[x][x]] \in K
    /\ \A f \in K : \A e \in K \cup {g} : \A x \in S :
          (\A y \in S : m[y] < m[x] => e[y] = f[y]) => G[e][x] = G[f][x]

Solved(S, K, G, g) ==
    \E f \in K : f = G[f] /\ (g = [x \in S |-> g[x]] /\ g = G[g] => g = f)

LEMMA Solution ==
    ASSUME NEW S, NEW K, NEW m, NEW G, NEW g, Recursive(S, K, m, G, g)
    PROVE  Solved(S, K, G, g)
<1>a. /\ m \in [S -> Nat] /\ K # {}
      /\ \A f \in K : f = [x \in S |-> f[x]]
      /\ \A f \in K : G[f] \in K
      /\ \A h \in [S -> K] : [x \in S |-> h[x][x]] \in K
      /\ \A f \in K : \A e \in K \cup {g} : \A x \in S :
            (\A y \in S : m[y] < m[x] => e[y] = f[y]) => G[e][x] = G[f][x]
  BY DEF Recursive
<1> USE <1>a
<1> DEFINE A(n) == {f \in K : \A x \in S : m[x] < n => f[x] = G[f][x]}
<1>1. ASSUME NEW n \in Nat, NEW f \in A(n) PROVE G[f] \in A(n + 1)
  <2> SUFFICES ASSUME NEW x \in S, m[x] < n + 1 PROVE G[f][x] = G[G[f]][x]
    OBVIOUS
  <2>1. f \in K /\ G[f] \in K
    OBVIOUS
  <2>2. \A y \in S : m[y] < m[x] => G[f][y] = f[y]
    OBVIOUS
  <2> QED BY <2>1, <2>2
<1>2. \A n \in Nat : A(n) # {}
  <2> DEFINE N == {n \in Nat : A(n) # {}}
  <2>1. 0 \in N
    OBVIOUS
  <2>2. \A n \in Nat : n \in N => n + 1 \in N
    BY <1>1
  <2> HIDE DEF N
  <2>3. \A n \in Nat : n \in N
    BY <2>1, <2>2, NatInductive
  <2> QED BY <2>3 DEF N
<1>3. ASSUME NEW n \in Nat, NEW f \in A(n), NEW k \in Nat, NEW e \in A(k),
             NEW z \in S, m[z] < n, m[z] < k
      PROVE  f[z] = e[z]
  <2> DEFINE B == {x \in S : m[x] < n /\ m[x] < k /\ f[x] # e[x]}
  <2>1. ASSUME z \in B PROVE FALSE
    <3>1. PICK x \in S : x \in B /\ \A y \in S : m[y] < m[x] => y \notin B
      <4> HIDE DEF B
      <4> QED BY <2>1, LeastOf
    <3>2. \A y \in S : m[y] < m[x] => e[y] = f[y]
      BY <3>1
    <3>3. G[e][x] = G[f][x]
      BY <3>2
    <3> QED BY <3>1, <3>3
  <2> QED BY <1>3, <2>1
<1> DEFINE h == [x \in S |-> CHOOSE f \in K : f \in A(m[x] + 1)]
           F == [x \in S |-> h[x][x]]
<1>4. \A x \in S : h[x] \in A(m[x] + 1) /\ h[x] \in K
  <2> SUFFICES ASSUME NEW x \in S PROVE h[x] \in A(m[x] + 1) /\ h[x] \in K
    OBVIOUS
  <2>1. m[x] + 1 \in Nat
    OBVIOUS
  <2>2. \E f \in K : f \in A(m[x] + 1)
    BY <1>2, <2>1
  <2> HIDE DEF A
  <2> QED BY <2>2
<1> HIDE DEF h
<1>5. F \in K
  <2>1. h \in [S -> K]
    BY <1>4 DEF h
  <2> QED BY <2>1
<1>6. \A x \in S : F[x] = G[F][x]
  <2> SUFFICES ASSUME NEW x \in S PROVE F[x] = G[F][x]
    OBVIOUS
  <2>1. h[x] \in K /\ h[x][x] = G[h[x]][x]
    BY <1>4
  <2>2. ASSUME NEW y \in S, m[y] < m[x] PROVE F[y] = h[x][y]
    <3>1. /\ h[x] \in A(m[x] + 1) /\ h[y] \in A(m[y] + 1)
          /\ m[x] + 1 \in Nat /\ m[y] + 1 \in Nat /\ m[y] < m[x] + 1 /\ m[y] < m[y] + 1
      BY <1>4, <2>2
    <3> HIDE DEF A
    <3>2. h[x][y] = h[y][y]
      BY <1>3, <3>1
    <3> QED BY <3>2
  <2> HIDE DEF F
  <2>3. G[F][x] = G[h[x]][x]
    BY <1>5, <2>1, <2>2
  <2>4. F[x] = h[x][x]
    BY DEF F
  <2> QED BY <2>1, <2>3, <2>4
<1> HIDE DEF F
<1>7. F = G[F]
  <2>1. F = [x \in S |-> F[x]] /\ G[F] = [x \in S |-> G[F][x]]
    BY <1>5
  <2> QED BY <1>6, <2>1
<1>8. ASSUME g = [x \in S |-> g[x]], g = G[g] PROVE g = F
  <2> DEFINE B == {x \in S : g[x] # F[x]}
  <2>1. ASSUME NEW z \in S, z \in B PROVE FALSE
    <3>1. PICK x \in S : x \in B /\ \A y \in S : m[y] < m[x] => y \notin B
      <4> HIDE DEF B
      <4> QED BY <2>1, LeastOf
    <3>2. G[g][x] = G[F][x]
      BY <1>5, <3>1
    <3> QED BY <1>6, <1>8, <3>1, <3>2
  <2>2. \A x \in S : g[x] = F[x]
    BY <2>1
  <2>3. F = [x \in S |-> F[x]]
    BY <1>5
  <2> QED BY <1>8, <2>2, <2>3
<1> QED BY <1>5, <1>7, <1>8 DEF Solved

-----------------------------------------------------------------------------
\* The host table, and what a lookup leaves of it.
LEMMA EntryIs ==
    ASSUME NEW e \in Entries
    PROVE  /\ e.name \in Hosts /\ e.status \in States /\ e.realname \in Hosts \cup {Null}
           /\ e.via \in Hosts \cup {Null} /\ e.aliased \in BOOLEAN /\ e.routed \in BOOLEAN
           /\ e.aliased => e.realname # Null
BY DEF Entries

LEMMA TableIs ==
    ASSUME NEW tab \in Tables
    PROVE  /\ tab.hosts \in Seq(Entries) /\ tab.last \in Lasts
           /\ Len(tab.hosts) \in Nat /\ DOMAIN tab.hosts = 1..Len(tab.hosts)
           /\ 0 \notin DOMAIN tab.hosts
           /\ \A i \in DOMAIN tab.hosts : tab.hosts[i] \in Entries
BY DEF Tables

LEMMA WriteIs ==
    ASSUME NEW tab \in Tables, NEW i \in DOMAIN tab.hosts, NEW e \in Entries
    PROVE  /\ Write(tab, i, e) \in Tables
           /\ Write(tab, i, e).last = tab.last
           /\ DOMAIN Write(tab, i, e).hosts = DOMAIN tab.hosts
           /\ Write(tab, i, e).hosts[i] = e
           /\ \A j \in DOMAIN tab.hosts : j # i => Write(tab, i, e).hosts[j] = tab.hosts[j]
<1> DEFINE h == [tab.hosts EXCEPT ![i] = e]
<1>1. tab.hosts \in Seq(Entries)
  BY DEF Tables
<1>2. h \in Seq(Entries) /\ DOMAIN h = DOMAIN tab.hosts /\ h[i] = e
  BY <1>1
<1>3. \A j \in DOMAIN tab.hosts : j # i => h[j] = tab.hosts[j]
  OBVIOUS
<1> HIDE DEF h
<1>4. Write(tab, i, e) = [tab EXCEPT !.hosts = h]
  BY DEF Write, h
<1>5. [tab EXCEPT !.hosts = h] = [hosts |-> h, last |-> tab.last] /\ tab.last \in Lasts
  BY DEF Tables
<1>6. [tab EXCEPT !.hosts = h] \in Tables
  BY <1>2, <1>5 DEF Tables
<1> QED BY <1>2, <1>3, <1>4, <1>5, <1>6

\* The names and states of the hosts are the same.
SameHosts(h, k) ==
    /\ DOMAIN k = DOMAIN h
    /\ \A i \in DOMAIN h : k[i].name = h[i].name /\ k[i].status = h[i].status

\* After a call of HostAlias, and of HostPath.
Renamed(h, k) ==
    /\ SameHosts(h, k)
    /\ \A i \in DOMAIN h : k[i].via = h[i].via /\ k[i].routed = h[i].routed
                           /\ (h[i].aliased => k[i].aliased)

Looked(h, k) ==
    /\ SameHosts(h, k)
    /\ \A i \in DOMAIN h : h[i].routed => k[i].routed

LEMMA FindIs ==
    ASSUME NEW tab \in Tables, NEW n
    PROVE  /\ Find(tab.hosts, n) \in DOMAIN tab.hosts \cup {0}
           /\ Find(tab.hosts, n) # 0 => tab.hosts[Find(tab.hosts, n)].name = n
<1>1. CASE \E i \in DOMAIN tab.hosts : tab.hosts[i].name = n
  <2> DEFINE k == CHOOSE i \in DOMAIN tab.hosts : tab.hosts[i].name = n
  <2>1. k \in DOMAIN tab.hosts /\ tab.hosts[k].name = n
    BY <1>1
  <2>2. Find(tab.hosts, n) = k
    BY <1>1 DEF Find
  <2> QED BY <2>1, <2>2
<1>2. CASE ~ \E i \in DOMAIN tab.hosts : tab.hosts[i].name = n
  BY <1>2 DEF Find
<1> QED BY <1>1, <1>2

LEMMA FindSame ==
    ASSUME NEW h, NEW k, SameHosts(h, k)
    PROVE  \A n : Find(k, n) = Find(h, n)
<1> SUFFICES ASSUME NEW n PROVE Find(k, n) = Find(h, n)
  OBVIOUS
<1>1. {i \in DOMAIN k : k[i].name = n} = {i \in DOMAIN h : h[i].name = n}
  BY DEF SameHosts
<1>2. /\ (\E i \in DOMAIN k : k[i].name = n) <=> (\E i \in DOMAIN h : h[i].name = n)
      /\ \A i : (i \in DOMAIN k /\ k[i].name = n) <=> (i \in DOMAIN h /\ h[i].name = n)
  BY DEF SameHosts
<1>3. (CHOOSE i \in DOMAIN k : k[i].name = n) = (CHOOSE i \in DOMAIN h : h[i].name = n)
  BY <1>2
<1> QED BY <1>2, <1>3 DEF Find

LEMMA CheckIs ==
    ASSUME NEW tab \in Tables, NEW n, checkname(tab.hosts, n) # 0
    PROVE  /\ checkname(tab.hosts, n) \in DOMAIN tab.hosts
           /\ Find(tab.hosts, tab.hosts[checkname(tab.hosts, n)].name) = checkname(tab.hosts, n)
<1>1. PICK c : checkname(tab.hosts, n) = Find(tab.hosts, c)
  BY DEF checkname, FirstOf, FoundAt
<1> QED BY <1>1, FindIs

LEMMA CheckSame ==
    ASSUME NEW h, NEW k, SameHosts(h, k)
    PROVE  \A n : checkname(k, n) = checkname(h, n)
<1> SUFFICES ASSUME NEW n PROVE checkname(k, n) = checkname(h, n)
  OBVIOUS
<1> DEFINE c == Candidates(n)
<1> HIDE DEF c
<1>1. {j \in DOMAIN c : Find(k, c[j]) # 0} = {j \in DOMAIN c : Find(h, c[j]) # 0}
  BY FindSame
<1>2. \A u : Find(k, u) = Find(h, u)
  BY FindSame
<1>3. FirstOf(k, c) = FirstOf(h, c)
  BY <1>1, <1>2 DEF FirstOf, FoundAt
<1> QED BY <1>3 DEF checkname, c

LEMMA FcnIsSeq ==
    ASSUME NEW C, NEW l \in Nat, NEW s \in [1..l -> C]
    PROVE  s \in Seq(C) /\ Len(s) = l
BY SeqDef

LEMMA CandidatesAre ==
    ASSUME NEW n \in Hosts
    PROVE  /\ Candidates(n)[1] = n /\ 1 \in DOMAIN Candidates(n)
           /\ DOMAIN Candidates(n) \subseteq Nat \ {0}
<1> USE RoutingAssumption DEF Hosts
<1> DEFINE p == Len(n) > 1 /\ Last(n) = "UUCP"
           a == IF p THEN <<Front(n)>> ELSE <<>>
           b == IF Len(n) = 1 THEN <<>> ELSE Wildcards(n)
           d == <<n \o E_localdomain>>
<1>1. a \in Seq({Front(n)})
  <2> HIDE DEF p
  <2>1. <<Front(n)>> \in Seq({Front(n)}) /\ <<>> \in Seq({Front(n)})
    <3> DEFINE f == Front(n)
    <3> HIDE DEF f
    <3>1. <<f>> \in Seq({f}) /\ <<>> \in Seq({f})
      OBVIOUS
    <3> QED BY <3>1 DEF f
  <2>2. CASE p
    BY <2>1, <2>2
  <2>3. CASE ~p
    BY <2>1, <2>3
  <2> QED BY <2>2, <2>3
<1>2. d \in Seq({n \o E_localdomain})
  OBVIOUS
<1>3. PICK B : b \in Seq(B)
  <2>1. CASE Len(n) = 1
    BY <2>1, EmptySeq
  <2>2. CASE Len(n) # 1
    <3> DEFINE ours == {k \in 1..(Len(n) - 1) : SubSeq(n, k + 1, Len(n)) = E_domain}
               D == Domains(n)
               k0 == CHOOSE k \in ours : TRUE
               m == IF ours = {} THEN Len(D) ELSE k0
               u == [k \in 1..m |-> <<"*">> \o D[k]]
               v == IF ours = {} THEN << <<"*">> >> ELSE <<>>
    <3>0. Len(D) \in Nat
      <4> DEFINE l == Len(n) - 1
      <4>1. l \in Int /\ (l < 0 => 1..l = 1..0)
        OBVIOUS
      <4>2. D = [k \in 1..l |-> SubSeq(n, k + 1, Len(n))]
        BY DEF Domains
      <4> HIDE DEF l
      <4>3. DOMAIN D = 1..l
        BY <4>2
      <4>4. D = [k \in 1..l |-> D[k]]
        BY <4>2
      <4> HIDE DEF D
      <4>5. CASE l \in Nat
        <5>1. D \in [1..l -> {D[k] : k \in 1..l}]
          BY <4>4
        <5> QED BY <4>5, <5>1, FcnIsSeq
      <4>6. CASE l < 0
        <5>1. D = [k \in 1..0 |-> D[k]]
          BY <4>1, <4>4, <4>6
        <5>2. D \in Seq({D[k] : k \in 1..0})
          BY <5>1
        <5> QED BY <5>2
      <4> QED BY <4>1, <4>5, <4>6
    <3> HIDE DEF D
    <3>a. ours = {} => m = Len(D) /\ v = << <<"*">> >>
      OBVIOUS
    <3>b. ours # {} => m = k0 /\ k0 \in ours /\ v = <<>>
      OBVIOUS
    <3>c. \A k \in ours : k \in Nat
      OBVIOUS
    <3>d. WildcardsOf(D, ours) = u \o v
      BY DEF WildcardsOf
    <3> HIDE DEF m, ours, v, k0
    <3>1. m \in Nat
      BY <3>0, <3>a, <3>b, <3>c
    <3> DEFINE U == {<<"*">> \o D[k] : k \in 1..m} \cup {<<"*">>}
    <3>2. u \in Seq(U)
      <4>1. \A k \in 1..m : u[k] \in U
        OBVIOUS
      <4>2. u = [k \in 1..m |-> u[k]]
        OBVIOUS
      <4> HIDE DEF u, U
      <4>3. u \in [1..m -> U]
        BY <4>1, <4>2
      <4> QED BY <3>1, <4>3, FcnIsSeq
    <3>3. v \in Seq(U)
      <4>1. <<"*">> \in U
        OBVIOUS
      <4> HIDE DEF U
      <4>2. << <<"*">> >> \in Seq(U) /\ <<>> \in Seq(U)
        BY <4>1
      <4> QED BY <3>a, <3>b, <4>2
    <3> HIDE DEF u, U
    <3>4. u \o v \in Seq(U)
      BY <3>2, <3>3
    <3>5. Wildcards(n) = u \o v
      BY <3>d DEF Wildcards, D, ours
    <3> QED BY <2>2, <3>4, <3>5
  <2> QED BY <2>1, <2>2
<1> HIDE DEF a, b, d
<1>4. Candidates(n) = <<n>> \o a \o d \o b
  BY DEF Candidates, a, b, d
<1> DEFINE C == {n} \cup {Front(n)} \cup {n \o E_localdomain} \cup B
<1>5. /\ n \in C /\ {Front(n)} \subseteq C /\ {n \o E_localdomain} \subseteq C /\ B \subseteq C
  OBVIOUS
<1> HIDE DEF C
<1>6. a \in Seq(C) /\ d \in Seq(C) /\ b \in Seq(C) /\ <<n>> \in Seq(C)
  <2>1. \A S, s : S \subseteq C /\ s \in Seq(S) => s \in Seq(C)
    OBVIOUS
  <2>2. <<n>> \in Seq(C)
    BY <1>5
  <2> QED BY <1>1, <1>2, <1>3, <1>5, <2>1, <2>2, Zenon
<1>7. /\ <<n>> \o a \in Seq(C)
      /\ (<<n>> \o a)[1] = n /\ Len(<<n>> \o a) >= 1
  BY <1>6
<1>8. /\ <<n>> \o a \o d \in Seq(C)
      /\ (<<n>> \o a \o d)[1] = n /\ Len(<<n>> \o a \o d) >= 1
  BY <1>6, <1>7
<1>9. /\ <<n>> \o a \o d \o b \in Seq(C)
      /\ (<<n>> \o a \o d \o b)[1] = n /\ Len(<<n>> \o a \o d \o b) >= 1
  BY <1>6, <1>8
<1> QED BY <1>4, <1>9

LEMMA CheckOwn ==
    ASSUME NEW tab \in Tables, NEW n \in Hosts, Find(tab.hosts, n) # 0
    PROVE  checkname(tab.hosts, n) = Find(tab.hosts, n)
<1> DEFINE c == Candidates(n)
           known == {k \in DOMAIN c : Find(tab.hosts, c[k]) # 0}
<1>1. c[1] = n /\ 1 \in DOMAIN c /\ DOMAIN c \subseteq Nat \ {0}
  BY CandidatesAre
<1> HIDE DEF c
<1>2. 1 \in known /\ \A k \in known : k \in Nat /\ 1 <= k
  BY <1>1
<1> HIDE DEF known
<1>3. Min(known) = 1
  BY <1>2 DEF Min
<1>4. FirstOf(tab.hosts, c) = Find(tab.hosts, c[Min(known)])
  BY <1>2 DEF FirstOf, FoundAt, known
<1> QED BY <1>1, <1>3, <1>4 DEF checkname, c

LEMMA RenamedTrans ==
    ASSUME NEW h, NEW k, NEW l, Renamed(h, k), Renamed(k, l)
    PROVE  Renamed(h, l)
BY DEF Renamed, SameHosts

LEMMA WriteRenamed ==
    ASSUME NEW tab \in Tables, NEW i \in DOMAIN tab.hosts, NEW e \in Entries,
           e.name = tab.hosts[i].name, e.status = tab.hosts[i].status,
           e.via = tab.hosts[i].via, e.routed = tab.hosts[i].routed,
           tab.hosts[i].aliased => e.aliased
    PROVE  Renamed(tab.hosts, Write(tab, i, e).hosts)
<1> DEFINE k == Write(tab, i, e).hosts
<1>1. DOMAIN k = DOMAIN tab.hosts /\ k[i] = e
      /\ \A j \in DOMAIN tab.hosts : j # i => k[j] = tab.hosts[j]
  BY WriteIs
<1> HIDE DEF k
<1>2. Renamed(tab.hosts, k)
  BY <1>1 DEF Renamed, SameHosts
<1> QED BY <1>2 DEF k

\* What is written in an entry.
LEMMA EntryWith ==
    ASSUME NEW e \in Entries
    PROVE  /\ e = [name |-> e.name, status |-> e.status, realname |-> e.realname,
                   via |-> e.via, aliased |-> e.aliased, routed |-> e.routed]
           /\ \A a \in Hosts, v \in Hosts \cup {Null}, x \in BOOLEAN, r \in BOOLEAN :
                [name |-> e.name, status |-> e.status, realname |-> a,
                 via |-> v, aliased |-> x, routed |-> r] \in Entries
           /\ \A v \in Hosts \cup {Null}, r \in BOOLEAN :
                [name |-> e.name, status |-> e.status, realname |-> e.realname,
                 via |-> v, aliased |-> e.aliased, routed |-> r] \in Entries
<1>1. e = [name |-> e.name, status |-> e.status, realname |-> e.realname,
           via |-> e.via, aliased |-> e.aliased, routed |-> e.routed]
  BY DEF Entries
<1>2. /\ e.name \in Hosts /\ e.status \in States /\ e.realname \in Hosts \cup {Null}
      /\ e.via \in Hosts \cup {Null} /\ e.aliased \in BOOLEAN /\ e.routed \in BOOLEAN
      /\ e.aliased => e.realname # Null
  BY EntryIs
<1>3. \A a \in Hosts, v \in Hosts \cup {Null}, x \in BOOLEAN, r \in BOOLEAN :
                [name |-> e.name, status |-> e.status, realname |-> a,
                 via |-> v, aliased |-> x, routed |-> r] \in Entries
  BY <1>2, RoutingAssumption DEF Entries, Hosts
<1>4. \A v \in Hosts \cup {Null}, r \in BOOLEAN :
                [name |-> e.name, status |-> e.status, realname |-> e.realname,
                 via |-> v, aliased |-> e.aliased, routed |-> r] \in Entries
  BY <1>2 DEF Entries
<1> QED BY <1>1, <1>3, <1>4

\* What is written in an entry.
LEMMA RealnameIs ==
    ASSUME NEW e \in Entries, NEW a \in Hosts, NEW n, n = [e EXCEPT !.realname = a]
    PROVE  /\ n \in Entries /\ n.name = e.name /\ n.status = e.status /\ n.via = e.via
           /\ n.routed = e.routed /\ n.aliased = e.aliased /\ n.realname = a
<1>1. n = [name |-> e.name, status |-> e.status, realname |-> a,
           via |-> e.via, aliased |-> e.aliased, routed |-> e.routed]
  BY EntryWith
<1> QED BY <1>1, EntryWith, EntryIs

LEMMA AliasedAs ==
    ASSUME NEW e \in Entries, NEW x \in BOOLEAN, NEW n, n = [e EXCEPT !.aliased = x],
           x => e.realname # Null
    PROVE  /\ n \in Entries /\ n.name = e.name /\ n.status = e.status /\ n.via = e.via
           /\ n.routed = e.routed /\ n.aliased = x /\ n.realname = e.realname
<1>1. n = [name |-> e.name, status |-> e.status, realname |-> e.realname,
           via |-> e.via, aliased |-> x, routed |-> e.routed]
  BY EntryWith
<1>2. n.aliased = x
  BY <1>1
<1>3. /\ n.name = e.name /\ n.status = e.status /\ n.via = e.via
      /\ n.routed = e.routed /\ n.realname = e.realname
  BY <1>1
<1>4. n \in Entries
  <2>1. CASE x
    <3>1. e.realname \in Hosts
      BY <2>1, EntryIs
    <3> QED BY <1>1, <3>1, EntryWith, EntryIs
  <2>2. CASE ~x
    BY <1>1, <2>2, EntryIs DEF Entries
  <2> QED BY <2>1, <2>2
<1> QED BY <1>2, <1>3, <1>4

LEMMA AliasedIs ==
    ASSUME NEW e \in Entries, e.realname # Null, NEW n, n = [e EXCEPT !.aliased = TRUE]
    PROVE  /\ n \in Entries /\ n.name = e.name /\ n.status = e.status /\ n.via = e.via
           /\ n.routed = e.routed /\ n.aliased /\ n.realname = e.realname
BY AliasedAs, Zenon

LEMMA OwnNameIs ==
    ASSUME NEW e \in Entries, NEW n, n = [e EXCEPT !.aliased = TRUE, !.realname = e.name]
    PROVE  /\ n \in Entries /\ n.name = e.name /\ n.status = e.status /\ n.via = e.via
           /\ n.routed = e.routed /\ n.aliased /\ n.realname = e.name
<1> DEFINE k == [e EXCEPT !.realname = e.name]
<1>1. e.name \in Hosts /\ e.name # Null
  BY EntryIs, RoutingAssumption DEF Hosts
<1>2. /\ k \in Entries /\ k.name = e.name /\ k.status = e.status /\ k.via = e.via
      /\ k.routed = e.routed /\ k.realname = e.name
  BY <1>1, RealnameIs
<1>3. \A x : [e EXCEPT !.aliased = x, !.realname = e.name] = [k EXCEPT !.aliased = x]
  <2>1. \A x : [e EXCEPT !.aliased = x, !.realname = e.name]
               = [[e EXCEPT !.aliased = x] EXCEPT !.realname = e.name]
    BY Zenon
  <2>2. \A x : [[e EXCEPT !.aliased = x] EXCEPT !.realname = e.name]
               = [[e EXCEPT !.realname = e.name] EXCEPT !.aliased = x]
    OBVIOUS
  <2> QED BY <2>1, <2>2
<1> HIDE DEF k
<1>4. n = [k EXCEPT !.aliased = TRUE]
  BY <1>3, Zenon
<1> QED BY <1>1, <1>2, <1>4, AliasedIs

LEMMA ViaIs ==
    ASSUME NEW e \in Entries, NEW a \in Hosts, NEW n, n = [e EXCEPT !.via = a]
    PROVE  /\ n \in Entries /\ n.name = e.name /\ n.status = e.status /\ n.via = a
           /\ n.routed = e.routed /\ n.aliased = e.aliased /\ n.realname = e.realname
<1>1. n = [name |-> e.name, status |-> e.status, realname |-> e.realname,
           via |-> a, aliased |-> e.aliased, routed |-> e.routed]
  BY EntryWith
<1> QED BY <1>1, EntryWith, EntryIs

LEMMA RoutedAs ==
    ASSUME NEW e \in Entries, NEW x \in BOOLEAN, NEW n, n = [e EXCEPT !.routed = x]
    PROVE  /\ n \in Entries /\ n.name = e.name /\ n.status = e.status /\ n.via = e.via
           /\ n.routed = x /\ n.aliased = e.aliased /\ n.realname = e.realname
<1>1. n = [name |-> e.name, status |-> e.status, realname |-> e.realname,
           via |-> e.via, aliased |-> e.aliased, routed |-> x]
  BY EntryWith
<1>2. n.routed = x
  BY <1>1
<1>3. /\ n.name = e.name /\ n.status = e.status /\ n.via = e.via
      /\ n.aliased = e.aliased /\ n.realname = e.realname
  BY <1>1
<1>4. n \in Entries
  BY <1>1, EntryWith, EntryIs
<1> QED BY <1>2, <1>3, <1>4

LEMMA RoutedIs ==
    ASSUME NEW e \in Entries, NEW n, n = [e EXCEPT !.routed = TRUE]
    PROVE  /\ n \in Entries /\ n.name = e.name /\ n.status = e.status /\ n.via = e.via
           /\ n.routed /\ n.aliased = e.aliased /\ n.realname = e.realname
BY RoutedAs, Zenon

-----------------------------------------------------------------------------
\* HostAlias ends, whatever the table.
AliasArgs == Tables \X Hosts

AliasAnswers(f) ==
    \A q \in AliasArgs :
        /\ f[q].rt \in Tables /\ f[q].to \in Hosts
        /\ f[q].rt.last = q[1].last /\ Renamed(q[1].hosts, f[q].rt.hosts)

AliasFcns == {f \in [AliasArgs -> [rt : Tables, to : Hosts]] : AliasAnswers(f)}

AliasBody(f) == [q \in AliasArgs |-> AliasTurn(f, q[1], q[2], checkname(q[1].hosts, q[2]))]

LEMMA AnswerIs ==
    ASSUME NEW tab, NEW to
    PROVE  Answer(tab, to).rt = tab /\ Answer(tab, to).to = to
BY DEF Answer

LEMMA RenamedRefl == ASSUME NEW h PROVE Renamed(h, h)
BY DEF Renamed, SameHosts

\* The call that HostAlias makes of itself.
LEMMA AliasCall ==
    ASSUME NEW tab \in Tables, NEW i \in DOMAIN tab.hosts, tab.hosts[i].realname # Null
    PROVE  /\ Aliased(tab, i) \in Tables /\ tab.hosts[i].realname \in Hosts
           /\ <<Aliased(tab, i), tab.hosts[i].realname>> \in AliasArgs
           /\ Aliased(tab, i).last = tab.last /\ Renamed(tab.hosts, Aliased(tab, i).hosts)
           /\ Aliased(tab, i).hosts[i].aliased
           /\ Aliased(tab, i).hosts[i].realname = tab.hosts[i].realname
           /\ \A j \in DOMAIN tab.hosts : j # i => Aliased(tab, i).hosts[j] = tab.hosts[j]
<1> DEFINE n == [tab.hosts[i] EXCEPT !.aliased = TRUE]
           w == Write(tab, i, n)
<1>1. tab.hosts[i] \in Entries
  BY TableIs
<1>2. /\ n \in Entries /\ n.name = tab.hosts[i].name /\ n.status = tab.hosts[i].status
      /\ n.via = tab.hosts[i].via /\ n.routed = tab.hosts[i].routed /\ n.aliased
      /\ n.realname = tab.hosts[i].realname
  BY <1>1, AliasedIs
<1>3. Aliased(tab, i) = w
  BY DEF Aliased
<1> HIDE DEF n, w
<1>4. /\ w \in Tables /\ w.last = tab.last /\ w.hosts[i] = n
      /\ \A j \in DOMAIN tab.hosts : j # i => w.hosts[j] = tab.hosts[j]
  BY <1>2, WriteIs DEF w
<1>5. Renamed(tab.hosts, w.hosts)
  BY <1>2, WriteRenamed DEF w
<1>6. tab.hosts[i].realname \in Hosts
  BY <1>1, EntryIs
<1>7. <<w, tab.hosts[i].realname>> \in AliasArgs
  BY <1>4, <1>6 DEF AliasArgs
<1> QED BY <1>2, <1>3, <1>4, <1>5, <1>6, <1>7

LEMMA NoteNameIs ==
    ASSUME NEW tab \in Tables, NEW to \in Hosts, NEW i \in DOMAIN tab.hosts, NEW r,
           r.rt = tab, r.to = to
    PROVE  /\ NoteName(r, i).to = to /\ NoteName(r, i).rt \in Tables
           /\ NoteName(r, i) \in [rt : Tables, to : Hosts]
           /\ NoteName(r, i).rt.last = tab.last /\ Renamed(tab.hosts, NoteName(r, i).rt.hosts)
           /\ NoteName(r, i).rt.hosts[i].aliased = tab.hosts[i].aliased
           /\ NoteName(r, i).rt.hosts[i].realname = to
           /\ \A j \in DOMAIN tab.hosts : j # i => NoteName(r, i).rt.hosts[j] = tab.hosts[j]
<1> DEFINE n == [tab.hosts[i] EXCEPT !.realname = to]
           w == Write(tab, i, n)
<1>1. tab.hosts[i] \in Entries
  BY TableIs
<1>2. /\ n \in Entries /\ n.name = tab.hosts[i].name /\ n.status = tab.hosts[i].status
      /\ n.via = tab.hosts[i].via /\ n.routed = tab.hosts[i].routed
      /\ n.aliased = tab.hosts[i].aliased /\ n.realname = to
  BY <1>1, RealnameIs
<1>3. NoteName(r, i) = [rt |-> w, to |-> to]
  BY DEF NoteName, Answer
<1> HIDE DEF n, w
<1>4. /\ w \in Tables /\ w.last = tab.last /\ w.hosts[i] = n
      /\ \A j \in DOMAIN tab.hosts : j # i => w.hosts[j] = tab.hosts[j]
  BY <1>2, WriteIs DEF w
<1>5. Renamed(tab.hosts, w.hosts)
  BY <1>2, WriteRenamed DEF w
<1>6. NoteName(r, i).rt = w /\ NoteName(r, i).to = to
  BY <1>3
<1>7. NoteName(r, i) \in [rt : Tables, to : Hosts]
  BY <1>3, <1>4
<1> QED BY <1>2, <1>4, <1>5, <1>6, <1>7

LEMMA OwnIs ==
    ASSUME NEW tab \in Tables, NEW i \in DOMAIN tab.hosts, NEW r, r = OwnName(tab, i, tab.hosts[i])
    PROVE  /\ r.to = tab.hosts[i].name /\ r.rt \in Tables
           /\ r \in [rt : Tables, to : Hosts]
           /\ r.rt.last = tab.last /\ Renamed(tab.hosts, r.rt.hosts)
           /\ r.rt.hosts[i].aliased
           /\ r.rt.hosts[i].realname = tab.hosts[i].name
           /\ \A j \in DOMAIN tab.hosts : j # i => r.rt.hosts[j] = tab.hosts[j]
<1> DEFINE e == tab.hosts[i]
           n == [e EXCEPT !.aliased = TRUE, !.realname = e.name]
           w == Write(tab, i, n)
<1>1. e \in Entries
  BY TableIs
<1>2. /\ n \in Entries /\ n.name = e.name /\ n.status = e.status /\ n.via = e.via
      /\ n.routed = e.routed /\ n.aliased /\ n.realname = e.name
  <2> HIDE DEF e
  <2> QED BY <1>1, OwnNameIs
<1>3. r = Answer(w, e.name)
  BY DEF OwnName
<1> HIDE DEF n, w
<1>4. /\ w \in Tables /\ w.last = tab.last /\ w.hosts[i] = n
      /\ \A j \in DOMAIN tab.hosts : j # i => w.hosts[j] = tab.hosts[j]
  BY <1>2, WriteIs DEF w
<1>5. Renamed(tab.hosts, w.hosts)
  BY <1>2, WriteRenamed DEF w
<1>6. r.rt = w /\ r.to = e.name
  BY <1>3, AnswerIs
<1>7. e.name \in Hosts
  BY <1>1, EntryIs
<1>8. r \in [rt : Tables, to : Hosts]
  BY <1>3, <1>4, <1>7 DEF Answer
<1> QED BY <1>2, <1>4, <1>5, <1>6, <1>8

LEMMA AliasTurnIs ==
    ASSUME NEW f \in AliasFcns, NEW q \in AliasArgs, NEW i, i = checkname(q[1].hosts, q[2]),
           NEW r, r = AliasTurn(f, q[1], q[2], i)
    PROVE  /\ r \in [rt : Tables, to : Hosts] /\ r.rt \in Tables /\ r.to \in Hosts
           /\ r.rt.last = q[1].last /\ Renamed(q[1].hosts, r.rt.hosts)
<1> DEFINE tab == q[1]
           n == q[2]
           e == tab.hosts[i]
<1>0. tab \in Tables /\ n \in Hosts
  BY DEF AliasArgs
<1> HIDE DEF tab, n
<1>1. CASE i = 0 \/ (i # 0 /\ NoName(e))
  <2>1. r = [rt |-> tab, to |-> n]
    BY <1>1 DEF AliasTurn, Answer, tab, n
  <2> QED BY <1>0, <2>1, RenamedRefl DEF tab
<1> SUFFICES ASSUME i # 0, ~NoName(e)
             PROVE  /\ r \in [rt : Tables, to : Hosts] /\ r.rt \in Tables /\ r.to \in Hosts
                    /\ r.rt.last = tab.last /\ Renamed(tab.hosts, r.rt.hosts)
  BY <1>1 DEF tab
<1>2. i \in DOMAIN tab.hosts
  BY <1>0, CheckIs DEF tab, n
<1>3. e \in Entries
  BY <1>0, <1>2, TableIs
<1>4. CASE e.aliased
  <2>1. r = [rt |-> tab, to |-> e.realname]
    BY <1>4 DEF AliasTurn, Answer, tab, n
  <2>2. e.realname \in Hosts
    BY <1>3, <1>4, EntryIs
  <2> QED BY <1>0, <2>1, <2>2, RenamedRefl
<1>5. CASE ~e.aliased /\ e.realname = Null
  <2>1. r = OwnName(tab, i, e)
    BY <1>5 DEF AliasTurn, tab, n
  <2>2. e.name \in Hosts
    BY <1>3, EntryIs
  <2> QED BY <1>0, <1>2, <2>1, <2>2, OwnIs
<1>6. CASE ~e.aliased /\ e.realname # Null
  <2> DEFINE c == <<Aliased(tab, i), e.realname>>
             s == f[c]
  <2>1. r = NoteName(s, i)
    BY <1>6 DEF AliasTurn, tab, n
  <2>2. c \in AliasArgs /\ Aliased(tab, i).last = tab.last /\ Renamed(tab.hosts, Aliased(tab, i).hosts)
    BY <1>0, <1>2, <1>6, AliasCall
  <2>3. /\ s.rt \in Tables /\ s.to \in Hosts
        /\ s.rt.last = c[1].last /\ Renamed(c[1].hosts, s.rt.hosts)
    BY <2>2 DEF AliasFcns, AliasAnswers
  <2>4. Renamed(tab.hosts, s.rt.hosts) /\ s.rt.last = tab.last
    <3>1. c[1] = Aliased(tab, i)
      OBVIOUS
    <3> HIDE DEF c
    <3> QED BY <2>2, <2>3, <3>1, RenamedTrans
  <2>5. i \in DOMAIN s.rt.hosts
    BY <1>2, <2>4 DEF Renamed, SameHosts
  <2> HIDE DEF s, c
  <2>6. /\ r \in [rt : Tables, to : Hosts] /\ r.rt \in Tables /\ r.to \in Hosts
        /\ r.rt.last = s.rt.last /\ Renamed(s.rt.hosts, r.rt.hosts)
    BY <2>1, <2>3, <2>5, NoteNameIs
  <2> QED BY <2>4, <2>6, RenamedTrans
<1> QED BY <1>4, <1>5, <1>6

\* How many hosts have not been looked up.
Unaliased(q) == {i \in DOMAIN q[1].hosts : ~q[1].hosts[i].aliased}
AliasLeft == [q \in AliasArgs |-> Cardinality(Unaliased(q))]

LEMMA TableFinite ==
    ASSUME NEW tab \in Tables
    PROVE  IsFiniteSet(DOMAIN tab.hosts)
<1>1. Len(tab.hosts) \in Int /\ DOMAIN tab.hosts = 1..Len(tab.hosts) /\ 1 \in Int
  BY TableIs
<1> QED BY <1>1, FS_Interval

LEMMA AliasLess ==
    ASSUME NEW tab \in Tables, NEW i \in DOMAIN tab.hosts, NEW n \in Hosts,
           tab.hosts[i].realname # Null, ~tab.hosts[i].aliased
    PROVE  AliasLeft[<<Aliased(tab, i), tab.hosts[i].realname>>] < AliasLeft[<<tab, n>>]
<1> DEFINE c == <<Aliased(tab, i), tab.hosts[i].realname>>
           q == <<tab, n>>
<1>1. /\ c \in AliasArgs /\ Renamed(tab.hosts, Aliased(tab, i).hosts)
      /\ Aliased(tab, i).hosts[i].aliased /\ Aliased(tab, i) \in Tables
      /\ \A j \in DOMAIN tab.hosts : j # i => Aliased(tab, i).hosts[j] = tab.hosts[j]
  BY AliasCall
<1>2. c[1] = Aliased(tab, i) /\ q[1] = tab
  OBVIOUS
<1>3. q \in AliasArgs
  BY DEF AliasArgs
<1> HIDE DEF c, q
<1>4. IsFiniteSet(Unaliased(q))
  BY <1>2, TableFinite, FS_Subset DEF Unaliased
<1>5. i \in Unaliased(q)
  BY <1>2 DEF Unaliased
<1>6. Unaliased(c) = Unaliased(q) \ {i}
  BY <1>1, <1>2 DEF Unaliased, Renamed, SameHosts
<1>7. Cardinality(Unaliased(c)) = Cardinality(Unaliased(q)) - 1 /\ Cardinality(Unaliased(q)) \in Nat
  BY <1>4, <1>5, <1>6, FS_RemoveElement, FS_CardinalityType
<1>8. AliasLeft[c] = Cardinality(Unaliased(c)) /\ AliasLeft[q] = Cardinality(Unaliased(q))
  BY <1>1, <1>3 DEF AliasLeft
<1>9. AliasLeft[c] < AliasLeft[q]
  BY <1>7, <1>8
<1> QED BY <1>9 DEF c, q

LEMMA AliasLeftIs == AliasLeft \in [AliasArgs -> Nat]
<1>1. ASSUME NEW q \in AliasArgs PROVE Cardinality(Unaliased(q)) \in Nat
  <2>1. q[1] \in Tables
    BY DEF AliasArgs
  <2>2. IsFiniteSet(Unaliased(q))
    BY <2>1, TableFinite, FS_Subset DEF Unaliased
  <2> QED BY <2>2, FS_CardinalityType
<1> QED BY <1>1 DEF AliasLeft

\* The turn depends on the answer to smaller questions only.
LEMMA AliasTurnSame ==
    ASSUME NEW f, NEW e, NEW q \in AliasArgs,
           \A y \in AliasArgs : AliasLeft[y] < AliasLeft[q] => e[y] = f[y]
    PROVE  AliasTurn(e, q[1], q[2], checkname(q[1].hosts, q[2]))
             = AliasTurn(f, q[1], q[2], checkname(q[1].hosts, q[2]))
<1> DEFINE tab == q[1]
           n == q[2]
           i == checkname(q[1].hosts, q[2])
           c == <<Aliased(tab, i), tab.hosts[i].realname>>
<1>0. tab \in Tables /\ n \in Hosts /\ q = <<tab, n>>
  BY DEF AliasArgs
<1>1. CASE i # 0 /\ ~tab.hosts[i].aliased /\ tab.hosts[i].realname # Null
  <2>1. i \in DOMAIN tab.hosts
    BY <1>0, <1>1, CheckIs
  <2> HIDE DEF i, tab, n
  <2>2. c \in AliasArgs /\ AliasLeft[c] < AliasLeft[q]
    BY <1>0, <1>1, <2>1, AliasCall, AliasLess
  <2>3. e[c] = f[c]
    BY <2>2
  <2>4. AliasTurn(e, tab, n, i) = AliasTurn(f, tab, n, i)
    BY <2>3 DEF AliasTurn
  <2> QED BY <2>4 DEF tab, n, i
<1>2. CASE ~(i # 0 /\ ~tab.hosts[i].aliased /\ tab.hosts[i].realname # Null)
  <2> HIDE DEF i, tab, n
  <2>1. AliasTurn(e, tab, n, i) = AliasTurn(f, tab, n, i)
    BY <1>2 DEF AliasTurn
  <2> QED BY <2>1 DEF tab, n, i
<1> QED BY <1>1, <1>2

(***************************************************************************)
(* HostAlias is the function that its definition describes, and answers    *)
(* with a host; it changes no entry but in its real name.                  *)
(***************************************************************************)
LEMMA HostAliasIs ==
    /\ HostAlias \in AliasFcns
    /\ \A q \in AliasArgs :
          HostAlias[q] = AliasTurn(HostAlias, q[1], q[2], checkname(q[1].hosts, q[2]))
<1> DEFINE G == [f \in AliasFcns \cup {HostAlias} |-> AliasBody(f)]
<1>1. AliasFcns # {}
  <2> DEFINE f == [q \in AliasArgs |-> [rt |-> q[1], to |-> q[2]]]
  <2>1. \A q \in AliasArgs : /\ q[1] \in Tables /\ q[2] \in Hosts
                             /\ f[q].rt = q[1] /\ f[q].to = q[2]
    BY DEF AliasArgs
  <2>2. f \in [AliasArgs -> [rt : Tables, to : Hosts]]
    BY <2>1
  <2>3. AliasAnswers(f)
    BY <2>1, RenamedRefl DEF AliasAnswers
  <2> QED BY <2>2, <2>3 DEF AliasFcns
<1>2. \A f \in AliasFcns : f = [q \in AliasArgs |-> f[q]]
  BY DEF AliasFcns
<1>3. \A f \in AliasFcns : G[f] \in AliasFcns
  <2> SUFFICES ASSUME NEW f \in AliasFcns PROVE AliasBody(f) \in AliasFcns
    OBVIOUS
  <2>1. AliasBody(f) \in [AliasArgs -> [rt : Tables, to : Hosts]]
    BY AliasTurnIs DEF AliasBody
  <2>2. ASSUME NEW q \in AliasArgs
        PROVE  /\ AliasBody(f)[q].rt \in Tables /\ AliasBody(f)[q].to \in Hosts
               /\ AliasBody(f)[q].rt.last = q[1].last
               /\ Renamed(q[1].hosts, AliasBody(f)[q].rt.hosts)
    <3>1. AliasBody(f)[q] = AliasTurn(f, q[1], q[2], checkname(q[1].hosts, q[2]))
      BY DEF AliasBody
    <3> QED BY <3>1, AliasTurnIs
  <2> QED BY <2>1, <2>2 DEF AliasFcns, AliasAnswers
<1>4. \A h \in [AliasArgs -> AliasFcns] : [q \in AliasArgs |-> h[q][q]] \in AliasFcns
  <2> SUFFICES ASSUME NEW h \in [AliasArgs -> AliasFcns]
               PROVE  [q \in AliasArgs |-> h[q][q]] \in AliasFcns
    OBVIOUS
  <2> DEFINE d == [q \in AliasArgs |-> h[q][q]]
  <2>1. \A q \in AliasArgs : d[q] = h[q][q] /\ h[q] \in AliasFcns
    OBVIOUS
  <2>2. d \in [AliasArgs -> [rt : Tables, to : Hosts]]
    BY <2>1 DEF AliasFcns
  <2>3. AliasAnswers(d)
    BY <2>1 DEF AliasFcns, AliasAnswers
  <2> QED BY <2>2, <2>3 DEF AliasFcns
<1>5. \A f \in AliasFcns : \A e \in AliasFcns \cup {HostAlias} : \A q \in AliasArgs :
         (\A y \in AliasArgs : AliasLeft[y] < AliasLeft[q] => e[y] = f[y]) => G[e][q] = G[f][q]
  BY AliasTurnSame DEF AliasBody
<1>6. HostAlias = CHOOSE g : g = AliasBody(g)
  BY DEF HostAlias, AliasBody, AliasArgs
<1>7. Solved(AliasArgs, AliasFcns, G, HostAlias)
  <2> HIDE DEF G
  <2>1. Recursive(AliasArgs, AliasFcns, AliasLeft, G, HostAlias)
    BY <1>1, <1>2, <1>3, <1>4, <1>5, AliasLeftIs, Zenon DEF Recursive
  <2> QED BY <2>1, Solution
<1>8. PICK f \in AliasFcns : f = G[f] /\ (HostAlias = [q \in AliasArgs |-> HostAlias[q]]
                                          /\ HostAlias = G[HostAlias] => HostAlias = f)
  BY <1>7 DEF Solved
<1>9. f = AliasBody(f)
  BY <1>8
<1>10. HostAlias = AliasBody(HostAlias)
  BY <1>6, <1>9, Zenon
<1>11. HostAlias = [q \in AliasArgs |-> HostAlias[q]] /\ HostAlias = G[HostAlias]
  BY <1>10 DEF AliasBody
<1>12. HostAlias = f
  BY <1>8, <1>11
<1> QED BY <1>8, <1>10, <1>12 DEF AliasBody

-----------------------------------------------------------------------------
\* HostPath ends, whatever the table.
PathArgs == Tables \X Hosts \X Hosts

PathAnswers(f) ==
    \A q \in PathArgs :
        /\ f[q].rt \in Tables /\ f[q].to \in Hosts
        /\ f[q].rt.last = q[1].last /\ Looked(q[1].hosts, f[q].rt.hosts)

PathFcns == {f \in [PathArgs -> [rt : Tables, to : Hosts]] : PathAnswers(f)}

PathBody(f) == [q \in PathArgs |-> PathTurn(f, q[1], q[2], q[3], checkname(q[1].hosts, q[2]))]

LEMMA LookedTrans ==
    ASSUME NEW h, NEW k, NEW l, Looked(h, k), Looked(k, l)
    PROVE  Looked(h, l)
BY DEF Looked, SameHosts

LEMMA LookedRefl == ASSUME NEW h PROVE Looked(h, h)
BY DEF Looked, SameHosts

LEMMA RenamedLooked == ASSUME NEW h, NEW k, Renamed(h, k) PROVE Looked(h, k)
BY DEF Renamed, Looked, SameHosts

LEMMA WriteLooked ==
    ASSUME NEW tab \in Tables, NEW i \in DOMAIN tab.hosts, NEW e \in Entries,
           e.name = tab.hosts[i].name, e.status = tab.hosts[i].status,
           tab.hosts[i].routed => e.routed
    PROVE  Looked(tab.hosts, Write(tab, i, e).hosts)
<1> DEFINE k == Write(tab, i, e).hosts
<1>1. DOMAIN k = DOMAIN tab.hosts /\ k[i] = e
      /\ \A j \in DOMAIN tab.hosts : j # i => k[j] = tab.hosts[j]
  BY WriteIs
<1> HIDE DEF k
<1>2. Looked(tab.hosts, k)
  BY <1>1 DEF Looked, SameHosts
<1> QED BY <1>2 DEF k

LEMMA MarkedIs ==
    ASSUME NEW tab \in Tables, NEW i \in DOMAIN tab.hosts
    PROVE  /\ Routed(tab, i) \in Tables /\ Routed(tab, i).last = tab.last
           /\ Looked(tab.hosts, Routed(tab, i).hosts)
           /\ Routed(tab, i).hosts[i].routed
           /\ Routed(tab, i).hosts[i].via = tab.hosts[i].via
           /\ Routed(tab, i).hosts[i].realname = tab.hosts[i].realname
           /\ Routed(tab, i).hosts[i].aliased = tab.hosts[i].aliased
           /\ \A j \in DOMAIN tab.hosts : j # i => Routed(tab, i).hosts[j] = tab.hosts[j]
<1> DEFINE n == [tab.hosts[i] EXCEPT !.routed = TRUE]
           w == Write(tab, i, n)
<1>1. tab.hosts[i] \in Entries
  BY TableIs
<1>2. /\ n \in Entries /\ n.name = tab.hosts[i].name /\ n.status = tab.hosts[i].status
      /\ n.via = tab.hosts[i].via /\ n.routed
      /\ n.realname = tab.hosts[i].realname /\ n.aliased = tab.hosts[i].aliased
  BY <1>1, RoutedIs
<1>3. Routed(tab, i) = w
  BY DEF Routed
<1> HIDE DEF n, w
<1>4. /\ w \in Tables /\ w.last = tab.last /\ w.hosts[i] = n
      /\ \A j \in DOMAIN tab.hosts : j # i => w.hosts[j] = tab.hosts[j]
  BY <1>2, WriteIs DEF w
<1>5. Looked(tab.hosts, w.hosts)
  BY <1>2, WriteLooked DEF w
<1> QED BY <1>2, <1>3, <1>4, <1>5

LEMMA NotePathIs ==
    ASSUME NEW tab \in Tables, NEW to \in Hosts, NEW i \in DOMAIN tab.hosts, NEW r,
           r.rt = tab, r.to = to
    PROVE  /\ NotePath(r, i).to = to /\ NotePath(r, i).rt \in Tables
           /\ NotePath(r, i) \in [rt : Tables, to : Hosts]
           /\ NotePath(r, i).rt.last = tab.last /\ Looked(tab.hosts, NotePath(r, i).rt.hosts)
           /\ NotePath(r, i).rt.hosts[i].aliased = tab.hosts[i].aliased
           /\ NotePath(r, i).rt.hosts[i].realname = tab.hosts[i].realname
           /\ NotePath(r, i).rt.hosts[i].routed = tab.hosts[i].routed
           /\ NotePath(r, i).rt.hosts[i].via = to
           /\ \A j \in DOMAIN tab.hosts : j # i => NotePath(r, i).rt.hosts[j] = tab.hosts[j]
<1> DEFINE n == [tab.hosts[i] EXCEPT !.via = to]
           w == Write(tab, i, n)
<1>1. tab.hosts[i] \in Entries
  BY TableIs
<1>2. /\ n \in Entries /\ n.name = tab.hosts[i].name /\ n.status = tab.hosts[i].status
      /\ n.realname = tab.hosts[i].realname /\ n.routed = tab.hosts[i].routed
      /\ n.aliased = tab.hosts[i].aliased /\ n.via = to
  BY <1>1, ViaIs
<1>3. NotePath(r, i) = [rt |-> w, to |-> to]
  BY DEF NotePath, Answer
<1> HIDE DEF n, w
<1>4. /\ w \in Tables /\ w.last = tab.last /\ w.hosts[i] = n
      /\ \A j \in DOMAIN tab.hosts : j # i => w.hosts[j] = tab.hosts[j]
  BY <1>2, WriteIs DEF w
<1>5. Looked(tab.hosts, w.hosts)
  BY <1>2, WriteLooked DEF w
<1>6. NotePath(r, i).rt = w /\ NotePath(r, i).to = to
  BY <1>3
<1>7. NotePath(r, i) \in [rt : Tables, to : Hosts]
  BY <1>3, <1>4
<1> QED BY <1>2, <1>4, <1>5, <1>6, <1>7

LEMMA AnswersAre == \A tab \in Tables, to \in Hosts :
    Answer(tab, to) \in [rt : Tables, to : Hosts] /\ Answer(tab, to).rt = tab /\ Answer(tab, to).to = to
BY DEF Answer

LEMMA WordsAre == NoPath \in Hosts /\ Panic \in Hosts /\ E_nodename \in Hosts /\ E_domain \in Hosts
                  /\ E_mailserv \in Hosts /\ NoPath # Panic /\ Null \notin Hosts
<1>1. NoPath \in Hosts
  BY EmptySeq DEF NoPath, Hosts
<1>2. NoPath # Panic
  BY EmptySeq DEF NoPath, Panic
<1> QED BY <1>1, <1>2, RoutingAssumption DEF HostNames

\* How many hosts' ways have not been looked up.
Unrouted(q) == {i \in DOMAIN q[1].hosts : ~q[1].hosts[i].routed}
PathLeft == [q \in PathArgs |-> Cardinality(Unrouted(q))]

LEMMA PathLess ==
    ASSUME NEW tab \in Tables, NEW i \in DOMAIN tab.hosts, ~tab.hosts[i].routed,
           NEW tr \in Tables, Looked(Routed(tab, i).hosts, tr.hosts),
           NEW n \in Hosts, NEW best \in Hosts, NEW m \in Hosts
    PROVE  /\ <<tr, m, best>> \in PathArgs /\ <<tab, n, best>> \in PathArgs
           /\ PathLeft[<<tr, m, best>>] < PathLeft[<<tab, n, best>>]
<1> DEFINE c == <<tr, m, best>>
           q == <<tab, n, best>>
<1>1. Looked(tab.hosts, tr.hosts) /\ tr.hosts[i].routed
  <2>1. /\ Looked(tab.hosts, Routed(tab, i).hosts) /\ Routed(tab, i).hosts[i].routed
        /\ i \in DOMAIN Routed(tab, i).hosts
    BY MarkedIs DEF Looked, SameHosts
  <2>2. tr.hosts[i].routed
    BY <2>1 DEF Looked
  <2> QED BY <2>1, <2>2, LookedTrans
<1>2. c[1] = tr /\ q[1] = tab
  OBVIOUS
<1>3. q \in PathArgs /\ c \in PathArgs
  BY DEF PathArgs
<1> HIDE DEF c, q
<1>4. IsFiniteSet(Unrouted(q))
  BY <1>2, TableFinite, FS_Subset DEF Unrouted
<1>5. i \in Unrouted(q)
  BY <1>2 DEF Unrouted
<1>6. Unrouted(c) \subseteq Unrouted(q) \ {i}
  BY <1>1, <1>2 DEF Unrouted, Looked, SameHosts
<1>7. /\ Cardinality(Unrouted(q) \ {i}) = Cardinality(Unrouted(q)) - 1
      /\ IsFiniteSet(Unrouted(q) \ {i})
      /\ Cardinality(Unrouted(q)) \in Nat
  BY <1>4, <1>5, FS_RemoveElement, FS_CardinalityType
<1>8. /\ Cardinality(Unrouted(c)) \in Nat
      /\ Cardinality(Unrouted(c)) <= Cardinality(Unrouted(q) \ {i})
  BY <1>6, <1>7, FS_Subset, FS_CardinalityType
<1>9. PathLeft[c] = Cardinality(Unrouted(c)) /\ PathLeft[q] = Cardinality(Unrouted(q))
  BY <1>3 DEF PathLeft
<1>10. PathLeft[c] < PathLeft[q]
  BY <1>7, <1>8, <1>9
<1> QED BY <1>3, <1>10 DEF c, q

LEMMA PathLeftIs == PathLeft \in [PathArgs -> Nat]
<1>1. ASSUME NEW q \in PathArgs PROVE Cardinality(Unrouted(q)) \in Nat
  <2>1. q[1] \in Tables
    BY DEF PathArgs
  <2>2. IsFiniteSet(Unrouted(q))
    BY <2>1, TableFinite, FS_Subset DEF Unrouted
  <2> QED BY <2>2, FS_CardinalityType
<1> QED BY <1>1 DEF PathLeft

\* The first answer of an entry that is looked up, and the table it leaves.
LEMMA AliasOfIs ==
    ASSUME NEW tab \in Tables, NEW n \in Hosts
    PROVE  /\ HostAlias[<<tab, n>>].rt \in Tables /\ HostAlias[<<tab, n>>].to \in Hosts
           /\ HostAlias[<<tab, n>>].rt.last = tab.last
           /\ Renamed(tab.hosts, HostAlias[<<tab, n>>].rt.hosts)
           /\ HostAlias[<<tab, n>>] = AliasTurn(HostAlias, tab, n, checkname(tab.hosts, n))
<1> DEFINE q == <<tab, n>>
<1>1. q \in AliasArgs /\ q[1] = tab /\ q[2] = n
  BY DEF AliasArgs
<1> HIDE DEF q
<1>2. /\ HostAlias[q].rt \in Tables /\ HostAlias[q].to \in Hosts
      /\ HostAlias[q].rt.last = q[1].last /\ Renamed(q[1].hosts, HostAlias[q].rt.hosts)
      /\ HostAlias[q] = AliasTurn(HostAlias, q[1], q[2], checkname(q[1].hosts, q[2]))
  BY <1>1, HostAliasIs DEF AliasFcns, AliasAnswers
<1>3. /\ HostAlias[q].rt \in Tables /\ HostAlias[q].to \in Hosts
      /\ HostAlias[q].rt.last = tab.last /\ Renamed(tab.hosts, HostAlias[q].rt.hosts)
      /\ HostAlias[q] = AliasTurn(HostAlias, tab, n, checkname(tab.hosts, n))
  BY <1>1, <1>2
<1> QED BY <1>3 DEF q

LEMMA FcnAt ==
    ASSUME NEW f \in PathFcns, NEW tab \in Tables, NEW n \in Hosts, NEW b \in Hosts
    PROVE  /\ f[<<tab, n, b>>].rt \in Tables /\ f[<<tab, n, b>>].to \in Hosts
           /\ f[<<tab, n, b>>].rt.last = tab.last
           /\ Looked(tab.hosts, f[<<tab, n, b>>].rt.hosts)
<1> DEFINE q == <<tab, n, b>>
<1>1. q \in PathArgs /\ q[1] = tab
  BY DEF PathArgs
<1> HIDE DEF q
<1>2. /\ f[q].rt \in Tables /\ f[q].to \in Hosts
      /\ f[q].rt.last = q[1].last /\ Looked(q[1].hosts, f[q].rt.hosts)
  BY <1>1 DEF PathFcns, PathAnswers
<1>3. /\ f[q].rt \in Tables /\ f[q].to \in Hosts
      /\ f[q].rt.last = tab.last /\ Looked(tab.hosts, f[q].rt.hosts)
  BY <1>1, <1>2
<1> QED BY <1>3 DEF q

LEMMA FirstPathIs ==
    ASSUME NEW f \in PathFcns, NEW tab \in Tables, NEW i \in DOMAIN tab.hosts, NEW best \in Hosts,
           NEW e \in Entries, e.via = tab.hosts[i].via, NEW r, r = FirstPath(f, tab, e, best)
    PROVE  /\ r.rt \in Tables /\ r.to \in Hosts
           /\ r.rt.last = tab.last /\ Looked(tab.hosts, r.rt.hosts)
<1> DEFINE a == HostAlias[<<tab, e.name>>]
<1>1. /\ a.rt \in Tables /\ a.to \in Hosts /\ a.rt.last = tab.last
      /\ Looked(tab.hosts, a.rt.hosts)
  BY EntryIs, AliasOfIs, RenamedLooked
<1>2. e.name \in Hosts /\ e.via \in Hosts \cup {Null}
  BY EntryIs
<1> HIDE DEF a
<1>3. CASE e.via # Null
  <2>1. r = Answer(tab, e.via)
    BY <1>3 DEF FirstPath
  <2>2. r.rt = tab /\ r.to = e.via
    BY <2>1, AnswerIs
  <2> QED BY <1>2, <1>3, <2>2, LookedRefl
<1>4. CASE e.via = Null /\ a.to # e.name
  <2> DEFINE c == <<a.rt, a.to, best>>
  <2>1. r = f[c]
    BY <1>4 DEF FirstPath, Implied, a
  <2>2. /\ f[c].rt \in Tables /\ f[c].to \in Hosts /\ f[c].rt.last = a.rt.last
        /\ Looked(a.rt.hosts, f[c].rt.hosts)
    BY <1>1, FcnAt
  <2> HIDE DEF c
  <2> QED BY <1>1, <2>1, <2>2, LookedTrans
<1>5. CASE e.via = Null /\ a.to = e.name
  <2> DEFINE o == OwnPath(a.rt.hosts, e, best)
  <2>1. r = Answer(a.rt, o)
    BY <1>5 DEF FirstPath, Implied, a
  <2>2. o \in Hosts
    BY <1>2, WordsAre DEF OwnPath
  <2> HIDE DEF o
  <2>3. r.rt = a.rt /\ r.to = o
    BY <2>1, AnswerIs
  <2> QED BY <1>1, <2>2, <2>3
<1> QED BY <1>3, <1>4, <1>5

\* The answer of an entry that is looked up for the first time.
Fresh(path, tab, i, best) ==
    NotePath(Further(path, NotePath(FirstPath(path, Routed(tab, i), tab.hosts[i], best), i), best), i)

LEMMA FreshIs ==
    ASSUME NEW f \in PathFcns, NEW tab \in Tables, NEW i \in DOMAIN tab.hosts, NEW best \in Hosts
    PROVE  /\ Fresh(f, tab, i, best) \in [rt : Tables, to : Hosts]
           /\ Fresh(f, tab, i, best).rt \in Tables /\ Fresh(f, tab, i, best).to \in Hosts
           /\ Fresh(f, tab, i, best).rt.last = tab.last
           /\ Looked(tab.hosts, Fresh(f, tab, i, best).rt.hosts)
           /\ LET c1 == NotePath(FirstPath(f, Routed(tab, i), tab.hosts[i], best), i)
              IN  /\ c1.rt \in Tables /\ c1.to \in Hosts
                  /\ Looked(Routed(tab, i).hosts, c1.rt.hosts)
<1> DEFINE m == Routed(tab, i)
           e == tab.hosts[i]
           c0 == FirstPath(f, m, e, best)
           c1 == NotePath(c0, i)
           c2 == f[<<c1.rt, c1.to, best>>]
           c3 == NotePath(c2, i)
<1>1. /\ m \in Tables /\ i \in DOMAIN m.hosts /\ e \in Entries /\ e.via = m.hosts[i].via
      /\ m.last = tab.last /\ Looked(tab.hosts, m.hosts)
  BY MarkedIs, TableIs DEF Looked, SameHosts
<1> HIDE DEF m, e
<1>2. c0.rt \in Tables /\ c0.to \in Hosts /\ c0.rt.last = m.last /\ Looked(m.hosts, c0.rt.hosts)
  BY <1>1, FirstPathIs
<1> HIDE DEF c0
<1>3. i \in DOMAIN c0.rt.hosts
  BY <1>1, <1>2 DEF Looked, SameHosts
<1>4. c1.rt \in Tables /\ c1.to \in Hosts /\ c1.rt.last = m.last /\ Looked(c0.rt.hosts, c1.rt.hosts)
  BY <1>2, <1>3, NotePathIs
<1> HIDE DEF c1
<1>5. i \in DOMAIN c1.rt.hosts /\ Looked(m.hosts, c1.rt.hosts)
  BY <1>2, <1>3, <1>4, LookedTrans DEF Looked, SameHosts
<1>6. c2.rt \in Tables /\ c2.to \in Hosts /\ c2.rt.last = m.last /\ Looked(c1.rt.hosts, c2.rt.hosts)
  BY <1>4, FcnAt
<1> HIDE DEF c2
<1>7. i \in DOMAIN c2.rt.hosts
  BY <1>5, <1>6 DEF Looked, SameHosts
<1>8. /\ c3 \in [rt : Tables, to : Hosts] /\ c3.rt \in Tables /\ c3.to \in Hosts
      /\ c3.rt.last = c2.rt.last /\ Looked(c2.rt.hosts, c3.rt.hosts)
  BY <1>6, <1>7, NotePathIs
<1> HIDE DEF c3
<1>9. Looked(m.hosts, c2.rt.hosts)
  BY <1>5, <1>6, LookedTrans
<1>10. Looked(tab.hosts, c2.rt.hosts)
  BY <1>1, <1>9, LookedTrans
<1>11. Looked(tab.hosts, c3.rt.hosts) /\ c3.rt.last = tab.last
  BY <1>1, <1>6, <1>8, <1>10, LookedTrans
<1>12. c3 = Fresh(f, tab, i, best) /\ m = Routed(tab, i)
       /\ c1 = NotePath(FirstPath(f, Routed(tab, i), tab.hosts[i], best), i)
  BY DEF c3, c2, c1, c0, m, e, Fresh, Further
<1> QED BY <1>4, <1>5, <1>8, <1>11, <1>12

LEMMA PathTurnIs ==
    ASSUME NEW f \in PathFcns, NEW q \in PathArgs, NEW i, i = checkname(q[1].hosts, q[2]),
           NEW r, r = PathTurn(f, q[1], q[2], q[3], i)
    PROVE  /\ r \in [rt : Tables, to : Hosts] /\ r.rt \in Tables /\ r.to \in Hosts
           /\ r.rt.last = q[1].last /\ Looked(q[1].hosts, r.rt.hosts)
<1> DEFINE tab == q[1]
           n == q[2]
           best == q[3]
           e == tab.hosts[i]
<1>0. tab \in Tables /\ n \in Hosts /\ best \in Hosts
  BY DEF PathArgs
<1> HIDE DEF tab, n, best
<1>a. ASSUME NEW h \in Hosts, r = Answer(tab, h)
      PROVE  /\ r \in [rt : Tables, to : Hosts] /\ r.rt \in Tables /\ r.to \in Hosts
             /\ r.rt.last = tab.last /\ Looked(tab.hosts, r.rt.hosts)
  BY <1>0, <1>a, AnswersAre, LookedRefl
<1>1. CASE n \in {NoPath, Panic}
  BY <1>1, <1>a, WordsAre DEF PathTurn, tab, n, best
<1>2. CASE n \notin {NoPath, Panic} /\ i = 0
  <2> DEFINE h == IF Strange(n) THEN NoPath ELSE best
  <2>1. h \in Hosts
    BY <1>0, WordsAre
  <2>2. r = Answer(tab, h)
    BY <1>2 DEF PathTurn, tab, n, best
  <2> HIDE DEF h
  <2>3. /\ r \in [rt : Tables, to : Hosts] /\ r.rt \in Tables /\ r.to \in Hosts
        /\ r.rt.last = tab.last /\ Looked(tab.hosts, r.rt.hosts)
    BY <1>a, <2>1, <2>2
  <2> QED BY <2>3 DEF tab
<1> SUFFICES ASSUME i # 0, n \notin {NoPath, Panic}
             PROVE  /\ r \in [rt : Tables, to : Hosts] /\ r.rt \in Tables /\ r.to \in Hosts
                    /\ r.rt.last = tab.last /\ Looked(tab.hosts, r.rt.hosts)
  BY <1>1, <1>2 DEF tab
<1>3. i \in DOMAIN tab.hosts
  BY <1>0, CheckIs DEF tab, n
<1>4. e \in Entries /\ e.name \in Hosts /\ e.via \in Hosts \cup {Null}
  BY <1>0, <1>3, TableIs, EntryIs
<1>5. CASE e.status = "gatewayed"
  <2>1. r = Answer(tab, e.name)
    BY <1>5 DEF PathTurn, tab, n, best
  <2> QED BY <1>4, <1>a, <2>1
<1>6. CASE e.status # "gatewayed" /\ e.routed
  <2>1. r = Again(tab, i, e, best)
    BY <1>6 DEF PathTurn, tab, n, best
  <2>2. CASE e.via # Null
    BY <1>4, <1>a, <2>1, <2>2 DEF Again
  <2>3. CASE e.via = Null /\ e.aliased /\ e.realname # e.name
    <3> DEFINE c == Answer(tab, best)
    <3>1. r = NotePath(c, i)
      BY <2>1, <2>3 DEF Again
    <3>2. c.rt = tab /\ c.to = best
      BY AnswerIs
    <3> HIDE DEF c
    <3> QED BY <1>0, <1>3, <3>1, <3>2, NotePathIs
  <2>4. CASE e.via = Null /\ ~(e.aliased /\ e.realname # e.name)
    BY <1>a, <2>1, <2>4, WordsAre DEF Again
  <2> QED BY <2>2, <2>3, <2>4
<1>7. CASE e.status # "gatewayed" /\ ~e.routed
  <2>1. r = Fresh(f, tab, i, best)
    BY <1>7 DEF PathTurn, Fresh, tab, n, best
  <2> QED BY <1>0, <1>3, <2>1, FreshIs
<1> QED BY <1>5, <1>6, <1>7

LEMMA FreshSame ==
    ASSUME NEW f \in PathFcns, NEW e \in PathFcns \cup {HostPath}, NEW tab \in Tables, NEW n \in Hosts,
           NEW best \in Hosts, NEW i \in DOMAIN tab.hosts, ~tab.hosts[i].routed,
           \A y \in PathArgs : PathLeft[y] < PathLeft[<<tab, n, best>>] => e[y] = f[y]
    PROVE  Fresh(e, tab, i, best) = Fresh(f, tab, i, best)
<1> DEFINE m == Routed(tab, i)
           x == tab.hosts[i]
           a == HostAlias[<<m, x.name>>]
           c1 == NotePath(FirstPath(f, m, x, best), i)
<1>1. m \in Tables /\ x \in Entries
  BY MarkedIs, TableIs
<1>2. /\ a.rt \in Tables /\ a.to \in Hosts /\ Looked(m.hosts, a.rt.hosts)
  BY <1>1, EntryIs, AliasOfIs, RenamedLooked
<1>3. e[<<a.rt, a.to, best>>] = f[<<a.rt, a.to, best>>]
  <2> HIDE DEF a
  <2>1. /\ <<a.rt, a.to, best>> \in PathArgs
        /\ PathLeft[<<a.rt, a.to, best>>] < PathLeft[<<tab, n, best>>]
    BY <1>2, PathLess
  <2> QED BY <2>1
<1>4. FirstPath(e, m, x, best) = FirstPath(f, m, x, best)
  <2> HIDE DEF m, x
  <2>1. CASE x.via # Null
    BY <2>1 DEF FirstPath
  <2>2. CASE x.via = Null
    <3>1. Implied(e, a, x, best) = Implied(f, a, x, best)
      <4> HIDE DEF a
      <4> QED BY <1>3 DEF Implied
    <3> QED BY <2>2, <3>1 DEF FirstPath
  <2> QED BY <2>1, <2>2
<1>5. c1.rt \in Tables /\ c1.to \in Hosts /\ Looked(m.hosts, c1.rt.hosts)
  BY FreshIs
<1> HIDE DEF c1
<1>6. e[<<c1.rt, c1.to, best>>] = f[<<c1.rt, c1.to, best>>]
  <2>1. /\ <<c1.rt, c1.to, best>> \in PathArgs
        /\ PathLeft[<<c1.rt, c1.to, best>>] < PathLeft[<<tab, n, best>>]
    BY <1>5, PathLess
  <2> QED BY <2>1
<1>7. Fresh(f, tab, i, best) = NotePath(f[<<c1.rt, c1.to, best>>], i)
  BY DEF Fresh, Further, c1
<1>8. Fresh(e, tab, i, best) = NotePath(e[<<c1.rt, c1.to, best>>], i)
  BY <1>4 DEF Fresh, Further, c1
<1> QED BY <1>6, <1>7, <1>8

LEMMA PathTurnSame ==
    ASSUME NEW f \in PathFcns, NEW e \in PathFcns \cup {HostPath}, NEW q \in PathArgs,
           \A y \in PathArgs : PathLeft[y] < PathLeft[q] => e[y] = f[y]
    PROVE  PathTurn(e, q[1], q[2], q[3], checkname(q[1].hosts, q[2]))
             = PathTurn(f, q[1], q[2], q[3], checkname(q[1].hosts, q[2]))
<1> DEFINE tab == q[1]
           n == q[2]
           b == q[3]
           i == checkname(q[1].hosts, q[2])
           Fresh0 == i # 0 /\ ~tab.hosts[i].routed
<1>0. tab \in Tables /\ n \in Hosts /\ b \in Hosts /\ q = <<tab, n, b>>
  BY DEF PathArgs
<1>1. CASE Fresh0
  <2>1. i \in DOMAIN tab.hosts
    BY <1>0, <1>1, CheckIs
  <2> HIDE DEF i, tab, n, b
  <2>2. Fresh(e, tab, i, b) = Fresh(f, tab, i, b)
    BY <1>0, <1>1, <2>1, FreshSame
  <2>3. PathTurn(e, tab, n, b, i) = PathTurn(f, tab, n, b, i)
    BY <1>1, <2>2 DEF PathTurn, Fresh
  <2> QED BY <2>3 DEF tab, n, b, i
<1>2. CASE ~Fresh0
  <2> HIDE DEF i, tab, n, b
  <2>1. PathTurn(e, tab, n, b, i) = PathTurn(f, tab, n, b, i)
    BY <1>2 DEF PathTurn
  <2> QED BY <2>1 DEF tab, n, b, i
<1> QED BY <1>1, <1>2

(***************************************************************************)
(* HostPath is the function that its definition describes, and answers     *)
(* with a host or one of the answers that are none.                        *)
(***************************************************************************)
LEMMA HostPathIs ==
    /\ HostPath \in PathFcns
    /\ \A q \in PathArgs :
          HostPath[q] = PathTurn(HostPath, q[1], q[2], q[3], checkname(q[1].hosts, q[2]))
<1> DEFINE G == [f \in PathFcns \cup {HostPath} |-> PathBody(f)]
<1>1. PathFcns # {}
  <2> DEFINE f == [q \in PathArgs |-> [rt |-> q[1], to |-> q[2]]]
  <2>1. \A q \in PathArgs : /\ q[1] \in Tables /\ q[2] \in Hosts
                            /\ f[q].rt = q[1] /\ f[q].to = q[2]
    BY DEF PathArgs
  <2>2. f \in [PathArgs -> [rt : Tables, to : Hosts]]
    BY <2>1
  <2>3. PathAnswers(f)
    BY <2>1, LookedRefl DEF PathAnswers
  <2> QED BY <2>2, <2>3 DEF PathFcns
<1>2. \A f \in PathFcns : f = [q \in PathArgs |-> f[q]]
  BY DEF PathFcns
<1>3. \A f \in PathFcns : G[f] \in PathFcns
  <2> SUFFICES ASSUME NEW f \in PathFcns PROVE PathBody(f) \in PathFcns
    OBVIOUS
  <2>1. PathBody(f) \in [PathArgs -> [rt : Tables, to : Hosts]]
    BY PathTurnIs DEF PathBody
  <2>2. ASSUME NEW q \in PathArgs
        PROVE  /\ PathBody(f)[q].rt \in Tables /\ PathBody(f)[q].to \in Hosts
               /\ PathBody(f)[q].rt.last = q[1].last
               /\ Looked(q[1].hosts, PathBody(f)[q].rt.hosts)
    <3>1. PathBody(f)[q] = PathTurn(f, q[1], q[2], q[3], checkname(q[1].hosts, q[2]))
      BY DEF PathBody
    <3> QED BY <3>1, PathTurnIs
  <2> QED BY <2>1, <2>2 DEF PathFcns, PathAnswers
<1>4. \A h \in [PathArgs -> PathFcns] : [q \in PathArgs |-> h[q][q]] \in PathFcns
  <2> SUFFICES ASSUME NEW h \in [PathArgs -> PathFcns]
               PROVE  [q \in PathArgs |-> h[q][q]] \in PathFcns
    OBVIOUS
  <2> DEFINE d == [q \in PathArgs |-> h[q][q]]
  <2>1. \A q \in PathArgs : d[q] = h[q][q] /\ h[q] \in PathFcns
    OBVIOUS
  <2>2. d \in [PathArgs -> [rt : Tables, to : Hosts]]
    BY <2>1 DEF PathFcns
  <2>3. PathAnswers(d)
    BY <2>1 DEF PathFcns, PathAnswers
  <2> QED BY <2>2, <2>3 DEF PathFcns
<1>5. \A f \in PathFcns : \A e \in PathFcns \cup {HostPath} : \A q \in PathArgs :
         (\A y \in PathArgs : PathLeft[y] < PathLeft[q] => e[y] = f[y]) => G[e][q] = G[f][q]
  BY PathTurnSame DEF PathBody
<1>6. HostPath = CHOOSE g : g = PathBody(g)
  BY DEF HostPath, PathBody, PathArgs
<1>7. Solved(PathArgs, PathFcns, G, HostPath)
  <2> HIDE DEF G
  <2>1. Recursive(PathArgs, PathFcns, PathLeft, G, HostPath)
    BY <1>1, <1>2, <1>3, <1>4, <1>5, PathLeftIs, Zenon DEF Recursive
  <2> QED BY <2>1, Solution
<1>8. PICK f \in PathFcns : f = G[f] /\ (HostPath = [q \in PathArgs |-> HostPath[q]]
                                          /\ HostPath = G[HostPath] => HostPath = f)
  BY <1>7 DEF Solved
<1>9. f = PathBody(f)
  BY <1>8
<1>10. HostPath = PathBody(HostPath)
  BY <1>6, <1>9, Zenon
<1>11. HostPath = [q \in PathArgs |-> HostPath[q]] /\ HostPath = G[HostPath]
  BY <1>10 DEF PathBody
<1>12. HostPath = f
  BY <1>8, <1>11
<1> QED BY <1>8, <1>10, <1>12 DEF PathBody

LEMMA PathAt ==
    ASSUME NEW tab \in Tables, NEW n \in Hosts, NEW b \in Hosts
    PROVE  /\ HostPath[<<tab, n, b>>].rt \in Tables /\ HostPath[<<tab, n, b>>].to \in Hosts
           /\ HostPath[<<tab, n, b>>] \in [rt : Tables, to : Hosts]
           /\ HostPath[<<tab, n, b>>].rt.last = tab.last
           /\ Looked(tab.hosts, HostPath[<<tab, n, b>>].rt.hosts)
           /\ HostPath[<<tab, n, b>>] = PathTurn(HostPath, tab, n, b, checkname(tab.hosts, n))
<1> DEFINE q == <<tab, n, b>>
<1>1. q \in PathArgs /\ q[1] = tab /\ q[2] = n /\ q[3] = b
  BY DEF PathArgs
<1> HIDE DEF q
<1>2. /\ HostPath[q] \in [rt : Tables, to : Hosts]
      /\ HostPath[q] = PathTurn(HostPath, q[1], q[2], q[3], checkname(q[1].hosts, q[2]))
  BY <1>1, HostPathIs DEF PathFcns
<1>3. /\ HostPath[q] \in [rt : Tables, to : Hosts]
      /\ HostPath[q] = PathTurn(HostPath, tab, n, b, checkname(tab.hosts, n))
  BY <1>1, <1>2
<1>4. /\ HostPath[<<tab, n, b>>] \in [rt : Tables, to : Hosts]
      /\ HostPath[<<tab, n, b>>] = PathTurn(HostPath, tab, n, b, checkname(tab.hosts, n))
  BY <1>3 DEF q
<1> QED BY <1>4, HostPathIs, FcnAt

-----------------------------------------------------------------------------
\* So are rfc_route and BangRoute, which go along a sequence of hosts.
RouteArgs == Tables \X Seq(Hosts) \X Hosts
RouteBody(f) == [q \in RouteArgs |->
    IF q[2] = <<>> \/ q[3] = Panic THEN Answer(q[1], q[3])
    ELSE RouteTurn(f, HostPath[<<q[1], Head(q[2]), q[3]>>], q[2])]
RouteFcns == [RouteArgs -> [rt : Tables, to : Hosts]]
RouteLeft == [q \in RouteArgs |-> Len(q[2])]

LEMMA HeadTail ==
    ASSUME NEW s \in Seq(Hosts), s # <<>>
    PROVE  /\ Head(s) \in Hosts /\ Tail(s) \in Seq(Hosts)
           /\ Len(Tail(s)) < Len(s) /\ Len(s) \in Nat
OBVIOUS

LEMMA RouteCall ==
    ASSUME NEW q \in RouteArgs, q[2] # <<>>, NEW r, r = HostPath[<<q[1], Head(q[2]), q[3]>>],
           NEW c, c = <<r.rt, Tail(q[2]), r.to>>
    PROVE  c \in RouteArgs /\ RouteLeft[c] < RouteLeft[q]
<1>1. q[1] \in Tables /\ q[2] \in Seq(Hosts) /\ q[3] \in Hosts
  BY DEF RouteArgs
<1>2. Head(q[2]) \in Hosts /\ Tail(q[2]) \in Seq(Hosts) /\ Len(Tail(q[2])) < Len(q[2])
  BY <1>1, HeadTail
<1>3. r.rt \in Tables /\ r.to \in Hosts
  BY <1>1, <1>2, PathAt
<1>4. c \in RouteArgs /\ c[2] = Tail(q[2])
  BY <1>2, <1>3 DEF RouteArgs
<1> QED BY <1>2, <1>4 DEF RouteLeft

LEMMA RouteIs ==
    /\ rfc_route \in RouteFcns
    /\ rfc_route = RouteBody(rfc_route)
<1> DEFINE G == [f \in RouteFcns \cup {rfc_route} |-> RouteBody(f)]
<1>0. ASSUME NEW q \in RouteArgs PROVE q[1] \in Tables /\ q[2] \in Seq(Hosts) /\ q[3] \in Hosts
  BY DEF RouteArgs
<1>1. RouteFcns # {}
  <2>1. [q \in RouteArgs |-> [rt |-> q[1], to |-> q[3]]] \in RouteFcns
    BY <1>0 DEF RouteFcns
  <2> QED BY <2>1
<1>2. \A f \in RouteFcns : f = [q \in RouteArgs |-> f[q]]
  BY DEF RouteFcns
<1>3. \A f \in RouteFcns : G[f] \in RouteFcns
  <2> SUFFICES ASSUME NEW f \in RouteFcns PROVE RouteBody(f) \in RouteFcns
    OBVIOUS
  <2>1. ASSUME NEW q \in RouteArgs
        PROVE  RouteBody(f)[q] \in [rt : Tables, to : Hosts]
    <3>1. CASE q[2] = <<>> \/ q[3] = Panic
      <4>1. RouteBody(f)[q] = Answer(q[1], q[3])
        BY <3>1 DEF RouteBody
      <4> QED BY <1>0, <4>1, AnswersAre
    <3>2. CASE ~(q[2] = <<>> \/ q[3] = Panic)
      <4> DEFINE r == HostPath[<<q[1], Head(q[2]), q[3]>>]
                 c == <<r.rt, Tail(q[2]), r.to>>
      <4>1. RouteBody(f)[q] = f[c]
        BY <3>2 DEF RouteBody, RouteTurn
      <4>2. c \in RouteArgs
        BY <3>2, RouteCall
      <4> QED BY <4>1, <4>2 DEF RouteFcns
    <3> QED BY <3>1, <3>2
  <2> QED BY <2>1 DEF RouteFcns, RouteBody
<1>4. \A h \in [RouteArgs -> RouteFcns] : [q \in RouteArgs |-> h[q][q]] \in RouteFcns
  BY DEF RouteFcns
<1>5. ASSUME NEW f \in RouteFcns, NEW e \in RouteFcns \cup {rfc_route}, NEW q \in RouteArgs,
             \A y \in RouteArgs : RouteLeft[y] < RouteLeft[q] => e[y] = f[y]
      PROVE  G[e][q] = G[f][q]
  <2>1. CASE q[2] = <<>> \/ q[3] = Panic
    BY <2>1 DEF RouteBody
  <2>2. CASE ~(q[2] = <<>> \/ q[3] = Panic)
    <3> DEFINE r == HostPath[<<q[1], Head(q[2]), q[3]>>]
               c == <<r.rt, Tail(q[2]), r.to>>
    <3>1. c \in RouteArgs /\ RouteLeft[c] < RouteLeft[q]
      BY <2>2, RouteCall
    <3>2. e[c] = f[c]
      BY <1>5, <3>1
    <3> QED BY <2>2, <3>2 DEF RouteBody, RouteTurn
  <2> QED BY <2>1, <2>2
<1>6. rfc_route = CHOOSE g : g = RouteBody(g)
  BY DEF rfc_route, RouteBody, RouteArgs
<1>a. RouteLeft \in [RouteArgs -> Nat]
  BY <1>0 DEF RouteLeft
<1>7. Solved(RouteArgs, RouteFcns, G, rfc_route)
  <2> HIDE DEF G
  <2>1. Recursive(RouteArgs, RouteFcns, RouteLeft, G, rfc_route)
    BY <1>1, <1>2, <1>3, <1>4, <1>5, <1>a, Zenon DEF Recursive
  <2> QED BY <2>1, Solution
<1>8. PICK f \in RouteFcns : f = G[f] /\ (rfc_route = [q \in RouteArgs |-> rfc_route[q]]
                                          /\ rfc_route = G[rfc_route] => rfc_route = f)
  BY <1>7 DEF Solved
<1>9. f = RouteBody(f)
  BY <1>8
<1>10. rfc_route = RouteBody(rfc_route)
  BY <1>6, <1>9, Zenon
<1>11. rfc_route = [q \in RouteArgs |-> rfc_route[q]] /\ rfc_route = G[rfc_route]
  BY <1>10 DEF RouteBody
<1>12. rfc_route = f
  BY <1>8, <1>11
<1> QED BY <1>8, <1>10, <1>12

BangArgs == Tables \X Seq(Hosts) \X Hosts \X Firsts
BangAnswers == [rt : Tables, to : Hosts, first : Firsts]
BangBody(f) == [q \in BangArgs |->
    IF q[2] = <<>> \/ q[3] \in {NoPath, Panic} THEN [rt |-> q[1], to |-> q[3], first |-> q[4]]
    ELSE BangTurn(f, HostPath[<<q[1], Head(q[2]), q[3]>>], q[2], q[4])]
BangFcns == [BangArgs -> BangAnswers]
BangLeft == [q \in BangArgs |-> Len(q[2])]

LEMMA FirstIs ==
    ASSUME NEW first \in Firsts, NEW h \in Hosts, NEW to \in Hosts
    PROVE  FirstAway(first, h, to) \in Firsts
<1>1. [host |-> h, path |-> to] \in Firsts
  BY DEF Firsts
<1>2. CASE first = Null /\ to # E_nodename
  BY <1>1, <1>2 DEF FirstAway
<1>3. CASE ~(first = Null /\ to # E_nodename)
  BY <1>3 DEF FirstAway
<1> QED BY <1>2, <1>3

LEMMA BangCall ==
    ASSUME NEW q \in BangArgs, q[2] # <<>>, NEW r, r = HostPath[<<q[1], Head(q[2]), q[3]>>],
           NEW c, c = <<r.rt, Tail(q[2]), r.to, FirstAway(q[4], Head(q[2]), r.to)>>
    PROVE  c \in BangArgs /\ BangLeft[c] < BangLeft[q]
<1>1. q[1] \in Tables /\ q[2] \in Seq(Hosts) /\ q[3] \in Hosts /\ q[4] \in Firsts
  BY DEF BangArgs
<1>2. Head(q[2]) \in Hosts /\ Tail(q[2]) \in Seq(Hosts) /\ Len(Tail(q[2])) < Len(q[2])
  BY <1>1, HeadTail
<1>3. r.rt \in Tables /\ r.to \in Hosts
  BY <1>1, <1>2, PathAt
<1> DEFINE w == FirstAway(q[4], Head(q[2]), r.to)
<1>4. w \in Firsts
  BY <1>1, <1>2, <1>3, FirstIs
<1> HIDE DEF w
<1>5. c \in BangArgs /\ c[2] = Tail(q[2])
  <2>1. c = <<r.rt, Tail(q[2]), r.to, w>>
    BY DEF w
  <2>2. c[2] = Tail(q[2])
    BY <2>1
  <2>3. \A x \in Tables, y \in Seq(Hosts), z \in Hosts, v \in Firsts : <<x, y, z, v>> \in BangArgs
    BY DEF BangArgs
  <2>4. c \in BangArgs
    BY <1>2, <1>3, <1>4, <2>1, <2>3, Zenon
  <2> QED BY <2>2, <2>4
<1> QED BY <1>2, <1>5 DEF BangLeft

LEMMA BangIs ==
    /\ BangRoute \in BangFcns
    /\ BangRoute = BangBody(BangRoute)
<1> DEFINE G == [f \in BangFcns \cup {BangRoute} |-> BangBody(f)]
<1>0. ASSUME NEW q \in BangArgs
      PROVE  q[1] \in Tables /\ q[2] \in Seq(Hosts) /\ q[3] \in Hosts /\ q[4] \in Firsts
  BY DEF BangArgs
<1>1. BangFcns # {}
  <2>1. [q \in BangArgs |-> [rt |-> q[1], to |-> q[3], first |-> q[4]]] \in BangFcns
    BY <1>0 DEF BangFcns, BangAnswers
  <2> QED BY <2>1
<1>2. \A f \in BangFcns : f = [q \in BangArgs |-> f[q]]
  BY DEF BangFcns
<1>3. \A f \in BangFcns : G[f] \in BangFcns
  <2> SUFFICES ASSUME NEW f \in BangFcns PROVE BangBody(f) \in BangFcns
    OBVIOUS
  <2>1. ASSUME NEW q \in BangArgs
        PROVE  BangBody(f)[q] \in BangAnswers
    <3>1. CASE q[2] = <<>> \/ q[3] \in {NoPath, Panic}
      <4>1. BangBody(f)[q] = [rt |-> q[1], to |-> q[3], first |-> q[4]]
        BY <3>1 DEF BangBody
      <4> QED BY <1>0, <4>1 DEF BangAnswers
    <3>2. CASE ~(q[2] = <<>> \/ q[3] \in {NoPath, Panic})
      <4> DEFINE r == HostPath[<<q[1], Head(q[2]), q[3]>>]
                 c == <<r.rt, Tail(q[2]), r.to, FirstAway(q[4], Head(q[2]), r.to)>>
      <4>1. BangBody(f)[q] = f[c]
        BY <3>2 DEF BangBody, BangTurn
      <4>2. c \in BangArgs
        BY <3>2, BangCall
      <4> QED BY <4>1, <4>2 DEF BangFcns
    <3> QED BY <3>1, <3>2
  <2> QED BY <2>1 DEF BangFcns, BangBody
<1>4. \A h \in [BangArgs -> BangFcns] : [q \in BangArgs |-> h[q][q]] \in BangFcns
  BY DEF BangFcns
<1>5. ASSUME NEW f \in BangFcns, NEW e \in BangFcns \cup {BangRoute}, NEW q \in BangArgs,
             \A y \in BangArgs : BangLeft[y] < BangLeft[q] => e[y] = f[y]
      PROVE  G[e][q] = G[f][q]
  <2>1. CASE q[2] = <<>> \/ q[3] \in {NoPath, Panic}
    BY <2>1 DEF BangBody
  <2>2. CASE ~(q[2] = <<>> \/ q[3] \in {NoPath, Panic})
    <3> DEFINE r == HostPath[<<q[1], Head(q[2]), q[3]>>]
               c == <<r.rt, Tail(q[2]), r.to, FirstAway(q[4], Head(q[2]), r.to)>>
    <3>1. c \in BangArgs /\ BangLeft[c] < BangLeft[q]
      BY <2>2, BangCall
    <3>2. e[c] = f[c]
      BY <1>5, <3>1
    <3> QED BY <2>2, <3>2 DEF BangBody, BangTurn
  <2> QED BY <2>1, <2>2
<1>6. BangRoute = CHOOSE g : g = BangBody(g)
  BY DEF BangRoute, BangBody, BangArgs
<1>a. BangLeft \in [BangArgs -> Nat]
  BY <1>0 DEF BangLeft
<1>7. Solved(BangArgs, BangFcns, G, BangRoute)
  <2> HIDE DEF G
  <2>1. Recursive(BangArgs, BangFcns, BangLeft, G, BangRoute)
    BY <1>1, <1>2, <1>3, <1>4, <1>5, <1>a, Zenon DEF Recursive
  <2> QED BY <2>1, Solution
<1>8. PICK f \in BangFcns : f = G[f] /\ (BangRoute = [q \in BangArgs |-> BangRoute[q]]
                                          /\ BangRoute = G[BangRoute] => BangRoute = f)
  BY <1>7 DEF Solved
<1>9. f = BangBody(f)
  BY <1>8
<1>10. BangRoute = BangBody(BangRoute)
  BY <1>6, <1>9, Zenon
<1>11. BangRoute = [q \in BangArgs |-> BangRoute[q]] /\ BangRoute = G[BangRoute]
  BY <1>10 DEF BangBody
<1>12. BangRoute = f
  BY <1>8, <1>11
<1> QED BY <1>8, <1>10, <1>12

-----------------------------------------------------------------------------
\* The way to an address.
LEMMA RouteAt ==
    ASSUME NEW tab \in Tables, NEW hosts \in Seq(Hosts), NEW b \in Hosts
    PROVE  /\ rfc_route[<<tab, hosts, b>>].rt \in Tables /\ rfc_route[<<tab, hosts, b>>].to \in Hosts
           /\ rfc_route[<<tab, hosts, b>>] =
                IF hosts = <<>> \/ b = Panic THEN Answer(tab, b)
                ELSE RouteTurn(rfc_route, HostPath[<<tab, Head(hosts), b>>], hosts)
<1> DEFINE q == <<tab, hosts, b>>
<1>1. q \in RouteArgs /\ q[1] = tab /\ q[2] = hosts /\ q[3] = b
  BY DEF RouteArgs
<1> HIDE DEF q
<1>2. rfc_route[q] \in [rt : Tables, to : Hosts]
  BY <1>1, RouteIs DEF RouteFcns
<1>3. rfc_route[q] = RouteBody(rfc_route)[q]
  BY RouteIs
<1>4. RouteBody(rfc_route)[q] =
        IF q[2] = <<>> \/ q[3] = Panic THEN Answer(q[1], q[3])
        ELSE RouteTurn(rfc_route, HostPath[<<q[1], Head(q[2]), q[3]>>], q[2])
  BY <1>1 DEF RouteBody
<1>5. rfc_route[q].rt \in Tables /\ rfc_route[q].to \in Hosts
  BY <1>2
<1>6. rfc_route[q] = IF hosts = <<>> \/ b = Panic THEN Answer(tab, b)
                     ELSE RouteTurn(rfc_route, HostPath[<<tab, Head(hosts), b>>], hosts)
  BY <1>1, <1>3, <1>4
<1> QED BY <1>5, <1>6 DEF q

LEMMA BangAt ==
    ASSUME NEW tab \in Tables, NEW hosts \in Seq(Hosts), NEW b \in Hosts, NEW f \in Firsts
    PROVE  /\ BangRoute[<<tab, hosts, b, f>>].rt \in Tables
           /\ BangRoute[<<tab, hosts, b, f>>].to \in Hosts
           /\ BangRoute[<<tab, hosts, b, f>>].first \in Firsts
           /\ BangRoute[<<tab, hosts, b, f>>] =
                IF hosts = <<>> \/ b \in {NoPath, Panic} THEN [rt |-> tab, to |-> b, first |-> f]
                ELSE BangTurn(BangRoute, HostPath[<<tab, Head(hosts), b>>], hosts, f)
<1> DEFINE q == <<tab, hosts, b, f>>
<1>1. q \in BangArgs /\ q[1] = tab /\ q[2] = hosts /\ q[3] = b /\ q[4] = f
  BY DEF BangArgs
<1> HIDE DEF q
<1>2. BangRoute[q] \in BangAnswers
  BY <1>1, BangIs DEF BangFcns
<1>3. BangRoute[q] = BangBody(BangRoute)[q]
  BY BangIs
<1>4. BangBody(BangRoute)[q] =
        IF q[2] = <<>> \/ q[3] \in {NoPath, Panic} THEN [rt |-> q[1], to |-> q[3], first |-> q[4]]
        ELSE BangTurn(BangRoute, HostPath[<<q[1], Head(q[2]), q[3]>>], q[2], q[4])
  BY <1>1 DEF BangBody
<1>5. BangRoute[q].rt \in Tables /\ BangRoute[q].to \in Hosts /\ BangRoute[q].first \in Firsts
  BY <1>2 DEF BangAnswers
<1>6. BangRoute[q] = IF hosts = <<>> \/ b \in {NoPath, Panic}
                     THEN [rt |-> tab, to |-> b, first |-> f]
                     ELSE BangTurn(BangRoute, HostPath[<<tab, Head(hosts), b>>], hosts, f)
  BY <1>1, <1>3, <1>4
<1> QED BY <1>5, <1>6 DEF q

LEMMA AddressIs ==
    ASSUME NEW a \in Addresses
    PROVE  /\ a.via \in Seq(Hosts) /\ a.bang \in Seq(Hosts) /\ a.mark \in {"", "+", "\\"}
           /\ a.user \in STRING \cup {Null} /\ a.at \in Hosts \cup {Null}
           /\ a.via # <<>> => a.bang # <<>> \/ a.at # Null
BY DEF Addresses

LEMMA AddressWhole ==
    ASSUME NEW a \in Addresses
    PROVE  a = Address(a.via, a.bang, a.mark, a.user, a.at)
BY DEF Addresses, Address

LEMMA AddressMade ==
    ASSUME NEW v \in Seq(Hosts), NEW b \in Seq(Hosts), NEW m \in {"", "+", "\\"},
           NEW u \in STRING \cup {Null}, NEW h \in Hosts \cup {Null},
           v # <<>> => b # <<>> \/ h # Null
    PROVE  Address(v, b, m, u, h) \in Addresses
BY DEF Addresses, Address

LEMMA UserIs ==
    ASSUME NEW a \in Addresses
    PROVE  /\ User(a) = IF a.at # Null THEN Address(<<>>, a.bang, a.mark, a.user, Null)
                        ELSE Address(<<>>, <<>>, a.mark, a.user, Null)
           /\ User(a) \in Addresses
<1> DEFINE v == a.via
           b == a.bang
           m == a.mark
           u == a.user
           h == a.at
           k == [a EXCEPT !.via = <<>>]
<1>1. /\ v \in Seq(Hosts) /\ b \in Seq(Hosts) /\ m \in {"", "+", "\\"}
      /\ u \in STRING \cup {Null} /\ h \in Hosts \cup {Null}
      /\ a = Address(v, b, m, u, h)
  BY AddressIs, AddressWhole
<1>2. <<>> \in Seq(Hosts)
  BY EmptySeq
<1>3. /\ Address(<<>>, b, m, u, Null) \in Addresses
      /\ Address(<<>>, <<>>, m, u, Null) \in Addresses
  BY <1>1, <1>2, AddressMade
<1>4. [a EXCEPT !.via = <<>>, !.at = Null] = [k EXCEPT !.at = Null]
  BY Zenon
<1>5. [a EXCEPT !.via = <<>>, !.bang = <<>>] = [k EXCEPT !.bang = <<>>]
  BY Zenon
<1>6. User(a) = IF h # Null THEN [k EXCEPT !.at = Null] ELSE [k EXCEPT !.bang = <<>>]
  BY <1>4, <1>5 DEF User
<1> HIDE DEF v, b, m, u, h
<1>7. k = [via |-> <<>>, bang |-> b, mark |-> m, user |-> u, at |-> h]
  <2>1. a = [via |-> v, bang |-> b, mark |-> m, user |-> u, at |-> h]
    BY <1>1 DEF Address
  <2>2. [[via |-> v, bang |-> b, mark |-> m, user |-> u, at |-> h] EXCEPT !.via = <<>>]
          = [via |-> <<>>, bang |-> b, mark |-> m, user |-> u, at |-> h]
    OBVIOUS
  <2> QED BY <2>1, <2>2, Zenon
<1> HIDE DEF k
<1>8. [k EXCEPT !.at = Null] = Address(<<>>, b, m, u, Null)
  BY <1>7 DEF Address
<1>9. [k EXCEPT !.bang = <<>>] = Address(<<>>, <<>>, m, u, h)
  BY <1>7 DEF Address
<1>10. User(a) = IF h # Null THEN Address(<<>>, b, m, u, Null) ELSE Address(<<>>, <<>>, m, u, Null)
  BY <1>6, <1>8, <1>9
<1>11. User(a) \in Addresses
  BY <1>3, <1>10
<1> QED BY <1>10, <1>11 DEF b, m, u, h

LEMMA HostOfIs ==
    ASSUME NEW a \in Addresses, Delimited(a)
    PROVE  Host(a) \in Hosts
<1>1. CASE a.at # Null
  BY <1>1, AddressIs DEF Host
<1>2. CASE a.at = Null
  <2>1. a.bang # <<>> /\ a.bang \in Seq(Hosts)
    BY <1>2, AddressIs DEF Delimited
  <2>2. Last(a.bang) \in Hosts
    BY <2>1 DEF Last
  <2> QED BY <1>2, <2>2 DEF Host
<1> QED BY <1>1, <1>2

LEMMA BangPathIs ==
    ASSUME NEW b, b.rt \in Tables, b.to \in Hosts, b.first \in Firsts
    PROVE  BangPath(b).rt \in Tables /\ BangPath(b).to \in Hosts
<1>1. CASE b.to \in {NoPath, Panic} \/ b.first = Null
  <2>1. BangPath(b) = Answer(b.rt, b.to)
    BY <1>1 DEF BangPath
  <2> QED BY <2>1, AnswersAre
<1>2. CASE ~(b.to \in {NoPath, Panic} \/ b.first = Null)
  <2>1. b.first.host \in Hosts /\ b.first.path \in Hosts
    BY <1>2 DEF Firsts
  <2>2. BangPath(b) = HostPath[<<b.rt, b.first.host, b.first.path>>]
    BY <1>2 DEF BangPath
  <2> QED BY <2>1, <2>2, PathAt
<1> QED BY <1>1, <1>2

LEMMA PathOfIs ==
    ASSUME NEW tab \in Tables, NEW a \in Addresses
    PROVE  PathOf(tab, a).rt \in Tables /\ PathOf(tab, a).to \in Hosts
<1> DEFINE r == rfc_route[<<tab, a.via, E_mailserv>>]
<1>1. r.rt \in Tables /\ r.to \in Hosts
  BY AddressIs, WordsAre, RouteAt
<1>2. PathOf(tab, a) = PathFrom(r, a)
  BY DEF PathOf
<1> HIDE DEF r
<1>3. CASE r.to \in {NoPath, Panic}
  BY <1>1, <1>2, <1>3 DEF PathFrom
<1>4. CASE r.to \notin {NoPath, Panic} /\ a.at # Null
  <2>1. a.at \in Hosts
    BY <1>4, AddressIs
  <2>2. PathFrom(r, a) = HostPath[<<r.rt, a.at, r.to>>]
    BY <1>4 DEF PathFrom
  <2> QED BY <1>1, <1>2, <2>1, <2>2, PathAt
<1>5. CASE r.to \notin {NoPath, Panic} /\ a.at = Null
  <2> DEFINE b == BangRoute[<<r.rt, a.bang, r.to, Null>>]
  <2>1. Null \in Firsts
    BY DEF Firsts
  <2>2. b.rt \in Tables /\ b.to \in Hosts /\ b.first \in Firsts
    BY <1>1, <2>1, AddressIs, BangAt
  <2>3. PathFrom(r, a) = BangPath(b)
    BY <1>5 DEF PathFrom
  <2> HIDE DEF b
  <2> QED BY <1>2, <2>2, <2>3, BangPathIs
<1> QED BY <1>3, <1>4, <1>5

LEMMA ParsedIs ==
    ASSUME NEW a \in Addresses, Delimited(a), NEW p, p.rt \in Tables, p.to \in Hosts, NEW r,
           r = Parsed(a, p)
    PROVE  /\ r.rt \in Tables /\ r.user \in {a, User(a)} /\ r.user \in Addresses
           /\ r.node \in Hosts /\ r.path \in Hosts
           /\ r = [user |-> r.user, node |-> r.node, rt |-> r.rt, path |-> r.path]
           /\ r.user = a => r.user = User(a) \/ p.to \in {NoPath, Panic}
<1>1. CASE p.to \in {NoPath, Panic}
  <2>1. r = [user |-> a, node |-> E_domain, rt |-> p.rt,
             path |-> IF p.to = Panic THEN Panic ELSE E_nodename]
    BY <1>1 DEF Parsed
  <2> QED BY <1>1, <2>1, WordsAre
<1>2. CASE p.to \notin {NoPath, Panic}
  <2> DEFINE real == HostAlias[<<p.rt, Host(a)>>]
  <2>1. real.rt \in Tables /\ real.to \in Hosts
    BY HostOfIs, AliasOfIs
  <2>2. r = AtNode(a, p, real)
    BY <1>2 DEF Parsed
  <2> HIDE DEF real
  <2>3. r = [user |-> User(a), node |-> real.to, rt |-> real.rt,
             path |-> IF Away(p, real) THEN E_mailserv ELSE p.to]
    BY <2>2 DEF AtNode
  <2> QED BY <2>1, <2>3, WordsAre, UserIs
<1> QED BY <1>1, <1>2

Cached(tab, a) == tab.last # Null /\ tab.last.of = a

LEMMA LastIs ==
    ASSUME NEW tab \in Tables, tab.last # Null
    PROVE  /\ tab.last.of \in Addresses /\ tab.last.user \in Addresses
           /\ tab.last.node \in Hosts /\ tab.last.path \in Hosts
BY TableIs DEF Lasts

LEMMA RememberedIs ==
    ASSUME NEW a \in Addresses, NEW r, r.rt \in Tables, r.user \in Addresses,
           r.node \in Hosts, r.path \in Hosts,
           r = [user |-> r.user, node |-> r.node, rt |-> r.rt, path |-> r.path],
           NEW s, s = Remembered(r, a)
    PROVE  /\ s.rt \in Tables /\ s.user = r.user /\ s.node = r.node /\ s.path = r.path
           /\ s.rt.last = [of |-> a, user |-> r.user, node |-> r.node, path |-> r.path]
           /\ s.rt.hosts = r.rt.hosts
<1> DEFINE l == [of |-> a, user |-> r.user, node |-> r.node, path |-> r.path]
           t == r.rt
           w == [t EXCEPT !.last = l]
<1>1. l \in Lasts
  BY DEF Lasts
<1>2. s = [r EXCEPT !.rt = w]
  BY DEF Remembered
<1> HIDE DEF l
<1>3. t \in Tables
  OBVIOUS
<1> HIDE DEF t
<1>4. w = [hosts |-> t.hosts, last |-> l] /\ t.hosts \in Seq(Entries)
  BY <1>3 DEF Tables
<1>5. w \in Tables /\ w.last = l /\ w.hosts = t.hosts
  BY <1>1, <1>4 DEF Tables
<1> HIDE DEF w
<1>6. s.rt = w /\ s.user = r.user /\ s.node = r.node /\ s.path = r.path
  BY <1>2
<1> QED BY <1>5, <1>6 DEF l, t

LEMMA NodeIs ==
    ASSUME NEW tab \in Tables, NEW a \in Addresses, NEW r, r = user_at_node(tab, a)
    PROVE  /\ r.rt \in Tables /\ r.user \in Addresses /\ r.path \in Hosts
           /\ ~Delimited(a) => r.user = a /\ r.rt = tab /\ r.path = E_nodename
           /\ Delimited(a) /\ Cached(tab, a) =>
                r.user = tab.last.user /\ r.rt = tab /\ r.path = tab.last.path
           /\ Delimited(a) /\ ~Cached(tab, a) =>
                /\ r.rt.last.of = a /\ r.rt.last.path = r.path
                /\ r.user \in {a, User(a)}
                /\ r.path = Parsed(a, PathOf(tab, a)).path
                /\ r.rt.hosts = Parsed(a, PathOf(tab, a)).rt.hosts
<1>1. CASE ~Delimited(a)
  <2>1. r = [user |-> a, node |-> E_nodename, path |-> E_nodename, rt |-> tab]
    BY <1>1 DEF user_at_node
  <2> QED BY <1>1, <2>1, WordsAre
<1>2. CASE Delimited(a) /\ Cached(tab, a)
  <2>1. r = [user |-> tab.last.user, node |-> tab.last.node, path |-> tab.last.path, rt |-> tab]
    BY <1>2 DEF user_at_node, Cached
  <2>2. tab.last.user \in Addresses /\ tab.last.path \in Hosts
    BY <1>2, LastIs DEF Cached
  <2> QED BY <1>2, <2>1, <2>2
<1>3. CASE Delimited(a) /\ ~Cached(tab, a)
  <2> DEFINE p == PathOf(tab, a)
             s == Parsed(a, p)
  <2>1. r = Remembered(s, a)
    BY <1>3 DEF user_at_node, Cached
  <2>2. p.rt \in Tables /\ p.to \in Hosts
    BY PathOfIs
  <2> HIDE DEF p
  <2>3. /\ s.rt \in Tables /\ s.user \in {a, User(a)} /\ s.user \in Addresses
        /\ s.node \in Hosts /\ s.path \in Hosts
        /\ s = [user |-> s.user, node |-> s.node, rt |-> s.rt, path |-> s.path]
    BY <1>3, <2>2, ParsedIs
  <2> HIDE DEF s
  <2> DEFINE l == [of |-> a, user |-> s.user, node |-> s.node, path |-> s.path]
  <2>4. /\ r.rt \in Tables /\ r.user = s.user /\ r.path = s.path
        /\ r.rt.last = l /\ r.rt.hosts = s.rt.hosts
    BY <2>1, <2>3, RememberedIs
  <2>5. l.of = a /\ l.path = s.path
    OBVIOUS
  <2> HIDE DEF l
  <2>6. s = Parsed(a, PathOf(tab, a))
    BY DEF s, p
  <2> QED BY <1>3, <2>3, <2>4, <2>5, <2>6
<1> QED BY <1>1, <1>2, <1>3

\* So does Leading: an address gets shorter when our own host is taken off, but
\* for one that has been asked for before.
Kinds == {"panic", "gateway", "remote", "local"}
LeadAnswers == [rt : Tables, kind : Kinds, addr : Addresses]
LeadArgs == Tables \X Addresses
LeadBody(f) == [q \in LeadArgs |-> LeadTurn(f, user_at_node(q[1], q[2]), q[2])]
LeadFcns == [LeadArgs -> LeadAnswers]

Size(a) == Len(a.via) + Len(a.bang) + (IF a.at # Null THEN 1 ELSE 0)
LeadLeft == [q \in LeadArgs |-> IF Cached(q[1], q[2]) THEN Size(q[1].last.user) + 1 ELSE Size(q[2])]

LEMMA SizeIs == \A a \in Addresses : Size(a) \in Nat
<1> SUFFICES ASSUME NEW a \in Addresses PROVE Size(a) \in Nat
  OBVIOUS
<1> DEFINE x == IF a.at # Null THEN 1 ELSE 0
<1>1. Len(a.via) \in Nat /\ Len(a.bang) \in Nat
  <2>1. a.via \in Seq(Hosts) /\ a.bang \in Seq(Hosts)
    BY AddressIs
  <2>2. \A w \in Seq(Hosts) : Len(w) \in Nat
    OBVIOUS
  <2> QED BY <2>1, <2>2
<1>2. x \in Nat
  OBVIOUS
<1>3. Size(a) = Len(a.via) + Len(a.bang) + x
  BY DEF Size
<1> HIDE DEF x
<1>4. \A k, l, m \in Nat : k + l + m \in Nat
  OBVIOUS
<1> QED BY <1>1, <1>2, <1>3, <1>4, Zenon

LEMMA UserShorter ==
    ASSUME NEW a \in Addresses, Delimited(a)
    PROVE  Size(User(a)) < Size(a)
<1> DEFINE v == a.via
           b == a.bang
           h == IF a.at # Null THEN 1 ELSE 0
<1>1. /\ v \in Seq(Hosts) /\ b \in Seq(Hosts) /\ h \in {0, 1}
      /\ h = 1 <=> a.at # Null
      /\ Size(a) = Len(v) + Len(b) + h
  <2>1. v \in Seq(Hosts) /\ b \in Seq(Hosts)
    BY AddressIs
  <2>2. h \in {0, 1} /\ (h = 1 <=> a.at # Null)
    OBVIOUS
  <2>3. Size(a) = Len(v) + Len(b) + h
    BY Zenon DEF Size
  <2> QED BY <2>1, <2>2, <2>3
<1>2. \A x \in Seq(Hosts) : \A m, u : LET y == Address(<<>>, x, m, u, Null)
                                  IN  y.via = <<>> /\ y.bang = x /\ y.at = Null
  BY DEF Address
<1>3. \A x \in Seq(Hosts) : \A m, u : Size(Address(<<>>, x, m, u, Null)) = Len(<<>>) + Len(x) + 0
  BY <1>2 DEF Size
<1>4. CASE a.at # Null
  <2>1. User(a) = Address(<<>>, b, a.mark, a.user, Null)
    BY <1>4, UserIs
  <2>2. Size(User(a)) = Len(<<>>) + Len(b) + 0
    BY <1>1, <1>3, <2>1
  <2> HIDE DEF v, b, h
  <2>3. h = 1
    BY <1>1, <1>4
  <2> DEFINE s == Size(User(a))
             t == Size(a)
  <2>4. s = Len(<<>>) + Len(b) + 0 /\ t = Len(v) + Len(b) + h
    BY <1>1, <2>2
  <2> HIDE DEF s, t
  <2>5. s < t
    BY <1>1, <2>3, <2>4, EmptySeq
  <2> QED BY <2>5 DEF s, t
<1>5. CASE a.at = Null
  <2>1. User(a) = Address(<<>>, <<>>, a.mark, a.user, Null)
    BY <1>5, UserIs
  <2>2. Size(User(a)) = Len(<<>>) + Len(<<>>) + 0
    <3>1. <<>> \in Seq(Hosts)
      BY EmptySeq
    <3> QED BY <1>3, <2>1, <3>1
  <2>3. v # <<>> \/ b # <<>>
    BY <1>5 DEF Delimited
  <2> HIDE DEF v, b, h
  <2>4. h = 0
    BY <1>1, <1>5
  <2> DEFINE s == Size(User(a))
             t == Size(a)
  <2>5. s = Len(<<>>) + Len(<<>>) + 0 /\ t = Len(v) + Len(b) + h
    BY <1>1, <2>2
  <2> HIDE DEF s, t
  <2>6. s < t
    BY <1>1, <2>3, <2>4, <2>5, EmptySeq
  <2> QED BY <2>6 DEF s, t
<1> QED BY <1>4, <1>5

LEMMA LeadCall ==
    ASSUME NEW tab \in Tables, NEW a \in Addresses, Delimited(a),
           NEW r, r = user_at_node(tab, a), r.user # a
    PROVE  /\ <<r.rt, r.user>> \in LeadArgs
           /\ LeadLeft[<<r.rt, r.user>>] < LeadLeft[<<tab, a>>]
<1> DEFINE c == <<r.rt, r.user>>
           q == <<tab, a>>
<1>1. /\ c \in LeadArgs /\ c[1] = r.rt /\ c[2] = r.user
      /\ q \in LeadArgs /\ q[1] = tab /\ q[2] = a
  BY NodeIs DEF LeadArgs
<1> HIDE DEF c, q
<1>2. /\ LeadLeft[c] = IF Cached(r.rt, r.user) THEN Size(r.rt.last.user) + 1 ELSE Size(r.user)
      /\ LeadLeft[q] = IF Cached(tab, a) THEN Size(tab.last.user) + 1 ELSE Size(a)
  BY <1>1 DEF LeadLeft
<1>3. CASE Cached(tab, a)
  <2>1. r.user = tab.last.user /\ r.rt = tab
    BY <1>3, NodeIs
  <2>2. ~Cached(r.rt, r.user)
    BY <1>3, <2>1 DEF Cached
  <2>3. Size(r.user) \in Nat
    BY NodeIs, SizeIs
  <2>4. LeadLeft[c] < LeadLeft[q]
    BY <1>2, <1>3, <2>1, <2>2, <2>3
  <2> QED BY <1>1, <2>4 DEF c, q
<1>4. CASE ~Cached(tab, a)
  <2>1. r.user = User(a) /\ r.rt.last.of = a
    BY <1>4, NodeIs
  <2>2. ~Cached(r.rt, r.user)
    BY <2>1 DEF Cached
  <2>3. Size(r.user) < Size(a)
    BY <2>1, UserShorter
  <2>4. LeadLeft[c] < LeadLeft[q]
    BY <1>2, <1>4, <2>2, <2>3
  <2> QED BY <1>1, <2>4 DEF c, q
<1> QED BY <1>3, <1>4

\* Where LeadTurn calls itself.
LeadsOn(r, a) ==
    /\ r.path # Panic /\ ~Gateway(r) /\ r.path = E_nodename
    /\ Delimited(a) /\ r.user # a

LEMMA LeadTurnIs ==
    ASSUME NEW r, NEW a
    PROVE  /\ LeadsOn(r, a) => \A f : LeadTurn(f, r, a) = f[<<r.rt, r.user>>]
           /\ ~LeadsOn(r, a) => \E k \in Kinds, x \in {a, r.user} :
                (k = "remote" => x = a) /\ \A f : LeadTurn(f, r, a) = Lead(r, k, x)
<1>1. CASE r.path = Panic
  BY <1>1 DEF LeadTurn, LeadsOn, Kinds
<1>2. CASE r.path # Panic /\ Gateway(r)
  BY <1>2 DEF LeadTurn, LeadsOn, Kinds
<1>3. CASE r.path # Panic /\ ~Gateway(r) /\ r.path # E_nodename
  BY <1>3 DEF LeadTurn, LeadsOn, Kinds
<1>4. CASE r.path # Panic /\ ~Gateway(r) /\ r.path = E_nodename /\ ~Delimited(a)
  BY <1>4 DEF LeadTurn, LeadsOn, Kinds
<1>5. CASE r.path # Panic /\ ~Gateway(r) /\ r.path = E_nodename /\ Delimited(a) /\ r.user = a
  BY <1>5 DEF LeadTurn, LeadsOn, Kinds
<1>6. CASE LeadsOn(r, a)
  BY <1>6 DEF LeadTurn, LeadsOn
<1> QED BY <1>1, <1>2, <1>3, <1>4, <1>5, <1>6 DEF LeadsOn

LEMMA LeadIs ==
    ASSUME NEW r, r.rt \in Tables, NEW k \in Kinds, NEW a \in Addresses
    PROVE  /\ Lead(r, k, a) \in LeadAnswers /\ Lead(r, k, a).rt = r.rt /\ Lead(r, k, a).kind = k
           /\ Lead(r, k, a).addr = a
BY DEF Lead, LeadAnswers

LEMMA LeadingIs ==
    /\ Leading \in LeadFcns
    /\ Leading = LeadBody(Leading)
<1> DEFINE G == [f \in LeadFcns \cup {Leading} |-> LeadBody(f)]
<1>0. ASSUME NEW q \in LeadArgs PROVE q[1] \in Tables /\ q[2] \in Addresses /\ q = <<q[1], q[2]>>
  BY DEF LeadArgs
<1>1. LeadFcns # {}
  <2>1. [q \in LeadArgs |-> [rt |-> q[1], kind |-> "local", addr |-> q[2]]] \in LeadFcns
    BY <1>0 DEF LeadFcns, LeadAnswers, Kinds
  <2> QED BY <2>1
<1>2. \A f \in LeadFcns : f = [q \in LeadArgs |-> f[q]]
  BY DEF LeadFcns
<1>3. \A f \in LeadFcns : G[f] \in LeadFcns
  <2> SUFFICES ASSUME NEW f \in LeadFcns PROVE LeadBody(f) \in LeadFcns
    OBVIOUS
  <2>1. ASSUME NEW q \in LeadArgs
        PROVE  LeadBody(f)[q] \in LeadAnswers
    <3> DEFINE r == user_at_node(q[1], q[2])
    <3>1. LeadBody(f)[q] = LeadTurn(f, r, q[2])
      BY DEF LeadBody
    <3>2. /\ r.rt \in Tables /\ r.user \in Addresses /\ q[2] \in Addresses /\ q[1] \in Tables
          /\ r = user_at_node(q[1], q[2])
      BY <1>0, NodeIs
    <3> HIDE DEF r
    <3>3. CASE LeadsOn(r, q[2])
      <4>1. LeadTurn(f, r, q[2]) = f[<<r.rt, r.user>>]
        BY <3>2, <3>3, LeadTurnIs
      <4>2. <<r.rt, r.user>> \in LeadArgs
        BY <3>2 DEF LeadArgs
      <4> QED BY <3>1, <4>1, <4>2 DEF LeadFcns
    <3>4. CASE ~LeadsOn(r, q[2])
      <4>1. \E k \in Kinds, x \in {q[2], r.user} : LeadTurn(f, r, q[2]) = Lead(r, k, x)
        BY <3>4, LeadTurnIs, Zenon
      <4> QED BY <3>1, <3>2, <4>1, LeadIs
    <3> QED BY <3>3, <3>4
  <2> QED BY <2>1 DEF LeadFcns, LeadBody
<1>4. \A h \in [LeadArgs -> LeadFcns] : [q \in LeadArgs |-> h[q][q]] \in LeadFcns
  BY DEF LeadFcns
<1>5. ASSUME NEW f \in LeadFcns, NEW e \in LeadFcns \cup {Leading}, NEW q \in LeadArgs,
             \A y \in LeadArgs : LeadLeft[y] < LeadLeft[q] => e[y] = f[y]
      PROVE  G[e][q] = G[f][q]
  <2> DEFINE r == user_at_node(q[1], q[2])
  <2>0. /\ q[1] \in Tables /\ q[2] \in Addresses /\ q = <<q[1], q[2]>>
        /\ r = user_at_node(q[1], q[2])
    BY <1>0
  <2> HIDE DEF r
  <2>1. LeadTurn(e, r, q[2]) = LeadTurn(f, r, q[2])
    <3>1. CASE LeadsOn(r, q[2])
      <4>1. /\ LeadTurn(f, r, q[2]) = f[<<r.rt, r.user>>]
            /\ LeadTurn(e, r, q[2]) = e[<<r.rt, r.user>>]
        BY <2>0, <3>1, LeadTurnIs
      <4>2. /\ <<r.rt, r.user>> \in LeadArgs
            /\ LeadLeft[<<r.rt, r.user>>] < LeadLeft[<<q[1], q[2]>>]
        BY <2>0, <3>1, LeadCall DEF LeadsOn
      <4>3. e[<<r.rt, r.user>>] = f[<<r.rt, r.user>>]
        BY <1>5, <2>0, <4>2
      <4> QED BY <4>1, <4>3
    <3>2. CASE ~LeadsOn(r, q[2])
      <4>1. PICK k \in Kinds, x \in {q[2], r.user} : \A g : LeadTurn(g, r, q[2]) = Lead(r, k, x)
        BY <3>2, LeadTurnIs, Zenon
      <4> QED BY <4>1
    <3> QED BY <3>1, <3>2
  <2> QED BY <2>1 DEF LeadBody, r
<1>6. Leading = CHOOSE g : g = LeadBody(g)
  BY DEF Leading, LeadBody, LeadArgs
<1>a. LeadLeft \in [LeadArgs -> Nat]
  <2>1. ASSUME NEW q \in LeadArgs
        PROVE  (IF Cached(q[1], q[2]) THEN Size(q[1].last.user) + 1 ELSE Size(q[2])) \in Nat
    <3>1. q[1] \in Tables /\ Size(q[2]) \in Nat
      BY <1>0, SizeIs
    <3>2. Cached(q[1], q[2]) => Size(q[1].last.user) \in Nat
      BY <3>1, LastIs, SizeIs DEF Cached
    <3> QED BY <3>1, <3>2
  <2> QED BY <2>1 DEF LeadLeft
<1>7. Solved(LeadArgs, LeadFcns, G, Leading)
  <2> HIDE DEF G
  <2>1. Recursive(LeadArgs, LeadFcns, LeadLeft, G, Leading)
    BY <1>1, <1>2, <1>3, <1>4, <1>5, <1>a, Zenon DEF Recursive
  <2> QED BY <2>1, Solution
<1>8. PICK f \in LeadFcns : f = G[f] /\ (Leading = [q \in LeadArgs |-> Leading[q]]
                                          /\ Leading = G[Leading] => Leading = f)
  BY <1>7 DEF Solved
<1>9. f = LeadBody(f)
  BY <1>8
<1>10. Leading = LeadBody(Leading)
  BY <1>6, <1>9, Zenon
<1>11. Leading = [q \in LeadArgs |-> Leading[q]] /\ Leading = G[Leading]
  BY <1>10 DEF LeadBody
<1>12. Leading = f
  BY <1>8, <1>11
<1> QED BY <1>8, <1>10, <1>12

-----------------------------------------------------------------------------
(***************************************************************************)
(* Following onward from an entry: what is passed, and where it ends.      *)
(***************************************************************************)
Shut(onward, C) == \A j \in C : onward[j] \in DOMAIN onward => onward[j] \in C

Reach(onward, i) ==
    {k \in DOMAIN onward : \A C \in SUBSET DOMAIN onward : i \in C /\ Shut(onward, C) => k \in C}

EndOf(onward, i) == CHOOSE k \in Reach(onward, i) : onward[k] \notin DOMAIN onward

LEMMA CircleInduction ==
    ASSUME NEW onward, NoCircle(onward), NEW P,
           \A i \in DOMAIN onward : (onward[i] \in DOMAIN onward => onward[i] \in P) => i \in P
    PROVE  \A i \in DOMAIN onward : i \in P
<1> DEFINE S == {i \in DOMAIN onward : i \notin P}
<1>1. CASE S = {}
  BY <1>1
<1>2. CASE S # {}
  <2>1. PICK i \in S : onward[i] \notin S
    BY <1>2 DEF NoCircle
  <2> QED BY <2>1
<1> QED BY <1>1, <1>2

LEMMA ReachIs ==
    ASSUME NEW onward, NEW i \in DOMAIN onward
    PROVE  /\ i \in Reach(onward, i) /\ Reach(onward, i) \subseteq DOMAIN onward
           /\ Shut(onward, Reach(onward, i))
           /\ \A C \in SUBSET DOMAIN onward : i \in C /\ Shut(onward, C) => Reach(onward, i) \subseteq C
<1>1. i \in Reach(onward, i) /\ Reach(onward, i) \subseteq DOMAIN onward
  BY DEF Reach
<1>2. ASSUME NEW j \in Reach(onward, i), onward[j] \in DOMAIN onward
      PROVE  onward[j] \in Reach(onward, i)
  BY <1>2 DEF Reach, Shut
<1>3. \A C \in SUBSET DOMAIN onward : i \in C /\ Shut(onward, C) => Reach(onward, i) \subseteq C
  BY DEF Reach
<1> QED BY <1>1, <1>2, <1>3 DEF Shut

LEMMA ReachStep ==
    ASSUME NEW onward, NoCircle(onward), NEW i \in DOMAIN onward, onward[i] \in DOMAIN onward
    PROVE  /\ i \notin Reach(onward, onward[i])
           /\ Reach(onward, i) = {i} \cup Reach(onward, onward[i])
<1> DEFINE j == onward[i]
           A == Reach(onward, i)
           B == Reach(onward, j)
<1>1. /\ j \in B /\ B \subseteq DOMAIN onward /\ Shut(onward, B)
      /\ \A C \in SUBSET DOMAIN onward : j \in C /\ Shut(onward, C) => B \subseteq C
  BY ReachIs
<1>2. /\ i \in A /\ A \subseteq DOMAIN onward /\ Shut(onward, A)
      /\ \A C \in SUBSET DOMAIN onward : i \in C /\ Shut(onward, C) => A \subseteq C
  BY ReachIs
<1>3. A = {i} \cup B
  <2>1. Shut(onward, {i} \cup B) /\ {i} \cup B \in SUBSET DOMAIN onward
    BY <1>1 DEF Shut
  <2>2. A \subseteq {i} \cup B
    BY <1>2, <2>1
  <2>3. j \in A
    BY <1>2 DEF Shut
  <2>4. B \subseteq A
    BY <1>1, <1>2, <2>3
  <2> QED BY <1>2, <2>2, <2>4
<1>4. ASSUME i \in B PROVE FALSE
  <2> DEFINE S == {k \in B : i \in Reach(onward, k)}
  <2>1. j \in S /\ S \in SUBSET DOMAIN onward
    BY <1>1, <1>4
  <2>2. ASSUME NEW k \in S PROVE onward[k] \in S
    <3>1. CASE k = i
      BY <2>1, <3>1
    <3>2. CASE k # i
      <4>1. k \in DOMAIN onward /\ i \in Reach(onward, k) /\ k \in B
        BY <1>1
      <4>2. onward[k] \in DOMAIN onward
        <5>1. CASE onward[k] \notin DOMAIN onward
          <6>1. Shut(onward, {k}) /\ {k} \in SUBSET DOMAIN onward
            BY <4>1, <5>1 DEF Shut
          <6>2. Reach(onward, k) \subseteq {k}
            BY <4>1, <6>1, ReachIs
          <6> QED BY <3>2, <4>1, <6>2
        <5> QED BY <5>1
      <4>3. onward[k] \in B
        BY <1>1, <4>1, <4>2 DEF Shut
      <4> DEFINE K == Reach(onward, onward[k])
      <4>4. onward[k] \in K /\ K \subseteq DOMAIN onward /\ Shut(onward, K)
        BY <4>2, ReachIs
      <4>5. Shut(onward, {k} \cup K) /\ {k} \cup K \in SUBSET DOMAIN onward
        BY <4>1, <4>4 DEF Shut
      <4>6. Reach(onward, k) \subseteq {k} \cup K
        BY <4>1, <4>5, ReachIs
      <4>7. i \in K
        BY <3>2, <4>1, <4>6
      <4> QED BY <4>3, <4>7
    <3> QED BY <3>1, <3>2
  <2> HIDE DEF S
  <2>3. \E k \in S : onward[k] \notin S
    BY <2>1 DEF NoCircle
  <2> QED BY <2>2, <2>3
<1> QED BY <1>3, <1>4

LEMMA ReachLast ==
    ASSUME NEW onward, NEW i \in DOMAIN onward, onward[i] \notin DOMAIN onward
    PROVE  Reach(onward, i) = {i}
<1>1. Shut(onward, {i}) /\ {i} \in SUBSET DOMAIN onward
  BY DEF Shut
<1> QED BY <1>1, ReachIs

LEMMA EndIs ==
    ASSUME NEW onward, NoCircle(onward), NEW i \in DOMAIN onward
    PROVE  /\ EndOf(onward, i) \in Reach(onward, i)
           /\ onward[EndOf(onward, i)] \notin DOMAIN onward
           /\ onward[i] \in DOMAIN onward => EndOf(onward, i) = EndOf(onward, onward[i])
           /\ onward[i] \notin DOMAIN onward => EndOf(onward, i) = i
<1> DEFINE A == Reach(onward, i)
<1>1. i \in A /\ A \in SUBSET DOMAIN onward /\ Shut(onward, A)
  BY ReachIs
<1>2. \E k \in A : onward[k] \notin A
  <2> HIDE DEF A
  <2> QED BY <1>1 DEF NoCircle
<1>3. \E k \in A : onward[k] \notin DOMAIN onward
  <2> HIDE DEF A
  <2> QED BY <1>1, <1>2 DEF Shut
<1>4. EndOf(onward, i) \in A /\ onward[EndOf(onward, i)] \notin DOMAIN onward
  BY <1>3 DEF EndOf
<1>5. CASE onward[i] \in DOMAIN onward
  <2>1. A = {i} \cup Reach(onward, onward[i])
    BY <1>5, ReachStep
  <2>2. \A k : (k \in A /\ onward[k] \notin DOMAIN onward)
               <=> (k \in Reach(onward, onward[i]) /\ onward[k] \notin DOMAIN onward)
    BY <1>5, <2>1
  <2>3. EndOf(onward, i) = EndOf(onward, onward[i])
    <3>1. (CHOOSE k : k \in A /\ onward[k] \notin DOMAIN onward)
            = (CHOOSE k : k \in Reach(onward, onward[i]) /\ onward[k] \notin DOMAIN onward)
      <4> HIDE DEF A
      <4> QED BY <2>2
    <3> QED BY <3>1 DEF EndOf
  <2> QED BY <1>4, <1>5, <2>3
<1>6. CASE onward[i] \notin DOMAIN onward
  <2>1. A = {i}
    BY <1>6, ReachLast
  <2> QED BY <1>4, <1>6, <2>1
<1> QED BY <1>5, <1>6

-----------------------------------------------------------------------------
(***************************************************************************)
(* Every lookup of rmail comes to an end with an answer, also when the     *)
(* aliases or the routes of the table run in a circle: the recursions of   *)
(* HostAlias, HostPath, of the explicit route, the bang path and of        *)
(* remote_address have a solution, which the functions therefore are.      *)
(* What ends them is what they mark in the table, and the address that     *)
(* gets shorter whenever it leads to ourselves.                            *)
(***************************************************************************)
THEOREM LookupsEnd ==
    /\ HostAlias \in [Tables \X Hosts -> [rt : Tables, to : Hosts]]
    /\ HostAlias = AliasBody(HostAlias)
    /\ HostPath \in [Tables \X Hosts \X Hosts -> [rt : Tables, to : Hosts]]
    /\ HostPath = PathBody(HostPath)
    /\ rfc_route = RouteBody(rfc_route) /\ BangRoute = BangBody(BangRoute)
    /\ Leading = LeadBody(Leading)
    /\ \A rt0 \in Tables, a \in Addresses :
          remote_address(rt0, a) \in [rt : Tables, kind : Kinds, addr : Addresses]
<1>1. /\ HostAlias \in [AliasArgs -> [rt : Tables, to : Hosts]]
      /\ HostPath \in [PathArgs -> [rt : Tables, to : Hosts]]
      /\ Leading \in [LeadArgs -> LeadAnswers]
  BY HostAliasIs, HostPathIs, LeadingIs DEF AliasFcns, PathFcns, LeadFcns
<1>2. HostAlias = AliasBody(HostAlias)
  <2>1. HostAlias = [q \in AliasArgs |-> HostAlias[q]]
    BY <1>1
  <2>2. \A q \in AliasArgs :
           HostAlias[q] = AliasTurn(HostAlias, q[1], q[2], checkname(q[1].hosts, q[2]))
    BY HostAliasIs
  <2> QED BY <2>1, <2>2 DEF AliasBody
<1>3. HostPath = PathBody(HostPath)
  <2>1. HostPath = [q \in PathArgs |-> HostPath[q]]
    BY <1>1
  <2>2. \A q \in PathArgs :
           HostPath[q] = PathTurn(HostPath, q[1], q[2], q[3], checkname(q[1].hosts, q[2]))
    BY HostPathIs
  <2> QED BY <2>1, <2>2 DEF PathBody
<1>4. ASSUME NEW rt0 \in Tables, NEW a \in Addresses
      PROVE  remote_address(rt0, a) \in LeadAnswers
  <2>1. <<rt0, a>> \in LeadArgs
    BY DEF LeadArgs
  <2> QED BY <1>1, <2>1 DEF remote_address
<1> QED BY <1>1, <1>2, <1>3, <1>4, RouteIs, BangIs, LeadingIs
        DEF AliasArgs, PathArgs, LeadArgs, LeadAnswers

-----------------------------------------------------------------------------
(***************************************************************************)
(* The table as it is loaded: no two entries of one name, and nothing      *)
(* marked.                                                                 *)
(***************************************************************************)
FreshEntries == {e \in [name : HostNames, status : States, realname : HostNames \cup {Null},
                        via : HostNames \cup {Null}, aliased : {FALSE}, routed : {FALSE}] :
                   e.status = "localhost" => e.name = E_nodename}

FreshHosts == {t \in Seq(FreshEntries) : \A i, j \in DOMAIN t : t[i].name = t[j].name => i = j}

LEMMA FreshIsEntry == FreshEntries \subseteq Entries
<1> SUFFICES ASSUME NEW e \in FreshEntries PROVE e \in Entries
  OBVIOUS
<1>1. /\ e = [name |-> e.name, status |-> e.status, realname |-> e.realname,
              via |-> e.via, aliased |-> e.aliased, routed |-> e.routed]
      /\ e.name \in Hosts /\ e.status \in States /\ e.realname \in Hosts \cup {Null}
      /\ e.via \in Hosts \cup {Null}
  BY DEF FreshEntries, HostNames
<1>2. e.aliased = FALSE /\ e.routed = FALSE
  BY DEF FreshEntries
<1> QED BY <1>1, <1>2 DEF Entries

LEMMA EntryFresh ==
    ASSUME NEW n \in HostNames
    PROVE  Entry(n) \in FreshEntries /\ Entry(n).name = n /\ Entry(n).via = Null
BY DEF Entry, FreshEntries, States

LEMMA SetFresh ==
    ASSUME NEW e \in FreshEntries, NEW v \in HostNames
    PROVE  /\ [e EXCEPT !.realname = v] \in FreshEntries
           /\ [e EXCEPT !.via = v] \in FreshEntries
           /\ [e EXCEPT !.realname = v].name = e.name /\ [e EXCEPT !.via = v].name = e.name
           /\ [e EXCEPT !.realname = v].status = e.status /\ [e EXCEPT !.via = v].status = e.status
BY DEF FreshEntries

LEMMA StatusFresh ==
    ASSUME NEW e \in FreshEntries, NEW s \in {"nocall", "gatewayed"}
    PROVE  [e EXCEPT !.status = s] \in FreshEntries /\ [e EXCEPT !.status = s].name = e.name
BY DEF FreshEntries, States

LEMMA FindFresh ==
    ASSUME NEW t \in FreshHosts, NEW n
    PROVE  /\ Find(t, n) # 0 => Find(t, n) \in DOMAIN t /\ t[Find(t, n)].name = n
           /\ Find(t, n) = 0 => \A i \in DOMAIN t : t[i].name # n
<1>0. 0 \notin DOMAIN t
  BY DEF FreshHosts
<1>1. CASE \E i \in DOMAIN t : t[i].name = n
  <2> DEFINE k == CHOOSE i \in DOMAIN t : t[i].name = n
  <2>1. k \in DOMAIN t /\ t[k].name = n
    BY <1>1
  <2>2. Find(t, n) = k
    BY <1>1 DEF Find
  <2> QED BY <1>0, <2>1, <2>2
<1>2. CASE ~ \E i \in DOMAIN t : t[i].name = n
  BY <1>2 DEF Find
<1> QED BY <1>1, <1>2

LEMMA WriteFresh ==
    ASSUME NEW t \in FreshHosts, NEW i \in DOMAIN t, NEW e \in FreshEntries, e.name = t[i].name
    PROVE  [t EXCEPT ![i] = e] \in FreshHosts
<1> DEFINE u == [t EXCEPT ![i] = e]
<1>1. t \in Seq(FreshEntries) /\ \A j, k \in DOMAIN t : t[j].name = t[k].name => j = k
  BY DEF FreshHosts
<1>2. u \in Seq(FreshEntries) /\ DOMAIN u = DOMAIN t
  BY <1>1
<1>3. \A j \in DOMAIN t : u[j].name = t[j].name
  OBVIOUS
<1> HIDE DEF u
<1>4. u \in FreshHosts
  BY <1>1, <1>2, <1>3 DEF FreshHosts
<1> QED BY <1>4 DEF u

LEMMA FrontFresh ==
    ASSUME NEW t \in FreshHosts, t # <<>>
    PROVE  Front(t) \in FreshHosts
<1>1. t \in Seq(FreshEntries) /\ \A j, k \in DOMAIN t : t[j].name = t[k].name => j = k
  BY DEF FreshHosts
<1>2. /\ SubSeq(t, 1, Len(t) - 1) \in Seq(FreshEntries)
      /\ DOMAIN SubSeq(t, 1, Len(t) - 1) \subseteq DOMAIN t
      /\ \A j \in DOMAIN SubSeq(t, 1, Len(t) - 1) : SubSeq(t, 1, Len(t) - 1)[j] = t[j]
  BY <1>1
<1>3. Front(t) = SubSeq(t, 1, Len(t) - 1)
  BY DEF Front
<1> DEFINE u == Front(t)
<1>4. /\ u \in Seq(FreshEntries) /\ DOMAIN u \subseteq DOMAIN t
      /\ \A j \in DOMAIN u : u[j] = t[j]
  BY <1>2, <1>3
<1> HIDE DEF u
<1>5. u \in FreshHosts
  BY <1>1, <1>4 DEF FreshHosts
<1> QED BY <1>5 DEF u

LEMMA InitFresh ==
    ASSUME NEW t \in FreshHosts, NEW n \in HostNames, NEW u, u = inithost(t, n)
    PROVE  u \in FreshHosts /\ Find(u, n) \in DOMAIN u /\ u[Find(u, n)].name = n /\ u # <<>>
<1>1. t \in Seq(FreshEntries) /\ \A j, k \in DOMAIN t : t[j].name = t[k].name => j = k
  BY DEF FreshHosts
<1>2. u \in FreshHosts /\ \E i \in DOMAIN u : u[i].name = n
  <2>1. CASE Find(t, n) # 0
    BY <2>1, FindFresh DEF inithost
  <2>2. CASE Find(t, n) = 0
    <3> DEFINE e == Entry(n)
    <3>1. e \in FreshEntries /\ e.name = n
      BY EntryFresh
    <3> HIDE DEF e
    <3>2. u = Append(t, e)
      BY <2>2 DEF inithost, e
    <3>3. \A i \in DOMAIN t : t[i].name # n
      BY <2>2, FindFresh
    <3>4. /\ u \in Seq(FreshEntries) /\ Len(u) = Len(t) + 1 /\ Len(t) \in Nat
          /\ DOMAIN u = 1..(Len(t) + 1) /\ DOMAIN t = 1..Len(t)
          /\ \A i \in DOMAIN t : u[i] = t[i]
          /\ u[Len(t) + 1] = e
      BY <1>1, <3>1, <3>2
    <3>5. ASSUME NEW i \in DOMAIN u, NEW j \in DOMAIN u, u[i].name = u[j].name PROVE i = j
      BY <1>1, <3>1, <3>3, <3>4, <3>5
    <3>6. u \in FreshHosts
      BY <3>4, <3>5 DEF FreshHosts
    <3> QED BY <3>1, <3>4, <3>6
  <2> QED BY <2>1, <2>2
<1>3. Find(u, n) # 0 /\ Find(u, n) \in DOMAIN u /\ u[Find(u, n)].name = n
  BY <1>2, FindFresh
<1> QED BY <1>2, <1>3

LEMMA SystemFresh ==
    ASSUME NEW t \in FreshHosts, NEW n \in HostNames
    PROVE  LoadSystem(t, n) \in FreshHosts
<1> DEFINE u == inithost(t, n)
           i == Find(u, n)
           e == [u[i] EXCEPT !.status = "nocall"]
<1>1. u \in FreshHosts /\ i \in DOMAIN u
  BY InitFresh
<1>2. u[i] \in FreshEntries
  BY <1>1 DEF FreshHosts
<1>3. e \in FreshEntries /\ e.name = u[i].name
  BY <1>2, StatusFresh
<1>4. [u EXCEPT ![i].status = "nocall"] = [u EXCEPT ![i] = e]
  OBVIOUS
<1>5. LoadSystem(t, n) = IF u[i].status = "phantom" THEN [u EXCEPT ![i].status = "nocall"] ELSE u
  BY DEF LoadSystem
<1> HIDE DEF u, i, e
<1>6. [u EXCEPT ![i] = e] \in FreshHosts
  BY <1>1, <1>3, WriteFresh
<1> QED BY <1>1, <1>4, <1>5, <1>6

LEMMA NotedFresh ==
    ASSUME NEW e \in FreshEntries, NEW l \in PathLines
    PROVE  LineNoted(e, l) \in FreshEntries /\ LineNoted(e, l).name = e.name
<1>1. l.kind # "bare" => l.to \in HostNames
  BY DEF PathLines
<1>2. CASE l.kind = "alias" /\ e.realname = Null
  BY <1>1, <1>2, SetFresh DEF LineNoted
<1>3. CASE l.kind = "route" /\ e.via = Null
  BY <1>1, <1>3, SetFresh DEF LineNoted
<1>4. CASE l.kind = "gateway" /\ e.via = Null
  <2> DEFINE v == l.to
             a == [e EXCEPT !.via = v]
             b == [a EXCEPT !.status = "gatewayed"]
  <2>1. a \in FreshEntries /\ a.name = e.name
    BY <1>1, <1>4, SetFresh
  <2>2. b \in FreshEntries /\ b.name = a.name
    BY <2>1, StatusFresh
  <2>3. LineNoted(e, l) = [e EXCEPT !.via = v, !.status = "gatewayed"]
    BY <1>4 DEF LineNoted
  <2>4. [e EXCEPT !.via = v, !.status = "gatewayed"] = b
    BY Zenon
  <2> QED BY <2>1, <2>2, <2>3, <2>4
<1>5. CASE ~(l.kind = "alias" /\ e.realname = Null) /\ ~(l.kind = "route" /\ e.via = Null)
           /\ ~(l.kind = "gateway" /\ e.via = Null)
  <2>1. LineNoted(e, l) = e
    BY <1>5 DEF LineNoted
  <2> QED BY <2>1
<1> QED BY <1>2, <1>3, <1>4, <1>5

LEMMA PathFresh ==
    ASSUME NEW t \in FreshHosts, NEW l \in PathLines
    PROVE  LoadPath(t, l) \in FreshHosts
<1> DEFINE u == inithost(t, l.host)
           i == Find(u, l.host)
           e == LineNoted(u[i], l)
           w == [u EXCEPT ![i] = e]
<1>0. l.host \in HostNames
  BY DEF PathLines
<1>1. u \in FreshHosts /\ i \in DOMAIN u /\ u # <<>>
  BY <1>0, InitFresh
<1>2. u[i] \in FreshEntries
  BY <1>1 DEF FreshHosts
<1>3. e \in FreshEntries /\ e.name = u[i].name
  BY <1>2, NotedFresh
<1>5. LoadPath(t, l) \in {w, Front(w)}
  BY DEF LoadPath
<1> HIDE DEF u, i, e
<1>6. w \in FreshHosts
  BY <1>1, <1>3, WriteFresh
<1>7. w # <<>>
  <2>1. DOMAIN w = DOMAIN u
    OBVIOUS
  <2> QED BY <1>1, <2>1
<1> HIDE DEF w
<1>8. Front(w) \in FreshHosts
  BY <1>6, <1>7, FrontFresh
<1> QED BY <1>5, <1>6, <1>8

LEMMA OwnFresh == OwnEntries \in FreshHosts
<1>0. E_nodename \in HostNames /\ E_domain \in HostNames
  BY RoutingAssumption
<1> DEFINE a == OwnHost
           b == [a EXCEPT !.via = E_nodename]
           c == [Entry(E_domain) EXCEPT !.via = E_nodename]
           d == [c EXCEPT !.realname = E_nodename]
<1>1. a \in FreshEntries /\ a.name = E_nodename
  <2> DEFINE R == [name : HostNames, status : States, realname : HostNames \cup {Null},
                   via : HostNames \cup {Null}, aliased : {FALSE}, routed : {FALSE}]
             x == Entry(E_nodename)
             y == [x EXCEPT !.status = "localhost"]
  <2>1. a = [y EXCEPT !.realname = E_nodename]
    BY Zenon DEF OwnHost
  <2>2. x \in R /\ x.name = E_nodename
    BY <1>0, EntryFresh DEF FreshEntries
  <2> HIDE DEF x
  <2>3. y \in R /\ y.name = E_nodename
    BY <2>2 DEF States
  <2> HIDE DEF y, a
  <2>4. a \in R /\ a.name = E_nodename
    BY <1>0, <2>1, <2>3
  <2> QED BY <2>4 DEF FreshEntries
<1>2. b \in FreshEntries /\ b.name = E_nodename
  <2> HIDE DEF a
  <2> QED BY <1>0, <1>1, SetFresh
<1>3. c \in FreshEntries /\ c.name = E_domain
  BY <1>0, EntryFresh, SetFresh
<1>4. d \in FreshEntries /\ d.name = E_domain
  <2> HIDE DEF c
  <2> QED BY <1>0, <1>3, SetFresh
<1>5. [Entry(E_domain) EXCEPT !.via = E_nodename, !.realname = E_nodename] = d
  BY Zenon
<1>6. OwnEntries = IF E_domain = E_nodename THEN <<b>> ELSE <<a, d>>
  BY <1>5 DEF OwnEntries
<1> HIDE DEF a, b, c, d
<1>7. CASE E_domain = E_nodename
  <2>1. <<b>> \in Seq(FreshEntries) /\ DOMAIN <<b>> = {1}
    BY <1>2
  <2> QED BY <1>6, <1>7, <2>1 DEF FreshHosts
<1>8. CASE E_domain # E_nodename
  <2>1. /\ <<a, d>> \in Seq(FreshEntries) /\ DOMAIN <<a, d>> = {1, 2}
        /\ <<a, d>>[1].name # <<a, d>>[2].name
    BY <1>1, <1>4, <1>8
  <2> QED BY <1>6, <1>8, <2>1 DEF FreshHosts
<1> QED BY <1>7, <1>8

\* The functions that read the two files give such tables.
SystemsFcns == [Seq(HostNames) -> FreshHosts]
SystemsBody(f) == [s \in Seq(HostNames) |->
    IF s = <<>> THEN OwnEntries ELSE LoadSystem(f[Front(s)], Last(s))]

LEMMA FrontIs ==
    ASSUME NEW C, NEW s \in Seq(C), s # <<>>
    PROVE  /\ Front(s) \in Seq(C) /\ Last(s) \in C
           /\ Len(Front(s)) < Len(s) /\ Len(s) \in Nat /\ Len(Front(s)) \in Nat
BY DEF Front, Last

LEMMA FromSystemsIs == FromSystems \in SystemsFcns
<1> DEFINE S == Seq(HostNames)
           K == SystemsFcns
           G == [f \in K \cup {FromSystems} |-> SystemsBody(f)]
           left == [s \in S |-> Len(s)]
<1>1. K # {}
  <2>1. [s \in S |-> OwnEntries] \in K
    BY OwnFresh DEF SystemsFcns
  <2> QED BY <2>1
<1>2. \A f \in K : f = [s \in S |-> f[s]]
  BY DEF SystemsFcns
<1>3. \A f \in K : G[f] \in K
  <2> SUFFICES ASSUME NEW f \in K PROVE SystemsBody(f) \in K
    OBVIOUS
  <2>1. ASSUME NEW s \in S PROVE SystemsBody(f)[s] \in FreshHosts
    <3>1. CASE s = <<>>
      <4>1. SystemsBody(f)[s] = OwnEntries
        BY <3>1 DEF SystemsBody
      <4> QED BY <4>1, OwnFresh
    <3>2. CASE s # <<>>
      <4>1. SystemsBody(f)[s] = LoadSystem(f[Front(s)], Last(s))
        BY <3>2 DEF SystemsBody
      <4>2. Front(s) \in S /\ Last(s) \in HostNames
        BY <3>2, FrontIs
      <4>3. f[Front(s)] \in FreshHosts
        BY <4>2 DEF SystemsFcns
      <4> QED BY <4>1, <4>2, <4>3, SystemFresh
    <3> QED BY <3>1, <3>2
  <2> QED BY <2>1 DEF SystemsFcns, SystemsBody
<1>4. \A h \in [S -> K] : [s \in S |-> h[s][s]] \in K
  BY DEF SystemsFcns
<1>5. ASSUME NEW f \in K, NEW e \in K \cup {FromSystems}, NEW s \in S,
             \A y \in S : left[y] < left[s] => e[y] = f[y]
      PROVE  G[e][s] = G[f][s]
  <2>1. CASE s = <<>>
    BY <2>1 DEF SystemsBody
  <2>2. CASE s # <<>>
    <3>1. Front(s) \in S /\ Len(Front(s)) < Len(s)
      BY <2>2, FrontIs
    <3>2. e[Front(s)] = f[Front(s)]
      BY <1>5, <3>1
    <3>3. SystemsBody(e)[s] = LoadSystem(e[Front(s)], Last(s))
      BY <2>2 DEF SystemsBody
    <3>4. SystemsBody(f)[s] = LoadSystem(f[Front(s)], Last(s))
      BY <2>2 DEF SystemsBody
    <3> QED BY <3>2, <3>3, <3>4
  <2> QED BY <2>1, <2>2
<1>6. FromSystems = CHOOSE g : g = SystemsBody(g)
  BY DEF FromSystems, SystemsBody
<1>a. left \in [S -> Nat]
  OBVIOUS
<1>7. Solved(S, K, G, FromSystems)
  <2> HIDE DEF G, S, K, left
  <2>1. Recursive(S, K, left, G, FromSystems)
    BY <1>1, <1>2, <1>3, <1>4, <1>5, <1>a, Zenon DEF Recursive
  <2> QED BY <2>1, Solution
<1>8. PICK f \in K : f = G[f]
  BY <1>7 DEF Solved
<1>9. f = SystemsBody(f)
  BY <1>8
<1>10. FromSystems = SystemsBody(FromSystems)
  BY <1>6, <1>9, Zenon
<1>11. FromSystems = [s \in S |-> FromSystems[s]] /\ FromSystems = G[FromSystems]
  BY <1>10 DEF SystemsBody
<1> QED BY <1>7, <1>11 DEF Solved

PathsArgs == Seq(HostNames) \X Seq(PathLines)
PathsFcns == [PathsArgs -> FreshHosts]
PathsBody(f) == [q \in PathsArgs |->
    IF q[2] = <<>> THEN FromSystems[q[1]] ELSE LoadPath(f[<<q[1], Front(q[2])>>], Last(q[2]))]

LEMMA FromPathsIs == FromPaths \in PathsFcns
<1> DEFINE S == PathsArgs
           K == PathsFcns
           G == [f \in K \cup {FromPaths} |-> PathsBody(f)]
           left == [q \in S |-> Len(q[2])]
<1>0. ASSUME NEW q \in S
      PROVE  /\ q[1] \in Seq(HostNames) /\ q[2] \in Seq(PathLines)
             /\ FromSystems[q[1]] \in FreshHosts
             /\ q[2] # <<>> => /\ <<q[1], Front(q[2])>> \in S /\ Last(q[2]) \in PathLines
                               /\ Len(Front(q[2])) < Len(q[2])
  <2>1. q[1] \in Seq(HostNames) /\ q[2] \in Seq(PathLines)
    BY DEF PathsArgs
  <2>2. FromSystems[q[1]] \in FreshHosts
    BY <2>1, FromSystemsIs DEF SystemsFcns
  <2>3. q[2] # <<>> => /\ Front(q[2]) \in Seq(PathLines) /\ Last(q[2]) \in PathLines
                       /\ Len(Front(q[2])) < Len(q[2])
    BY <2>1, FrontIs
  <2> QED BY <2>1, <2>2, <2>3 DEF PathsArgs
<1>1. K # {}
  <2>1. [q \in S |-> OwnEntries] \in K
    BY OwnFresh DEF PathsFcns
  <2> QED BY <2>1
<1>2. \A f \in K : f = [q \in S |-> f[q]]
  BY DEF PathsFcns
<1>3. \A f \in K : G[f] \in K
  <2> SUFFICES ASSUME NEW f \in K PROVE PathsBody(f) \in K
    OBVIOUS
  <2>1. ASSUME NEW q \in S PROVE PathsBody(f)[q] \in FreshHosts
    <3>1. CASE q[2] = <<>>
      <4>1. PathsBody(f)[q] = FromSystems[q[1]]
        BY <3>1 DEF PathsBody
      <4> QED BY <1>0, <4>1
    <3>2. CASE q[2] # <<>>
      <4> DEFINE c == <<q[1], Front(q[2])>>
      <4>1. PathsBody(f)[q] = LoadPath(f[c], Last(q[2]))
        BY <3>2 DEF PathsBody
      <4>2. c \in S /\ Last(q[2]) \in PathLines
        BY <1>0, <3>2
      <4>3. f[c] \in FreshHosts
        BY <4>2 DEF PathsFcns
      <4> HIDE DEF c
      <4> QED BY <4>1, <4>2, <4>3, PathFresh
    <3> QED BY <3>1, <3>2
  <2> QED BY <2>1 DEF PathsFcns, PathsBody
<1>4. \A h \in [S -> K] : [q \in S |-> h[q][q]] \in K
  BY DEF PathsFcns
<1>5. ASSUME NEW f \in K, NEW e \in K \cup {FromPaths}, NEW q \in S,
             \A y \in S : left[y] < left[q] => e[y] = f[y]
      PROVE  G[e][q] = G[f][q]
  <2>1. CASE q[2] = <<>>
    BY <2>1 DEF PathsBody
  <2>2. CASE q[2] # <<>>
    <3> DEFINE c == <<q[1], Front(q[2])>>
    <3>1. c \in S /\ c[2] = Front(q[2]) /\ Len(Front(q[2])) < Len(q[2])
      BY <1>0, <2>2
    <3>2. e[c] = f[c]
      BY <1>5, <3>1
    <3>3. PathsBody(e)[q] = LoadPath(e[c], Last(q[2]))
      BY <2>2 DEF PathsBody
    <3>4. PathsBody(f)[q] = LoadPath(f[c], Last(q[2]))
      BY <2>2 DEF PathsBody
    <3> QED BY <3>2, <3>3, <3>4
  <2> QED BY <2>1, <2>2
<1>6. FromPaths = CHOOSE g : g = PathsBody(g)
  BY DEF FromPaths, PathsBody, PathsArgs
<1>a. left \in [S -> Nat]
  BY <1>0
<1>7. Solved(S, K, G, FromPaths)
  <2> HIDE DEF G, S, K, left
  <2>1. Recursive(S, K, left, G, FromPaths)
    BY <1>1, <1>2, <1>3, <1>4, <1>5, <1>a, Zenon DEF Recursive
  <2> QED BY <2>1, Solution
<1>8. PICK f \in K : f = G[f]
  BY <1>7 DEF Solved
<1>9. f = PathsBody(f)
  BY <1>8
<1>10. FromPaths = PathsBody(FromPaths)
  BY <1>6, <1>9, Zenon
<1>11. FromPaths = [q \in S |-> FromPaths[q]] /\ FromPaths = G[FromPaths]
  BY <1>10 DEF PathsBody
<1> QED BY <1>7, <1>11 DEF Solved

\* A table that is fresh.
FreshTable(f) == f.hosts \in FreshHosts /\ f.last = Null /\ f \in Tables

LEMMA LoadedFresh ==
    ASSUME NEW systems \in Seq(HostNames), NEW paths \in Seq(PathLines)
    PROVE  FreshTable(loadhost(systems, paths))
<1> DEFINE h == FromPaths[<<systems, paths>>]
<1>1. <<systems, paths>> \in PathsArgs
  BY DEF PathsArgs
<1>2. h \in FreshHosts
  BY <1>1, FromPathsIs DEF PathsFcns
<1>3. h \in Seq(Entries)
  <2>1. h \in Seq(FreshEntries)
    BY <1>2 DEF FreshHosts
  <2> HIDE DEF h
  <2> QED BY <2>1, FreshIsEntry
<1>4. loadhost(systems, paths) = [hosts |-> h, last |-> Null]
  BY DEF loadhost
<1> HIDE DEF h
<1> QED BY <1>2, <1>3, <1>4 DEF FreshTable, Tables, Lasts

-----------------------------------------------------------------------------
(***************************************************************************)
(* The names that HostAlias gives do not depend on the questions before.   *)
(* The real name of an entry is that of the entry where its aliases end;   *)
(* an entry that has been looked up has it, any other is as it was loaded. *)
(***************************************************************************)
FindOwnFresh(fresh) == \A i \in DOMAIN fresh.hosts : checkname(fresh.hosts, fresh.hosts[i].name) = i

AliasFrom(fresh) == [i \in DOMAIN fresh.hosts |-> AliasOf(fresh.hosts, i)]

NextName(t, i) == IF AliasOf(t, i) # 0 /\ ~NoName(t[AliasOf(t, i)]) THEN AliasOf(t, i) ELSE 0
RealOn(fresh) == [i \in DOMAIN fresh.hosts |-> NextName(fresh.hosts, i)]

NameAt(e) == IF e.realname = Null THEN e.name ELSE e.realname
RealName(fresh, i) == NameAt(fresh.hosts[EndOf(RealOn(fresh), i)])

NameAs(fresh, tab, j) ==
    /\ tab.hosts[j].aliased => ~NoName(fresh.hosts[j]) /\ tab.hosts[j].realname = RealName(fresh, j)
    /\ ~tab.hosts[j].aliased => tab.hosts[j].realname = fresh.hosts[j].realname

NamesOf(fresh, tab, S) == \A j \in S : NameAs(fresh, tab, j)

Like(fresh, tab) ==
    /\ SameHosts(fresh.hosts, tab.hosts)
    /\ \A j \in DOMAIN fresh.hosts : NoName(tab.hosts[j]) <=> NoName(fresh.hosts[j])

Kept(tab, new, S) == \A j \in DOMAIN tab.hosts : j \notin S => new.hosts[j] = tab.hosts[j]

LEMMA FreshTableIs ==
    ASSUME NEW fresh, FreshTable(fresh)
    PROVE  /\ fresh \in Tables /\ fresh.last = Null
           /\ \A i \in DOMAIN fresh.hosts :
                 /\ fresh.hosts[i] \in FreshEntries
                 /\ ~fresh.hosts[i].aliased /\ ~fresh.hosts[i].routed
                 /\ fresh.hosts[i].name \in HostNames
                 /\ fresh.hosts[i].realname \in HostNames \cup {Null}
                 /\ fresh.hosts[i].via \in HostNames \cup {Null}
                 /\ fresh.hosts[i].status \in States
                 /\ fresh.hosts[i].status = "localhost" => fresh.hosts[i].name = E_nodename
           /\ 0 \notin DOMAIN fresh.hosts
           /\ HostNames \subseteq Hosts /\ Null \notin HostNames
<1>1. fresh \in Tables /\ fresh.last = Null /\ fresh.hosts \in Seq(FreshEntries)
  BY DEF FreshTable, FreshHosts
<1>2. ASSUME NEW i \in DOMAIN fresh.hosts PROVE fresh.hosts[i] \in FreshEntries
  BY <1>1
<1>3. ASSUME NEW i \in DOMAIN fresh.hosts
      PROVE  /\ ~fresh.hosts[i].aliased /\ ~fresh.hosts[i].routed
             /\ fresh.hosts[i].name \in HostNames
             /\ fresh.hosts[i].realname \in HostNames \cup {Null}
             /\ fresh.hosts[i].via \in HostNames \cup {Null}
             /\ fresh.hosts[i].status \in States
             /\ fresh.hosts[i].status = "localhost" => fresh.hosts[i].name = E_nodename
  BY <1>2 DEF FreshEntries
<1>4. 0 \notin DOMAIN fresh.hosts
  BY <1>1
<1>5. HostNames \subseteq Hosts /\ Null \notin HostNames
  BY RoutingAssumption DEF HostNames
<1> QED BY <1>1, <1>2, <1>3, <1>4, <1>5

LEMMA FindsOwn == ASSUME NEW fresh, FreshTable(fresh) PROVE FindOwnFresh(fresh)
<1> SUFFICES ASSUME NEW i \in DOMAIN fresh.hosts
             PROVE  checkname(fresh.hosts, fresh.hosts[i].name) = i
  BY DEF FindOwnFresh
<1> DEFINE n == fresh.hosts[i].name
<1>1. fresh \in Tables /\ n \in Hosts /\ fresh.hosts \in FreshHosts
  BY FreshTableIs DEF FreshTable
<1>2. /\ Find(fresh.hosts, n) # 0 => /\ Find(fresh.hosts, n) \in DOMAIN fresh.hosts
                                     /\ fresh.hosts[Find(fresh.hosts, n)].name = n
      /\ Find(fresh.hosts, n) = 0 => \A j \in DOMAIN fresh.hosts : fresh.hosts[j].name # n
  <2> HIDE DEF n
  <2> QED BY <1>1, FindFresh
<1>3. Find(fresh.hosts, n) # 0
  BY <1>2
<1>4. Find(fresh.hosts, n) = i
  BY <1>1, <1>2, <1>3 DEF FreshHosts
<1> HIDE DEF n
<1>5. checkname(fresh.hosts, n) = Find(fresh.hosts, n)
  BY <1>1, <1>3, CheckOwn
<1> QED BY <1>4, <1>5 DEF n

LEMMA RealOnIs ==
    ASSUME NEW fresh, FreshTable(fresh), NoCircle(AliasFrom(fresh))
    PROVE  /\ NoCircle(RealOn(fresh)) /\ DOMAIN RealOn(fresh) = DOMAIN fresh.hosts
           /\ \A i \in DOMAIN fresh.hosts : RealOn(fresh)[i] = NextName(fresh.hosts, i)
<1>1. DOMAIN RealOn(fresh) = DOMAIN fresh.hosts /\ DOMAIN AliasFrom(fresh) = DOMAIN fresh.hosts
  BY DEF RealOn, AliasFrom
<1>2. \A i \in DOMAIN fresh.hosts : RealOn(fresh)[i] \in {AliasFrom(fresh)[i], 0}
  BY DEF RealOn, AliasFrom, NextName
<1>3. 0 \notin DOMAIN fresh.hosts
  BY FreshTableIs
<1>4. ASSUME NEW S \in SUBSET DOMAIN RealOn(fresh), S # {}
      PROVE  \E i \in S : RealOn(fresh)[i] \notin S
  <2>1. PICK i \in S : AliasFrom(fresh)[i] \notin S
    BY <1>1, <1>4 DEF NoCircle
  <2> QED BY <1>1, <1>2, <1>3, <2>1
<1>5. NoCircle(RealOn(fresh))
  BY <1>4 DEF NoCircle
<1>6. \A i \in DOMAIN fresh.hosts : RealOn(fresh)[i] = NextName(fresh.hosts, i)
  BY DEF RealOn
<1> QED BY <1>1, <1>5, <1>6

LEMMA RealNameIs ==
    ASSUME NEW fresh, FreshTable(fresh), NoCircle(AliasFrom(fresh)), NEW i \in DOMAIN fresh.hosts
    PROVE  /\ RealName(fresh, i) \in HostNames
           /\ RealOn(fresh)[i] \in DOMAIN fresh.hosts =>
                 RealName(fresh, i) = RealName(fresh, RealOn(fresh)[i])
           /\ RealOn(fresh)[i] \notin DOMAIN fresh.hosts => RealName(fresh, i) = NameAt(fresh.hosts[i])
<1> DEFINE R == RealOn(fresh)
           k == EndOf(R, i)
<1>1. NoCircle(R) /\ DOMAIN R = DOMAIN fresh.hosts
  BY RealOnIs
<1> HIDE DEF R
<1>2. /\ k \in Reach(R, i)
      /\ R[i] \in DOMAIN R => k = EndOf(R, R[i])
      /\ R[i] \notin DOMAIN R => k = i
  BY <1>1, EndIs
<1>3. k \in DOMAIN fresh.hosts
  BY <1>1, <1>2, ReachIs
<1>4. fresh.hosts[k].name \in HostNames /\ fresh.hosts[k].realname \in HostNames \cup {Null}
  <2> HIDE DEF k
  <2> QED BY <1>3, FreshTableIs
<1>5. NameAt(fresh.hosts[k]) \in HostNames
  BY <1>4 DEF NameAt
<1>6. RealName(fresh, i) = NameAt(fresh.hosts[k])
  BY DEF RealName, R
<1>7. R[i] \in DOMAIN R => RealName(fresh, i) = RealName(fresh, R[i])
  BY <1>2 DEF RealName, R
<1> QED BY <1>1, <1>2, <1>5, <1>6, <1>7 DEF R

LEMMA NameSame ==
    ASSUME NEW fresh, NEW tab, NEW new, NEW j, NameAs(fresh, tab, j), new.hosts[j] = tab.hosts[j]
    PROVE  NameAs(fresh, new, j)
BY DEF NameAs

LEMMA NamesLike ==
    ASSUME NEW fresh, FreshTable(fresh), NoCircle(AliasFrom(fresh)), NEW tab,
           SameHosts(fresh.hosts, tab.hosts), NEW j \in DOMAIN fresh.hosts, NameAs(fresh, tab, j)
    PROVE  NoName(tab.hosts[j]) <=> NoName(fresh.hosts[j])
<1>1. RealName(fresh, j) # Null
  BY RealNameIs, FreshTableIs
<1>2. tab.hosts[j].status = fresh.hosts[j].status
  BY DEF SameHosts
<1>3. CASE tab.hosts[j].aliased
  <2>1. ~NoName(fresh.hosts[j]) /\ tab.hosts[j].realname # Null
    BY <1>1, <1>3 DEF NameAs
  <2> QED BY <2>1 DEF NoName
<1>4. CASE ~tab.hosts[j].aliased
  <2>1. tab.hosts[j].realname = fresh.hosts[j].realname
    BY <1>4 DEF NameAs
  <2> QED BY <1>2, <2>1 DEF NoName
<1> QED BY <1>3, <1>4

\* HostAlias does right by the names that entry i speaks for.
NameTold(fresh, tab, i, r) ==
    /\ r.to = RealName(fresh, i)
    /\ NamesOf(fresh, r.rt, Reach(RealOn(fresh), i))
    /\ Kept(tab, r.rt, Reach(RealOn(fresh), i))

NameTells(fresh, i) ==
    \A tab \in Tables : \A n \in Hosts :
        /\ Like(fresh, tab) /\ checkname(fresh.hosts, n) = i
        /\ NamesOf(fresh, tab, Reach(RealOn(fresh), i))
        => NameTold(fresh, tab, i, HostAlias[<<tab, n>>])

\* The question for the name in entry i, which has been marked: to the entries
\* ahead.
NameAhead(fresh, tab, i, s) ==
    LET B == Reach(RealOn(fresh), i) \ {i}
    IN  s.to = RealName(fresh, i) /\ NamesOf(fresh, s.rt, B) /\ Kept(tab, s.rt, B)

LEMMA AskAhead ==
    ASSUME NEW fresh, FreshTable(fresh), NoCircle(AliasFrom(fresh)),
           NEW i \in DOMAIN fresh.hosts, ~NoName(fresh.hosts[i]),
           RealOn(fresh)[i] \in DOMAIN fresh.hosts => NameTells(fresh, RealOn(fresh)[i]),
           NEW tab \in Tables, Like(fresh, tab), tab.hosts[i].aliased,
           NamesOf(fresh, tab, Reach(RealOn(fresh), i) \ {i}),
           NEW x \in Hosts, fresh.hosts[i].realname = x, tab.hosts[i].realname = x
    PROVE  NameAhead(fresh, tab, i, HostAlias[<<tab, x>>])
<1> DEFINE R == RealOn(fresh)
           k == checkname(fresh.hosts, x)
           s == HostAlias[<<tab, x>>]
           e == tab.hosts[k]
           h == fresh.hosts
<1>1. /\ DOMAIN R = DOMAIN h /\ NoCircle(R) /\ R[i] = NextName(h, i)
      /\ 0 \notin DOMAIN h
  BY RealOnIs, FreshTableIs
<1>2. SameHosts(h, tab.hosts) /\ \A j \in DOMAIN h : NoName(tab.hosts[j]) <=> NoName(h[j])
  BY DEF Like
<1>3. checkname(tab.hosts, x) = k
  BY <1>2, CheckSame
<1>4. k = 0 \/ k \in DOMAIN h
  BY FreshTableIs, CheckIs
<1>5. s = AliasTurn(HostAlias, tab, x, k)
  BY <1>3, AliasOfIs
<1>6. /\ R[i] \in DOMAIN h => RealName(fresh, i) = RealName(fresh, R[i])
      /\ R[i] \notin DOMAIN h => RealName(fresh, i) = NameAt(h[i])
  BY RealNameIs
<1>7. x # Null
  BY WordsAre
<1>8. NameAt(h[i]) = x
  BY <1>7 DEF NameAt
<1>9. checkname(h, h[i].name) = i
  BY FindsOwn DEF FindOwnFresh
<1>10. AliasOf(h, i) = IF x = h[i].name THEN 0 ELSE k
  BY <1>7 DEF AliasOf
<1>11. ASSUME R[i] = 0, s.rt = tab, s.to = x PROVE NameAhead(fresh, tab, i, s)
  <2>1. Reach(R, i) = {i}
    BY <1>1, <1>11, ReachLast
  <2>2. RealName(fresh, i) = x
    BY <1>1, <1>6, <1>8, <1>11
  <2> HIDE DEF s
  <2> QED BY <1>11, <2>1, <2>2 DEF NameAhead, NamesOf, Kept, R
<1> HIDE DEF R, k, s
<1>12. CASE x = h[i].name
  <2>1. k = i /\ R[i] = 0
    BY <1>1, <1>9, <1>10, <1>12 DEF NextName, k
  <2>2. s = Answer(tab, x)
    BY <1>1, <1>2, <1>5, <2>1 DEF AliasTurn
  <2> QED BY <1>11, <2>1, <2>2, AnswerIs DEF s
<1>13. CASE x # h[i].name /\ (k = 0 \/ NoName(h[k]))
  <2>1. R[i] = 0
    BY <1>1, <1>10, <1>13 DEF NextName
  <2>2. s = Answer(tab, x)
    BY <1>2, <1>4, <1>5, <1>13 DEF AliasTurn
  <2> QED BY <1>11, <2>1, <2>2, AnswerIs DEF s
<1>14. CASE x # h[i].name /\ k # 0 /\ ~NoName(h[k])
  <2>1. R[i] = k /\ k \in DOMAIN h
    BY <1>1, <1>4, <1>10, <1>14 DEF NextName
  <2>2. i \notin Reach(R, k) /\ Reach(R, i) = {i} \cup Reach(R, k)
    BY <1>1, <2>1, ReachStep
  <2>3. Reach(R, i) \ {i} = Reach(R, k)
    BY <2>2
  <2>4. NamesOf(fresh, tab, Reach(R, k))
    BY <2>3 DEF R
  <2>5. NameTells(fresh, k)
    BY <2>1 DEF R
  <2>6. NameTold(fresh, tab, k, s)
    BY <2>4, <2>5 DEF NameTells, R, s, k
  <2>7. RealName(fresh, i) = RealName(fresh, k)
    BY <1>6, <2>1
  <2> QED BY <2>3, <2>6, <2>7 DEF NameTold, NameAhead, R, s
<1> QED BY <1>12, <1>13, <1>14 DEF s

LEMMA NameTellsStep ==
    ASSUME NEW fresh, FreshTable(fresh), NoCircle(AliasFrom(fresh)),
           NEW i \in DOMAIN fresh.hosts, ~NoName(fresh.hosts[i]),
           RealOn(fresh)[i] \in DOMAIN fresh.hosts => NameTells(fresh, RealOn(fresh)[i])
    PROVE  NameTells(fresh, i)
<1> DEFINE A == Reach(RealOn(fresh), i)
           h == fresh.hosts
<1>0. /\ DOMAIN RealOn(fresh) = DOMAIN h /\ NoCircle(RealOn(fresh))
      /\ RealOn(fresh)[i] = NextName(h, i) /\ 0 \notin DOMAIN h
  BY RealOnIs, FreshTableIs
<1>1. i \in A /\ A \subseteq DOMAIN h
  BY <1>0, ReachIs
<1>2. SUFFICES ASSUME NEW tab \in Tables, NEW n \in Hosts, Like(fresh, tab),
                      checkname(h, n) = i, NamesOf(fresh, tab, A)
               PROVE  NameTold(fresh, tab, i, HostAlias[<<tab, n>>])
  BY DEF NameTells
<1> DEFINE r == HostAlias[<<tab, n>>]
           e == tab.hosts[i]
<1>3. SameHosts(h, tab.hosts) /\ ~NoName(e) /\ i \in DOMAIN tab.hosts /\ e \in Entries
      /\ e.name = h[i].name /\ DOMAIN tab.hosts = DOMAIN h
  <2>1. SameHosts(h, tab.hosts) /\ (NoName(e) <=> NoName(h[i]))
    BY <1>2 DEF Like
  <2>2. i \in DOMAIN tab.hosts /\ e.name = h[i].name /\ DOMAIN tab.hosts = DOMAIN h
    BY <2>1 DEF SameHosts
  <2>3. e \in Entries
    BY <2>2, TableIs
  <2> QED BY <2>1, <2>2, <2>3
<1>4. checkname(tab.hosts, n) = i /\ i # 0
  BY <1>0, <1>2, <1>3, CheckSame
<1>5. r = AliasTurn(HostAlias, tab, n, i)
  BY <1>4, AliasOfIs
<1>6. NameAs(fresh, tab, i)
  BY <1>1, <1>2 DEF NamesOf
<1>7. SUFFICES /\ r.to = RealName(fresh, i) /\ NamesOf(fresh, r.rt, A) /\ Kept(tab, r.rt, A)
  BY DEF NameTold
<1> HIDE DEF A, r
<1>8. CASE e.aliased
  <2>1. r = Answer(tab, e.realname)
    BY <1>3, <1>4, <1>5, <1>8 DEF AliasTurn
  <2>2. r.rt = tab /\ r.to = e.realname
    BY <2>1, AnswerIs
  <2> QED BY <1>2, <1>6, <1>8, <2>2 DEF NameAs, Kept
<1>9. CASE ~e.aliased /\ e.realname = Null
  <2>1. r = OwnName(tab, i, e)
    BY <1>3, <1>4, <1>5, <1>9 DEF AliasTurn
  <2>2. /\ r.to = e.name /\ r.rt.hosts[i].aliased /\ r.rt.hosts[i].realname = e.name
        /\ \A j \in DOMAIN tab.hosts : j # i => r.rt.hosts[j] = tab.hosts[j]
    BY <1>3, <2>1, OwnIs
  <2>3. h[i].realname = Null
    BY <1>6, <1>9 DEF NameAs
  <2>4. RealOn(fresh)[i] = 0
    BY <1>0, <2>3 DEF NextName, AliasOf
  <2>5. A = {i}
    BY <1>0, <2>4, ReachLast DEF A
  <2>6. RealName(fresh, i) = h[i].name
    BY <1>0, <2>3, <2>4, RealNameIs DEF NameAt
  <2>7. NameAs(fresh, r.rt, i)
    BY <1>3, <2>2, <2>6 DEF NameAs
  <2> QED BY <1>3, <2>2, <2>5, <2>6, <2>7 DEF NamesOf, Kept
<1>10. CASE ~e.aliased /\ e.realname # Null
  <2> DEFINE m == Aliased(tab, i)
             x == e.realname
             s == HostAlias[<<m, x>>]
  <2>1. /\ m \in Tables /\ x \in Hosts /\ Renamed(tab.hosts, m.hosts)
        /\ m.hosts[i].aliased /\ m.hosts[i].realname = x
        /\ \A j \in DOMAIN tab.hosts : j # i => m.hosts[j] = tab.hosts[j]
    BY <1>3, <1>10, AliasCall
  <2>2. r = NoteName(s, i)
    BY <1>3, <1>4, <1>5, <1>10 DEF AliasTurn
  <2> HIDE DEF m, s
  <2>3. SameHosts(h, m.hosts) /\ DOMAIN m.hosts = DOMAIN tab.hosts
    BY <1>3, <2>1 DEF Renamed, SameHosts
  <2>4. ~NoName(m.hosts[i])
    BY <1>10, <2>1 DEF NoName
  <2>5. \A j \in DOMAIN h : NoName(m.hosts[j]) <=> NoName(h[j])
    <3>1. \A j \in DOMAIN h : NoName(tab.hosts[j]) <=> NoName(h[j])
      BY <1>2 DEF Like
    <3>2. \A j \in DOMAIN h : j # i => m.hosts[j] = tab.hosts[j]
      BY <1>3, <2>1
    <3>3. ASSUME NEW j \in DOMAIN h PROVE NoName(m.hosts[j]) <=> NoName(h[j])
      <4>1. CASE j = i
        BY <1>2, <2>4, <4>1
      <4>2. CASE j # i
        BY <3>1, <3>2, <4>2
      <4> QED BY <4>1, <4>2
    <3> QED BY <3>3
  <2>6. Like(fresh, m)
    BY <2>3, <2>5 DEF Like
  <2>7. h[i].realname = x
    BY <1>6, <1>10 DEF NameAs
  <2>8. NamesOf(fresh, m, A \ {i})
    <3>1. ASSUME NEW j \in A \ {i} PROVE NameAs(fresh, m, j)
      <4>1. m.hosts[j] = tab.hosts[j] /\ NameAs(fresh, tab, j)
        BY <1>1, <1>2, <1>3, <2>1 DEF NamesOf
      <4> QED BY <4>1, NameSame
    <3> QED BY <3>1 DEF NamesOf
  <2> HIDE DEF x
  <2>9. NameAhead(fresh, m, i, s)
    BY <2>1, <2>6, <2>7, <2>8, AskAhead DEF s, A
  <2>10. /\ s.to = RealName(fresh, i) /\ NamesOf(fresh, s.rt, A \ {i}) /\ Kept(m, s.rt, A \ {i})
    BY <2>9 DEF NameAhead, A
  <2>11. s.rt \in Tables /\ s.to \in Hosts /\ Renamed(m.hosts, s.rt.hosts)
    BY <2>1, AliasOfIs DEF s
  <2>12. DOMAIN s.rt.hosts = DOMAIN tab.hosts
    BY <2>3, <2>11 DEF Renamed, SameHosts
  <2>13. s.rt.hosts[i] = m.hosts[i]
    BY <1>3, <2>3, <2>10 DEF Kept
  <2>14. /\ r.to = s.to /\ r.rt.hosts[i].aliased = s.rt.hosts[i].aliased
         /\ r.rt.hosts[i].realname = s.to
         /\ \A j \in DOMAIN tab.hosts : j # i => r.rt.hosts[j] = s.rt.hosts[j]
    BY <1>3, <2>2, <2>11, <2>12, NoteNameIs
  <2>15. NameAs(fresh, r.rt, i)
    BY <2>1, <2>10, <2>13, <2>14 DEF NameAs
  <2>16. ASSUME NEW j \in A, j # i PROVE NameAs(fresh, r.rt, j)
    <3>1. r.rt.hosts[j] = s.rt.hosts[j] /\ NameAs(fresh, s.rt, j)
      BY <1>1, <1>3, <2>10, <2>14, <2>16 DEF NamesOf
    <3> QED BY <3>1, NameSame
  <2>17. Kept(tab, r.rt, A)
    <3>1. ASSUME NEW j \in DOMAIN tab.hosts, j \notin A PROVE r.rt.hosts[j] = tab.hosts[j]
      <4>1. j # i
        BY <1>1, <3>1
      <4>2. s.rt.hosts[j] = m.hosts[j]
        BY <2>3, <2>10, <3>1 DEF Kept
      <4> QED BY <2>1, <2>14, <4>1, <4>2
    <3> QED BY <3>1 DEF Kept
  <2> QED BY <2>10, <2>14, <2>15, <2>16, <2>17 DEF NamesOf
<1> QED BY <1>8, <1>9, <1>10

LEMMA NamesTell ==
    ASSUME NEW fresh, FreshTable(fresh), NoCircle(AliasFrom(fresh)),
           NEW i \in DOMAIN fresh.hosts, ~NoName(fresh.hosts[i])
    PROVE  NameTells(fresh, i)
<1> DEFINE R == RealOn(fresh)
           P == {j \in DOMAIN fresh.hosts : ~NoName(fresh.hosts[j]) => NameTells(fresh, j)}
<1>1. /\ DOMAIN R = DOMAIN fresh.hosts /\ NoCircle(R) /\ 0 \notin DOMAIN fresh.hosts
      /\ \A j \in DOMAIN fresh.hosts : R[j] = NextName(fresh.hosts, j)
  BY RealOnIs, FreshTableIs
<1>2. ASSUME NEW j \in DOMAIN R, R[j] \in DOMAIN R => R[j] \in P PROVE j \in P
  <2>1. R[j] \in DOMAIN fresh.hosts => ~NoName(fresh.hosts[R[j]])
    BY <1>1 DEF NextName
  <2>2. R[j] \in DOMAIN fresh.hosts => NameTells(fresh, R[j])
    BY <1>1, <1>2, <2>1
  <2>3. ~NoName(fresh.hosts[j]) => NameTells(fresh, j)
    BY <1>1, <2>2, NameTellsStep
  <2> QED BY <1>1, <2>3
<1>3. \A j \in DOMAIN R : j \in P
  <2> HIDE DEF R, P
  <2> QED BY <1>1, <1>2, CircleInduction
<1> QED BY <1>1, <1>3

\* Every entry has its name right, and so has a table after any question.
NamesRight(fresh, tab) ==
    SameHosts(fresh.hosts, tab.hosts) /\ NamesOf(fresh, tab, DOMAIN fresh.hosts)

AliasAnswer(fresh, n) ==
    IF checkname(fresh.hosts, n) = 0 THEN n
    ELSE IF NoName(fresh.hosts[checkname(fresh.hosts, n)]) THEN n
    ELSE RealName(fresh, checkname(fresh.hosts, n))

LEMMA NamesStay ==
    ASSUME NEW fresh, FreshTable(fresh), NoCircle(AliasFrom(fresh)),
           NEW tab \in Tables, NEW n \in Hosts, NamesRight(fresh, tab),
           NEW r, r = HostAlias[<<tab, n>>]
    PROVE  /\ r.to = AliasAnswer(fresh, n) /\ NamesRight(fresh, r.rt)
           /\ r.rt \in Tables /\ r.rt.last = tab.last /\ Renamed(tab.hosts, r.rt.hosts)
<1> DEFINE h == fresh.hosts
           i == checkname(h, n)
<1>0. /\ r.rt \in Tables /\ r.rt.last = tab.last /\ Renamed(tab.hosts, r.rt.hosts)
      /\ r = AliasTurn(HostAlias, tab, n, checkname(tab.hosts, n))
  BY AliasOfIs
<1>1. SameHosts(h, tab.hosts) /\ NamesOf(fresh, tab, DOMAIN h) /\ DOMAIN tab.hosts = DOMAIN h
  BY DEF NamesRight, SameHosts
<1>2. checkname(tab.hosts, n) = i
  BY <1>1, CheckSame
<1>3. SameHosts(h, r.rt.hosts)
  BY <1>0, <1>1 DEF Renamed, SameHosts
<1>4. \A j \in DOMAIN h : NoName(tab.hosts[j]) <=> NoName(h[j])
  <2> SUFFICES ASSUME NEW j \in DOMAIN h PROVE NoName(tab.hosts[j]) <=> NoName(h[j])
    OBVIOUS
  <2>1. NameAs(fresh, tab, j)
    BY <1>1 DEF NamesOf
  <2> QED BY <1>1, <2>1, NamesLike
<1>5. i = 0 \/ i \in DOMAIN h
  BY FreshTableIs, CheckIs
<1> HIDE DEF i
<1>6. CASE i = 0 \/ (i # 0 /\ NoName(h[i]))
  <2>1. r = Answer(tab, n)
    BY <1>0, <1>2, <1>4, <1>5, <1>6 DEF AliasTurn
  <2>2. r.rt = tab /\ r.to = n
    BY <2>1, AnswerIs
  <2>3. AliasAnswer(fresh, n) = n
    BY <1>6 DEF AliasAnswer, i
  <2> QED BY <1>0, <2>2, <2>3
<1>7. CASE i # 0 /\ ~NoName(h[i])
  <2> DEFINE A == Reach(RealOn(fresh), i)
  <2>1. i \in DOMAIN h /\ DOMAIN RealOn(fresh) = DOMAIN h
    BY <1>5, <1>7, RealOnIs
  <2>2. A \subseteq DOMAIN h
    BY <2>1, ReachIs
  <2>3. Like(fresh, tab)
    BY <1>1, <1>4 DEF Like
  <2>4. NamesOf(fresh, tab, A)
    BY <1>1, <2>2 DEF NamesOf
  <2>5. NameTells(fresh, i)
    BY <1>7, <2>1, NamesTell
  <2>6. NameTold(fresh, tab, i, r)
    BY <2>3, <2>4, <2>5 DEF NameTells, i
  <2>7. r.to = RealName(fresh, i) /\ NamesOf(fresh, r.rt, A) /\ Kept(tab, r.rt, A)
    BY <2>6 DEF NameTold
  <2> HIDE DEF A
  <2>8. ASSUME NEW j \in DOMAIN h PROVE NameAs(fresh, r.rt, j)
    <3>1. CASE j \in A
      BY <2>7, <3>1 DEF NamesOf
    <3>2. CASE j \notin A
      <4>1. r.rt.hosts[j] = tab.hosts[j] /\ NameAs(fresh, tab, j)
        BY <1>1, <2>7, <3>2 DEF Kept, NamesOf
      <4> QED BY <4>1, NameSame
    <3> QED BY <3>1, <3>2
  <2>9. NamesRight(fresh, r.rt)
    BY <1>3, <2>8 DEF NamesRight, NamesOf
  <2>10. AliasAnswer(fresh, n) = RealName(fresh, i)
    BY <1>7 DEF AliasAnswer, i
  <2> QED BY <1>0, <2>7, <2>9, <2>10
<1> QED BY <1>6, <1>7

LEMMA FreshNames == ASSUME NEW fresh, FreshTable(fresh) PROVE NamesRight(fresh, fresh)
<1>1. ASSUME NEW j \in DOMAIN fresh.hosts PROVE NameAs(fresh, fresh, j)
  BY FreshTableIs DEF NameAs
<1> QED BY <1>1 DEF NamesRight, NamesOf, SameHosts

LEMMA AnswerHost ==
    ASSUME NEW fresh, FreshTable(fresh), NoCircle(AliasFrom(fresh)), NEW n \in HostNames
    PROVE  AliasAnswer(fresh, n) \in HostNames
<1> DEFINE i == checkname(fresh.hosts, n)
<1>1. i = 0 \/ i \in DOMAIN fresh.hosts
  BY FreshTableIs, CheckIs
<1>2. i # 0 => RealName(fresh, i) \in HostNames
  <2> HIDE DEF i
  <2> QED BY <1>1, RealNameIs
<1> QED BY <1>2 DEF AliasAnswer

-----------------------------------------------------------------------------
(***************************************************************************)
(* The paths that HostPath gives do not, either, if the table leads        *)
(* somewhere: the path of an entry is the host where its routes end, and   *)
(* what is noted in an entry that has been looked up is its path.          *)
(***************************************************************************)
PassOn(fresh) == [i \in DOMAIN fresh.hosts |-> PassedTo(fresh, i)]

Neighbour(fresh, i) == fresh.hosts[EndOf(PassOn(fresh), i)].name

ViaAs(fresh, tab, j) ==
    /\ tab.hosts[j].routed => tab.hosts[j].via = Neighbour(fresh, j)
    /\ ~tab.hosts[j].routed => tab.hosts[j].via = fresh.hosts[j].via

ViasOf(fresh, tab, S) == \A j \in S : ViaAs(fresh, tab, j)

KeptVias(tab, new, S) ==
    \A j \in DOMAIN tab.hosts : j \notin S =>
        new.hosts[j].via = tab.hosts[j].via /\ new.hosts[j].routed = tab.hosts[j].routed

\* A fresh table that leads somewhere.
Good(fresh) == FreshTable(fresh) /\ Leads(fresh)

LEMMA GoodIs ==
    ASSUME NEW fresh, Good(fresh)
    PROVE  /\ FreshTable(fresh) /\ NoCircle(AliasFrom(fresh)) /\ NoCircle(PassOn(fresh))
           /\ DOMAIN PassOn(fresh) = DOMAIN fresh.hosts /\ 0 \notin DOMAIN fresh.hosts
           /\ \A i \in DOMAIN fresh.hosts :
                 /\ PassOn(fresh)[i] = PassedTo(fresh, i)
                 /\ PassedTo(fresh, i) \in DOMAIN fresh.hosts \cup {0}
                 /\ PassedTo(fresh, i) # i
                 /\ PassedTo(fresh, i) = 0 =>
                       /\ Direct(fresh.hosts, i)
                       /\ fresh.hosts[i].status \in {"localhost", "nocall", "gatewayed"}
<1>1. FreshTable(fresh) /\ Leads(fresh)
  BY DEF Good
<1>2. /\ NoCircle(AliasFrom(fresh)) /\ NoCircle(PassOn(fresh))
      /\ \A i \in DOMAIN fresh.hosts :
              PassedTo(fresh, i) = 0 =>
                  /\ Direct(fresh.hosts, i)
                  /\ fresh.hosts[i].status \in {"localhost", "nocall", "gatewayed"}
  BY <1>1 DEF Leads, AliasFrom, PassOn
<1>3. /\ DOMAIN PassOn(fresh) = DOMAIN fresh.hosts
      /\ \A i \in DOMAIN fresh.hosts : PassOn(fresh)[i] = PassedTo(fresh, i)
  BY DEF PassOn
<1>4. 0 \notin DOMAIN fresh.hosts /\ fresh \in Tables
  BY <1>1, FreshTableIs
<1>5. ASSUME NEW i \in DOMAIN fresh.hosts PROVE PassedTo(fresh, i) \in DOMAIN fresh.hosts \cup {0}
  <2> DEFINE v == IF fresh.hosts[i].via # Null THEN fresh.hosts[i].via
                  ELSE HostAlias[<<fresh, fresh.hosts[i].name>>].to
  <2>1. PassedTo(fresh, i) = IF Direct(fresh.hosts, i) THEN 0 ELSE checkname(fresh.hosts, v)
    BY DEF PassedTo
  <2> HIDE DEF v
  <2> QED BY <1>4, <2>1, CheckIs
<1>6. ASSUME NEW i \in DOMAIN fresh.hosts, PassedTo(fresh, i) = i PROVE FALSE
  <2>1. {i} \in SUBSET DOMAIN PassOn(fresh)
    BY <1>3
  <2>2. \E j \in {i} : PassOn(fresh)[j] \notin {i}
    BY <1>2, <2>1 DEF NoCircle
  <2> QED BY <1>3, <1>6, <2>2
<1> QED BY <1>1, <1>2, <1>3, <1>4, <1>5, <1>6

LEMMA NeighbourIs ==
    ASSUME NEW fresh, Good(fresh), NEW i \in DOMAIN fresh.hosts
    PROVE  /\ Neighbour(fresh, i) \in HostNames
           /\ PassedTo(fresh, i) # 0 => Neighbour(fresh, i) = Neighbour(fresh, PassedTo(fresh, i))
           /\ PassedTo(fresh, i) = 0 => Neighbour(fresh, i) = fresh.hosts[i].name
           /\ checkname(fresh.hosts, Neighbour(fresh, i)) \in Reach(PassOn(fresh), i)
           /\ Neighbour(fresh, checkname(fresh.hosts, Neighbour(fresh, i))) = Neighbour(fresh, i)
<1> DEFINE R == PassOn(fresh)
           k == EndOf(R, i)
<1>1. /\ FreshTable(fresh) /\ NoCircle(R) /\ DOMAIN R = DOMAIN fresh.hosts
      /\ R[i] = PassedTo(fresh, i) /\ PassedTo(fresh, i) \in DOMAIN fresh.hosts \cup {0}
      /\ 0 \notin DOMAIN fresh.hosts
  BY GoodIs
<1> HIDE DEF R
<1>2. /\ k \in Reach(R, i) /\ R[k] \notin DOMAIN R
      /\ R[i] \in DOMAIN R => k = EndOf(R, R[i])
      /\ R[i] \notin DOMAIN R => k = i
  BY <1>1, EndIs
<1>3. k \in DOMAIN fresh.hosts
  BY <1>1, <1>2, ReachIs
<1>4. Neighbour(fresh, i) = fresh.hosts[k].name
  BY DEF Neighbour, R
<1>5. R[i] \in DOMAIN R => Neighbour(fresh, i) = Neighbour(fresh, R[i])
  BY <1>2 DEF Neighbour, R
<1> HIDE DEF k
<1>6. fresh.hosts[k].name \in HostNames /\ checkname(fresh.hosts, fresh.hosts[k].name) = k
  BY <1>1, <1>3, FreshTableIs, FindsOwn DEF FindOwnFresh
<1>7. EndOf(R, k) = k
  BY <1>1, <1>2, <1>3, EndIs
<1>8. Neighbour(fresh, k) = fresh.hosts[k].name
  BY <1>7 DEF Neighbour, R
<1>9. checkname(fresh.hosts, Neighbour(fresh, i)) = k
  BY <1>4, <1>6
<1> QED BY <1>1, <1>2, <1>4, <1>5, <1>6, <1>8, <1>9 DEF R

\* HostPath does right by the names that entry i speaks for.
PathTold(fresh, tab, i, r) ==
    /\ r.to = Neighbour(fresh, i) /\ NamesRight(fresh, r.rt)
    /\ ViasOf(fresh, r.rt, Reach(PassOn(fresh), i))
    /\ KeptVias(tab, r.rt, Reach(PassOn(fresh), i))

PathTells(fresh, i) ==
    \A tab \in Tables : \A n \in HostNames : \A best \in Hosts :
        /\ NamesRight(fresh, tab) /\ checkname(fresh.hosts, n) = i
        /\ ViasOf(fresh, tab, Reach(PassOn(fresh), i))
        => PathTold(fresh, tab, i, HostPath[<<tab, n, best>>])

\* While entry i, marked, is being looked up in the table tab: w.
Under(fresh, tab, i, w) ==
    /\ w \in Tables /\ NamesRight(fresh, w) /\ w.hosts[i].routed
    /\ ViasOf(fresh, w, Reach(PassOn(fresh), i) \ {i})
    /\ KeptVias(tab, w, Reach(PassOn(fresh), i))

LEMMA ViaSame ==
    ASSUME NEW fresh, NEW tab, NEW new, NEW j, ViaAs(fresh, tab, j),
           new.hosts[j].via = tab.hosts[j].via, new.hosts[j].routed = tab.hosts[j].routed
    PROVE  ViaAs(fresh, new, j)
BY DEF ViaAs

\* Names stay right if no name is touched.
LEMMA NamesUntouched ==
    ASSUME NEW fresh, NEW w, NEW v, NamesRight(fresh, w), SameHosts(w.hosts, v.hosts),
           \A j \in DOMAIN fresh.hosts : /\ v.hosts[j].aliased = w.hosts[j].aliased
                                         /\ v.hosts[j].realname = w.hosts[j].realname
    PROVE  NamesRight(fresh, v)
<1>1. SameHosts(fresh.hosts, v.hosts)
  BY DEF NamesRight, SameHosts
<1>2. ASSUME NEW j \in DOMAIN fresh.hosts PROVE NameAs(fresh, v, j)
  <2>1. NameAs(fresh, w, j)
    BY DEF NamesRight, NamesOf
  <2> QED BY <2>1 DEF NameAs
<1> QED BY <1>1, <1>2 DEF NamesRight, NamesOf

LEMMA UnderMark ==
    ASSUME NEW fresh, Good(fresh), NEW i \in DOMAIN fresh.hosts, NEW tab \in Tables,
           NamesRight(fresh, tab), ViasOf(fresh, tab, Reach(PassOn(fresh), i))
    PROVE  Under(fresh, tab, i, Routed(tab, i)) /\ Routed(tab, i).hosts[i].via = tab.hosts[i].via
<1> DEFINE w == Routed(tab, i)
           A == Reach(PassOn(fresh), i)
<1>0. DOMAIN tab.hosts = DOMAIN fresh.hosts /\ A \subseteq DOMAIN fresh.hosts /\ i \in A
  BY GoodIs, ReachIs DEF NamesRight, SameHosts
<1>1. /\ w \in Tables /\ Looked(tab.hosts, w.hosts) /\ w.hosts[i].routed
      /\ w.hosts[i].via = tab.hosts[i].via /\ w.hosts[i].realname = tab.hosts[i].realname
      /\ w.hosts[i].aliased = tab.hosts[i].aliased
      /\ \A j \in DOMAIN tab.hosts : j # i => w.hosts[j] = tab.hosts[j]
  BY <1>0, MarkedIs
<1> HIDE DEF w, A
<1>2. NamesRight(fresh, w)
  <2>1. SameHosts(tab.hosts, w.hosts)
    BY <1>1 DEF Looked
  <2>2. \A j \in DOMAIN fresh.hosts : /\ w.hosts[j].aliased = tab.hosts[j].aliased
                                      /\ w.hosts[j].realname = tab.hosts[j].realname
    BY <1>0, <1>1
  <2> QED BY <2>1, <2>2, NamesUntouched
<1>3. ASSUME NEW j \in A \ {i} PROVE ViaAs(fresh, w, j)
  <2>1. w.hosts[j] = tab.hosts[j] /\ ViaAs(fresh, tab, j)
    BY <1>0, <1>1 DEF ViasOf, A
  <2> QED BY <2>1, ViaSame
<1>4. KeptVias(tab, w, A)
  BY <1>0, <1>1 DEF KeptVias
<1> QED BY <1>1, <1>2, <1>3, <1>4 DEF Under, ViasOf, A, w

LEMMA UnderNote ==
    ASSUME NEW fresh, Good(fresh), NEW i \in DOMAIN fresh.hosts, NEW tab, NEW r,
           DOMAIN tab.hosts = DOMAIN fresh.hosts, Under(fresh, tab, i, r.rt), r.to \in Hosts,
           NEW b, b = NotePath(r, i)
    PROVE  Under(fresh, tab, i, b.rt) /\ b.to = r.to /\ b.rt.hosts[i].via = r.to
<1> DEFINE w == r.rt
           A == Reach(PassOn(fresh), i)
<1>0. /\ w \in Tables /\ NamesRight(fresh, w) /\ w.hosts[i].routed
      /\ ViasOf(fresh, w, A \ {i}) /\ KeptVias(tab, w, A)
  BY DEF Under
<1>1. DOMAIN w.hosts = DOMAIN fresh.hosts /\ A \subseteq DOMAIN fresh.hosts /\ i \in A
  BY <1>0, GoodIs, ReachIs DEF NamesRight, SameHosts
<1> HIDE DEF w, A
<1>2. /\ b.to = r.to /\ b.rt \in Tables /\ Looked(w.hosts, b.rt.hosts)
      /\ b.rt.hosts[i].aliased = w.hosts[i].aliased
      /\ b.rt.hosts[i].realname = w.hosts[i].realname
      /\ b.rt.hosts[i].routed = w.hosts[i].routed
      /\ b.rt.hosts[i].via = r.to
      /\ \A j \in DOMAIN w.hosts : j # i => b.rt.hosts[j] = w.hosts[j]
  <2>1. r.rt = w /\ w \in Tables /\ i \in DOMAIN w.hosts
    BY <1>0, <1>1 DEF w
  <2> DEFINE to == r.to
  <2>2. to \in Hosts /\ r.to = to
    OBVIOUS
  <2> HIDE DEF to
  <2>3. /\ NotePath(r, i).to = to /\ NotePath(r, i).rt \in Tables
        /\ Looked(w.hosts, NotePath(r, i).rt.hosts)
        /\ NotePath(r, i).rt.hosts[i].aliased = w.hosts[i].aliased
        /\ NotePath(r, i).rt.hosts[i].realname = w.hosts[i].realname
        /\ NotePath(r, i).rt.hosts[i].routed = w.hosts[i].routed
        /\ NotePath(r, i).rt.hosts[i].via = to
        /\ \A j \in DOMAIN w.hosts : j # i => NotePath(r, i).rt.hosts[j] = w.hosts[j]
    BY <2>1, <2>2, NotePathIs
  <2> QED BY <2>2, <2>3
<1>3. NamesRight(fresh, b.rt)
  <2>1. SameHosts(w.hosts, b.rt.hosts)
    BY <1>2 DEF Looked
  <2>2. \A j \in DOMAIN fresh.hosts : /\ b.rt.hosts[j].aliased = w.hosts[j].aliased
                                      /\ b.rt.hosts[j].realname = w.hosts[j].realname
    BY <1>1, <1>2
  <2> QED BY <1>0, <2>1, <2>2, NamesUntouched
<1>4. ASSUME NEW j \in A \ {i} PROVE ViaAs(fresh, b.rt, j)
  <2>1. b.rt.hosts[j] = w.hosts[j] /\ ViaAs(fresh, w, j)
    BY <1>0, <1>1, <1>2 DEF ViasOf
  <2> QED BY <2>1, ViaSame
<1>5. KeptVias(tab, b.rt, A)
  BY <1>0, <1>1, <1>2 DEF KeptVias
<1> QED BY <1>0, <1>2, <1>3, <1>4, <1>5 DEF Under, ViasOf, A

LEMMA UnderAlias ==
    ASSUME NEW fresh, Good(fresh), NEW i \in DOMAIN fresh.hosts, NEW tab, NEW w,
           DOMAIN tab.hosts = DOMAIN fresh.hosts, Under(fresh, tab, i, w), NEW n \in Hosts,
           NEW q, q = HostAlias[<<w, n>>]
    PROVE  Under(fresh, tab, i, q.rt) /\ q.to = AliasAnswer(fresh, n)
<1> DEFINE A == Reach(PassOn(fresh), i)
<1>0. /\ w \in Tables /\ NamesRight(fresh, w) /\ w.hosts[i].routed
      /\ ViasOf(fresh, w, A \ {i}) /\ KeptVias(tab, w, A)
  BY DEF Under
<1>1. DOMAIN w.hosts = DOMAIN fresh.hosts /\ A \subseteq DOMAIN fresh.hosts /\ i \in A
  BY <1>0, GoodIs, ReachIs DEF NamesRight, SameHosts
<1>2. /\ q.to = AliasAnswer(fresh, n) /\ NamesRight(fresh, q.rt) /\ q.rt \in Tables
      /\ Renamed(w.hosts, q.rt.hosts)
  BY <1>0, NamesStay, GoodIs
<1> HIDE DEF A
<1>3. \A j \in DOMAIN w.hosts : /\ q.rt.hosts[j].via = w.hosts[j].via
                                /\ q.rt.hosts[j].routed = w.hosts[j].routed
  BY <1>2 DEF Renamed
<1>4. ASSUME NEW j \in A \ {i} PROVE ViaAs(fresh, q.rt, j)
  <2>1. /\ q.rt.hosts[j].via = w.hosts[j].via /\ q.rt.hosts[j].routed = w.hosts[j].routed
        /\ ViaAs(fresh, w, j)
    BY <1>0, <1>1, <1>3 DEF ViasOf
  <2> QED BY <2>1, ViaSame
<1>5. KeptVias(tab, q.rt, A)
  BY <1>0, <1>1, <1>3 DEF KeptVias
<1>6. q.rt.hosts[i].routed
  BY <1>0, <1>1, <1>3
<1> QED BY <1>2, <1>4, <1>5, <1>6 DEF Under, ViasOf, A

LEMMA UnderAsk ==
    ASSUME NEW fresh, Good(fresh), NEW i \in DOMAIN fresh.hosts, PassedTo(fresh, i) # 0,
           NEW k, k \in Reach(PassOn(fresh), PassedTo(fresh, i)), PathTells(fresh, k),
           NEW tab, NEW w, DOMAIN tab.hosts = DOMAIN fresh.hosts, Under(fresh, tab, i, w),
           NEW n \in HostNames, checkname(fresh.hosts, n) = k, NEW best \in Hosts,
           NEW c, c = HostPath[<<w, n, best>>]
    PROVE  Under(fresh, tab, i, c.rt) /\ c.to = Neighbour(fresh, k) /\ c.to \in Hosts
<1> DEFINE R == PassOn(fresh)
           A == Reach(R, i)
           B == Reach(R, k)
           p == PassedTo(fresh, i)
<1>0. /\ DOMAIN R = DOMAIN fresh.hosts /\ NoCircle(R) /\ R[i] = p /\ p \in DOMAIN fresh.hosts
      /\ FreshTable(fresh)
  BY GoodIs
<1> HIDE DEF R, p
<1>1. i \notin Reach(R, p) /\ A = {i} \cup Reach(R, p)
  BY <1>0, ReachStep
<1>2. Shut(R, Reach(R, p)) /\ Reach(R, p) \subseteq DOMAIN fresh.hosts
  BY <1>0, ReachIs
<1>3. B \subseteq Reach(R, p) /\ k \in DOMAIN fresh.hosts
  <2>1. Reach(R, p) \in SUBSET DOMAIN R /\ k \in Reach(R, p) /\ k \in DOMAIN R
    BY <1>0, <1>2 DEF R, p
  <2> QED BY <1>0, <1>2, <2>1, ReachIs
<1>4. /\ w \in Tables /\ NamesRight(fresh, w) /\ w.hosts[i].routed
      /\ ViasOf(fresh, w, A \ {i}) /\ KeptVias(tab, w, A)
  BY DEF Under, R
<1> HIDE DEF A, B
<1>5. ViasOf(fresh, w, B)
  BY <1>1, <1>3, <1>4 DEF ViasOf
<1>6. PathTold(fresh, w, k, c)
  BY <1>4, <1>5 DEF PathTells, B, R
<1>7. /\ c.to = Neighbour(fresh, k) /\ NamesRight(fresh, c.rt)
      /\ ViasOf(fresh, c.rt, B) /\ KeptVias(w, c.rt, B)
  BY <1>6 DEF PathTold, B, R
<1>8. c.rt \in Tables /\ c.to \in Hosts
  <2>1. n \in Hosts
    BY DEF HostNames
  <2> QED BY <1>4, <2>1, PathAt
<1>9. DOMAIN w.hosts = DOMAIN fresh.hosts
  BY <1>4 DEF NamesRight, SameHosts
<1>10. ASSUME NEW j \in A \ {i} PROVE ViaAs(fresh, c.rt, j)
  <2>1. CASE j \in B
    BY <1>7, <2>1 DEF ViasOf
  <2>2. CASE j \notin B
    <3>1. /\ c.rt.hosts[j].via = w.hosts[j].via /\ c.rt.hosts[j].routed = w.hosts[j].routed
          /\ ViaAs(fresh, w, j)
      BY <1>1, <1>2, <1>4, <1>7, <1>9, <2>2 DEF ViasOf, KeptVias
    <3> QED BY <3>1, ViaSame
  <2> QED BY <2>1, <2>2
<1>11. c.rt.hosts[i].routed
  BY <1>1, <1>3, <1>4, <1>7, <1>9 DEF KeptVias
<1>12. KeptVias(tab, c.rt, A)
  BY <1>1, <1>3, <1>4, <1>7, <1>9 DEF KeptVias
<1> QED BY <1>7, <1>8, <1>10, <1>11, <1>12 DEF Under, ViasOf, A, R

\* An entry that is being looked up, and has a route by now, answers with it.
LEMMA AskSelf ==
    ASSUME NEW fresh, Good(fresh), NEW i \in DOMAIN fresh.hosts, NEW tab, NEW w,
           Under(fresh, tab, i, w), fresh.hosts[i].status # "gatewayed",
           w.hosts[i].via \in Hosts, NEW n \in HostNames, checkname(fresh.hosts, n) = i,
           NEW best \in Hosts
    PROVE  HostPath[<<w, n, best>>] = Answer(w, w.hosts[i].via)
<1>1. w \in Tables /\ w.hosts[i].routed /\ SameHosts(fresh.hosts, w.hosts)
  BY DEF Under, NamesRight
<1>2. checkname(w.hosts, n) = i /\ w.hosts[i].status # "gatewayed"
  BY <1>1, CheckSame DEF SameHosts
<1>3. n \in Hosts /\ n \notin {NoPath, Panic}
  BY DEF HostNames
<1>4. HostPath[<<w, n, best>>] = PathTurn(HostPath, w, n, best, i)
  BY <1>1, <1>2, <1>3, PathAt
<1>5. i # 0 /\ w.hosts[i].via # Null
  BY GoodIs, WordsAre
<1>6. PathTurn(HostPath, w, n, best, i) = Again(w, i, w.hosts[i], best)
  BY <1>1, <1>2, <1>3, <1>5 DEF PathTurn
<1> QED BY <1>4, <1>5, <1>6 DEF Again

\* The answer of an entry that is looked up for the first time, when the way
\* further is known.
LEMMA FurtherIs ==
    ASSUME NEW fresh, Good(fresh), NEW i \in DOMAIN fresh.hosts,
           fresh.hosts[i].status # "gatewayed",
           PassedTo(fresh, i) # 0 =>
               \A k \in Reach(PassOn(fresh), PassedTo(fresh, i)) : PathTells(fresh, k),
           NEW tab, DOMAIN tab.hosts = DOMAIN fresh.hosts, NEW b, NEW best \in Hosts,
           Under(fresh, tab, i, b.rt), b.to \in HostNames, b.rt.hosts[i].via = b.to,
           \/ checkname(fresh.hosts, b.to) = i /\ b.to = Neighbour(fresh, i)
           \/ /\ PassedTo(fresh, i) # 0
              /\ checkname(fresh.hosts, b.to) \in Reach(PassOn(fresh), PassedTo(fresh, i))
              /\ Neighbour(fresh, checkname(fresh.hosts, b.to)) = Neighbour(fresh, i),
           NEW c, c = Further(HostPath, b, best)
    PROVE  Under(fresh, tab, i, c.rt) /\ c.to = Neighbour(fresh, i) /\ c.to \in Hosts
<1>1. c = HostPath[<<b.rt, b.to, best>>] /\ b.to \in Hosts
  BY DEF Further, HostNames
<1>2. CASE checkname(fresh.hosts, b.to) = i /\ b.to = Neighbour(fresh, i)
  <2> DEFINE w == b.rt
             n == b.to
  <2>1. HostPath[<<w, n, best>>] = Answer(w, w.hosts[i].via)
    <3> HIDE DEF w
    <3>1. Under(fresh, tab, i, w) /\ w.hosts[i].via \in Hosts
      BY <1>1 DEF w
    <3>2. n \in HostNames /\ checkname(fresh.hosts, n) = i
      BY <1>2
    <3> HIDE DEF n
    <3> QED BY <3>1, <3>2, AskSelf
  <2>2. c.rt = w /\ c.to = w.hosts[i].via
    BY <1>1, <2>1, AnswerIs
  <2> QED BY <1>1, <1>2, <2>2
<1>3. CASE /\ PassedTo(fresh, i) # 0
           /\ checkname(fresh.hosts, b.to) \in Reach(PassOn(fresh), PassedTo(fresh, i))
           /\ Neighbour(fresh, checkname(fresh.hosts, b.to)) = Neighbour(fresh, i)
  <2> DEFINE w == b.rt
             n == b.to
             k == checkname(fresh.hosts, n)
  <2>1. /\ k \in Reach(PassOn(fresh), PassedTo(fresh, i)) /\ PathTells(fresh, k)
        /\ Under(fresh, tab, i, w) /\ n \in HostNames /\ c = HostPath[<<w, n, best>>]
        /\ Neighbour(fresh, k) = Neighbour(fresh, i)
    BY <1>1, <1>3
  <2>2. checkname(fresh.hosts, n) = k
    OBVIOUS
  <2> HIDE DEF k, n, w
  <2> QED BY <1>3, <2>1, <2>2, UnderAsk
<1> QED BY <1>2, <1>3

LEMMA FirstTime ==
    ASSUME NEW fresh, Good(fresh), NEW i \in DOMAIN fresh.hosts,
           fresh.hosts[i].status # "gatewayed",
           PassedTo(fresh, i) # 0 =>
               \A k \in Reach(PassOn(fresh), PassedTo(fresh, i)) : PathTells(fresh, k),
           NEW tab, DOMAIN tab.hosts = DOMAIN fresh.hosts, NEW m, NEW best \in Hosts,
           Under(fresh, tab, i, m), NEW e, e.name = fresh.hosts[i].name,
           e.via = fresh.hosts[i].via, e.status = fresh.hosts[i].status,
           NEW a, a = FirstPath(HostPath, m, e, best)
    PROVE  /\ Under(fresh, tab, i, a.rt) /\ a.to \in HostNames
           /\ \/ checkname(fresh.hosts, a.to) = i /\ a.to = Neighbour(fresh, i)
              \/ /\ PassedTo(fresh, i) # 0
                 /\ checkname(fresh.hosts, a.to) \in Reach(PassOn(fresh), PassedTo(fresh, i))
                 /\ Neighbour(fresh, checkname(fresh.hosts, a.to)) = Neighbour(fresh, i)
<1> DEFINE h == fresh.hosts
           p == PassedTo(fresh, i)
           R == PassOn(fresh)
           nm == h[i].name
<1>1. /\ FreshTable(fresh) /\ NoCircle(AliasFrom(fresh)) /\ NoCircle(R)
      /\ DOMAIN R = DOMAIN h /\ 0 \notin DOMAIN h
      /\ R[i] = p /\ p \in DOMAIN h \cup {0} /\ p # i
      /\ p = 0 => Direct(h, i) /\ h[i].status \in {"localhost", "nocall", "gatewayed"}
  BY GoodIs
<1>2. /\ nm \in HostNames /\ nm \in Hosts /\ h[i].realname \in HostNames \cup {Null}
      /\ h[i].via \in HostNames \cup {Null}
      /\ h[i].status = "localhost" => nm = E_nodename
      /\ checkname(h, nm) = i /\ fresh \in Tables /\ Null \notin HostNames
  BY <1>1, FreshTableIs, FindsOwn DEF FindOwnFresh
<1>3. /\ p # 0 => Neighbour(fresh, i) = Neighbour(fresh, p) /\ p \in Reach(R, p)
      /\ p = 0 => Neighbour(fresh, i) = nm
  BY <1>1, NeighbourIs, ReachIs
<1>4. CASE h[i].via # Null
  <2> DEFINE v == h[i].via
  <2>1. a = Answer(m, v)
    BY <1>4 DEF FirstPath
  <2>2. a.rt = m /\ a.to = v
    BY <2>1, AnswerIs
  <2>3. v \in HostNames
    BY <1>2, <1>4
  <2>4. CASE v = nm
    <3>1. p = 0
      BY <2>4 DEF PassedTo, Direct
    <3> QED BY <1>2, <1>3, <2>2, <2>3, <2>4, <3>1
  <2>5. CASE v # nm
    <3>1. ~Direct(h, i)
      BY <1>4, <2>5 DEF Direct
    <3>2. p = checkname(h, v) /\ p # 0
      BY <1>1, <1>4, <3>1 DEF PassedTo
    <3> QED BY <1>3, <2>2, <2>3, <3>2
  <2> QED BY <2>4, <2>5
<1>5. CASE h[i].via = Null
  <2> DEFINE q == HostAlias[<<m, nm>>]
             y == AliasAnswer(fresh, nm)
  <2>1. Under(fresh, tab, i, q.rt) /\ q.to = y
    BY <1>2, UnderAlias
  <2>2. a = Implied(HostPath, q, e, best)
    BY <1>5 DEF FirstPath
  <2>3. HostAlias[<<fresh, nm>>].to = y
    BY <1>1, <1>2, NamesStay, FreshNames
  <2>4. y \in HostNames
    BY <1>1, <1>2, AnswerHost
  <2>5. ~Direct(h, i) => p = checkname(h, y)
    BY <1>5, <2>3 DEF PassedTo
  <2> HIDE DEF q
  <2>6. CASE y = nm
    <3>1. p = 0
      <4>1. Direct(h, i)
        BY <1>1, <1>2, <2>5, <2>6
      <4> QED BY <4>1 DEF PassedTo
    <3>2. h[i].status \in {"localhost", "nocall"}
      BY <1>1, <3>1
    <3>3. OwnPath(q.rt.hosts, e, best) = nm
      <4>1. CASE h[i].status = "localhost"
        BY <1>2, <4>1 DEF OwnPath
      <4>2. CASE h[i].status = "nocall"
        <5>1. SameHosts(h, q.rt.hosts)
          BY <2>1 DEF Under, NamesRight
        <5>2. Find(q.rt.hosts, nm) = Find(h, nm)
          BY <5>1, FindSame
        <5>3. Find(h, nm) = i
          <6>1. h \in FreshHosts
            BY <1>1 DEF FreshTable
          <6>2. /\ Find(h, nm) # 0 => Find(h, nm) \in DOMAIN h /\ h[Find(h, nm)].name = nm
                /\ Find(h, nm) = 0 => \A j \in DOMAIN h : h[j].name # nm
            <7> HIDE DEF nm, h
            <7> QED BY <6>1, FindFresh
          <6>3. Find(h, nm) # 0
            BY <6>2
          <6> QED BY <6>1, <6>2, <6>3 DEF FreshHosts
        <5>4. q.rt.hosts[i].status = "nocall"
          BY <4>2, <5>1 DEF SameHosts
        <5>5. checkreal(q.rt.hosts, nm) = i /\ i # 0
          BY <1>1, <5>2, <5>3, <5>4 DEF checkreal
        <5> QED BY <4>2, <5>5 DEF OwnPath
      <4> QED BY <3>2, <4>1, <4>2
    <3>4. a = Answer(q.rt, nm)
      BY <2>1, <2>2, <2>6, <3>3 DEF Implied
    <3>5. a.rt = q.rt /\ a.to = nm
      BY <3>4, AnswerIs
    <3> QED BY <1>2, <1>3, <2>1, <3>1, <3>5
  <2>7. CASE y # nm
    <3>1. ~Direct(h, i)
      <4>1. SUFFICES ASSUME h[i].realname \in {Null, nm} PROVE FALSE
        BY <1>2, <1>5 DEF Direct
      <4>2. RealOn(fresh)[i] = 0
        BY <1>1, <4>1, RealOnIs DEF NextName, AliasOf
      <4>3. RealName(fresh, i) = nm
        BY <1>1, <4>1, <4>2, RealNameIs DEF NameAt
      <4> QED BY <1>2, <2>7, <4>3 DEF AliasAnswer
    <3>2. p = checkname(h, y) /\ p # 0
      BY <1>1, <2>5, <3>1
    <3>3. a = HostPath[<<q.rt, y, best>>]
      BY <2>1, <2>2, <2>7 DEF Implied
    <3>4. PathTells(fresh, p) /\ p \in Reach(PassOn(fresh), PassedTo(fresh, i))
      BY <1>3, <3>2
    <3> DEFINE w == q.rt
    <3>5. Under(fresh, tab, i, w) /\ a = HostPath[<<w, y, best>>]
      BY <2>1, <3>3
    <3>6. Under(fresh, tab, i, a.rt) /\ a.to = Neighbour(fresh, p)
      <4> HIDE DEF w, y, p
      <4>1. checkname(fresh.hosts, y) = p /\ PassedTo(fresh, i) # 0
        BY <3>2 DEF p
      <4> QED BY <2>4, <3>4, <3>5, <4>1, UnderAsk
    <3>7. p \in DOMAIN h
      BY <1>1, <3>2
    <3>8. /\ Neighbour(fresh, p) \in HostNames
          /\ checkname(h, Neighbour(fresh, p)) \in Reach(R, p)
          /\ Neighbour(fresh, checkname(h, Neighbour(fresh, p))) = Neighbour(fresh, p)
      <4> HIDE DEF p
      <4> QED BY <3>7, NeighbourIs
    <3> QED BY <1>3, <3>2, <3>6, <3>8
  <2> QED BY <2>6, <2>7
<1> QED BY <1>4, <1>5

LEMMA PathTellsStep ==
    ASSUME NEW fresh, Good(fresh), NEW i \in DOMAIN fresh.hosts,
           PassedTo(fresh, i) # 0 =>
               \A k \in Reach(PassOn(fresh), PassedTo(fresh, i)) : PathTells(fresh, k)
    PROVE  PathTells(fresh, i)
<1> DEFINE h == fresh.hosts
           A == Reach(PassOn(fresh), i)
<1>1. SUFFICES ASSUME NEW tab \in Tables, NEW n \in HostNames, NEW best \in Hosts,
                      NamesRight(fresh, tab), checkname(h, n) = i, ViasOf(fresh, tab, A)
               PROVE  PathTold(fresh, tab, i, HostPath[<<tab, n, best>>])
  BY DEF PathTells
<1> DEFINE r == HostPath[<<tab, n, best>>]
           e == tab.hosts[i]
<1>2. /\ SameHosts(h, tab.hosts) /\ DOMAIN tab.hosts = DOMAIN h /\ i \in DOMAIN tab.hosts
      /\ e.name = h[i].name /\ e.status = h[i].status
  BY <1>1 DEF NamesRight, SameHosts
<1>3. checkname(tab.hosts, n) = i /\ n \in Hosts /\ n \notin {NoPath, Panic} /\ i # 0
  BY <1>1, <1>2, CheckSame, GoodIs DEF HostNames
<1>4. r = PathTurn(HostPath, tab, n, best, i)
  BY <1>3, PathAt
<1>5. i \in A /\ A \subseteq DOMAIN h
  BY GoodIs, ReachIs
<1>6. ViaAs(fresh, tab, i)
  BY <1>1, <1>5 DEF ViasOf
<1>7. Neighbour(fresh, i) # Null
  BY NeighbourIs, GoodIs, FreshTableIs
<1>8. SUFFICES /\ r.to = Neighbour(fresh, i) /\ NamesRight(fresh, r.rt)
               /\ ViasOf(fresh, r.rt, A) /\ KeptVias(tab, r.rt, A)
  BY DEF PathTold
<1> HIDE DEF r, A
<1>9. CASE e.status = "gatewayed"
  <2>1. r = Answer(tab, e.name)
    BY <1>3, <1>4, <1>9 DEF PathTurn
  <2>2. PassedTo(fresh, i) = 0
    BY <1>2, <1>9 DEF PassedTo, Direct
  <2>3. Neighbour(fresh, i) = e.name
    BY <1>2, <2>2, NeighbourIs
  <2>4. r.rt = tab /\ r.to = e.name
    BY <2>1, AnswerIs
  <2> QED BY <1>1, <2>3, <2>4 DEF KeptVias
<1>10. CASE e.status # "gatewayed" /\ e.routed
  <2>1. r = Again(tab, i, e, best)
    BY <1>3, <1>4, <1>10 DEF PathTurn
  <2>2. e.via = Neighbour(fresh, i)
    BY <1>6, <1>10 DEF ViaAs
  <2>3. r = Answer(tab, e.via)
    BY <1>7, <2>1, <2>2 DEF Again
  <2>4. r.rt = tab /\ r.to = e.via
    BY <2>3, AnswerIs
  <2> QED BY <1>1, <2>2, <2>4 DEF KeptVias
<1>11. CASE e.status # "gatewayed" /\ ~e.routed
  <2> DEFINE m == Routed(tab, i)
             a == FirstPath(HostPath, m, e, best)
             b == NotePath(a, i)
             c == Further(HostPath, b, best)
  <2>1. r = NotePath(c, i)
    BY <1>3, <1>4, <1>11 DEF PathTurn
  <2>2. Under(fresh, tab, i, m)
    BY <1>1, UnderMark DEF A
  <2>3. e.via = h[i].via /\ h[i].status # "gatewayed"
    BY <1>2, <1>6, <1>11 DEF ViaAs
  <2> HIDE DEF m, b, c
  <2>4. /\ Under(fresh, tab, i, a.rt) /\ a.to \in HostNames
        /\ \/ checkname(fresh.hosts, a.to) = i /\ a.to = Neighbour(fresh, i)
           \/ /\ PassedTo(fresh, i) # 0
              /\ checkname(fresh.hosts, a.to) \in Reach(PassOn(fresh), PassedTo(fresh, i))
              /\ Neighbour(fresh, checkname(fresh.hosts, a.to)) = Neighbour(fresh, i)
    <3> HIDE DEF e
    <3> DEFINE x == FirstPath(HostPath, m, e, best)
    <3>1. x = FirstPath(HostPath, m, e, best)
      OBVIOUS
    <3> HIDE DEF x
    <3>2. /\ Under(fresh, tab, i, x.rt) /\ x.to \in HostNames
          /\ \/ checkname(fresh.hosts, x.to) = i /\ x.to = Neighbour(fresh, i)
             \/ /\ PassedTo(fresh, i) # 0
                /\ checkname(fresh.hosts, x.to) \in Reach(PassOn(fresh), PassedTo(fresh, i))
                /\ Neighbour(fresh, checkname(fresh.hosts, x.to)) = Neighbour(fresh, i)
      BY <1>2, <2>2, <2>3, <3>1, FirstTime
    <3> QED BY <3>2 DEF x
  <2> HIDE DEF a
  <2>5. a.to \in Hosts /\ b = NotePath(a, i)
    BY <2>4 DEF HostNames, b
  <2>6. Under(fresh, tab, i, b.rt) /\ b.to = a.to /\ b.rt.hosts[i].via = a.to
    BY <1>2, <2>4, <2>5, UnderNote
  <2>7. Under(fresh, tab, i, c.rt) /\ c.to = Neighbour(fresh, i) /\ c.to \in Hosts
    <3>1. /\ b.to \in HostNames /\ b.rt.hosts[i].via = b.to
          /\ \/ checkname(fresh.hosts, b.to) = i /\ b.to = Neighbour(fresh, i)
             \/ /\ PassedTo(fresh, i) # 0
                /\ checkname(fresh.hosts, b.to) \in Reach(PassOn(fresh), PassedTo(fresh, i))
                /\ Neighbour(fresh, checkname(fresh.hosts, b.to)) = Neighbour(fresh, i)
      BY <2>4, <2>6
    <3>2. c = Further(HostPath, b, best)
      BY DEF c
    <3> QED BY <1>2, <2>3, <2>6, <3>1, <3>2, FurtherIs
  <2>8. Under(fresh, tab, i, r.rt) /\ r.to = c.to /\ r.rt.hosts[i].via = c.to
    BY <1>2, <2>1, <2>7, UnderNote
  <2>9. /\ NamesRight(fresh, r.rt) /\ r.rt.hosts[i].routed /\ ViasOf(fresh, r.rt, A \ {i})
        /\ KeptVias(tab, r.rt, A)
    BY <2>8 DEF Under, A
  <2>10. ViaAs(fresh, r.rt, i)
    BY <2>7, <2>8, <2>9 DEF ViaAs
  <2> QED BY <2>7, <2>8, <2>9, <2>10 DEF ViasOf
<1> QED BY <1>9, <1>10, <1>11

LEMMA PathsTell ==
    ASSUME NEW fresh, Good(fresh), NEW i \in DOMAIN fresh.hosts
    PROVE  PathTells(fresh, i)
<1> DEFINE R == PassOn(fresh)
           P == {j \in DOMAIN fresh.hosts : \A k \in Reach(R, j) : PathTells(fresh, k)}
<1>1. /\ DOMAIN R = DOMAIN fresh.hosts /\ NoCircle(R) /\ 0 \notin DOMAIN fresh.hosts
      /\ \A j \in DOMAIN fresh.hosts : /\ R[j] = PassedTo(fresh, j)
                                       /\ PassedTo(fresh, j) \in DOMAIN fresh.hosts \cup {0}
  BY GoodIs
<1> HIDE DEF R
<1>2. ASSUME NEW j \in DOMAIN R, R[j] \in DOMAIN R => R[j] \in P PROVE j \in P
  <2>1. PassedTo(fresh, j) # 0 => \A k \in Reach(R, PassedTo(fresh, j)) : PathTells(fresh, k)
    BY <1>1, <1>2
  <2>2. PathTells(fresh, j)
    BY <1>1, <2>1, PathTellsStep DEF R
  <2>3. CASE R[j] \in DOMAIN R
    <3>1. Reach(R, j) = {j} \cup Reach(R, R[j])
      BY <1>1, <2>3, ReachStep
    <3>2. R[j] \in P
      BY <1>2, <2>3
    <3> QED BY <1>1, <2>2, <3>1, <3>2
  <2>4. CASE R[j] \notin DOMAIN R
    <3>1. Reach(R, j) = {j}
      BY <2>4, ReachLast
    <3> QED BY <1>1, <2>2, <3>1
  <2> QED BY <2>3, <2>4
<1>3. \A j \in DOMAIN R : j \in P
  <2> HIDE DEF P
  <2> QED BY <1>1, <1>2, CircleInduction
<1>4. i \in Reach(R, i)
  BY <1>1, ReachIs
<1> QED BY <1>1, <1>3, <1>4

-----------------------------------------------------------------------------
(***************************************************************************)
(* So an address has one path, whatever was asked before: the tables that  *)
(* lookups leave behind.                                                   *)
(***************************************************************************)
Rights(fresh) == {tab \in Tables : NamesRight(fresh, tab) /\ ViasOf(fresh, tab, DOMAIN fresh.hosts)}

PathAnswer(fresh, n, best) ==
    IF n \in {NoPath, Panic} THEN Panic
    ELSE IF checkname(fresh.hosts, n) = 0 THEN (IF Strange(n) THEN NoPath ELSE best)
    ELSE Neighbour(fresh, checkname(fresh.hosts, n))

LEMMA FreshRight == ASSUME NEW fresh, Good(fresh) PROVE fresh \in Rights(fresh)
<1>1. fresh \in Tables /\ NamesRight(fresh, fresh)
  BY GoodIs, FreshTableIs, FreshNames
<1>2. ASSUME NEW j \in DOMAIN fresh.hosts PROVE ViaAs(fresh, fresh, j)
  BY GoodIs, FreshTableIs DEF ViaAs
<1> QED BY <1>1, <1>2 DEF Rights, ViasOf

LEMMA AliasStays ==
    ASSUME NEW fresh, Good(fresh), NEW tab \in Rights(fresh), NEW n \in Hosts,
           NEW r, r = HostAlias[<<tab, n>>]
    PROVE  r.rt \in Rights(fresh) /\ r.to = AliasAnswer(fresh, n) /\ r.to \in Hosts
<1>1. tab \in Tables /\ NamesRight(fresh, tab) /\ ViasOf(fresh, tab, DOMAIN fresh.hosts)
  BY DEF Rights
<1>2. /\ r.to = AliasAnswer(fresh, n) /\ NamesRight(fresh, r.rt)
      /\ r.rt \in Tables /\ Renamed(tab.hosts, r.rt.hosts)
  BY <1>1, NamesStay, GoodIs
<1>3. DOMAIN tab.hosts = DOMAIN fresh.hosts
  BY <1>1 DEF NamesRight, SameHosts
<1>4. ASSUME NEW j \in DOMAIN fresh.hosts PROVE ViaAs(fresh, r.rt, j)
  <2>1. r.rt.hosts[j].via = tab.hosts[j].via /\ r.rt.hosts[j].routed = tab.hosts[j].routed
    BY <1>2, <1>3 DEF Renamed
  <2>2. ViaAs(fresh, tab, j)
    BY <1>1 DEF ViasOf
  <2> QED BY <2>1, <2>2, ViaSame
<1>5. r.to \in Hosts
  BY <1>1, AliasOfIs
<1> QED BY <1>2, <1>4, <1>5 DEF Rights, ViasOf

LEMMA PathsStay ==
    ASSUME NEW fresh, Good(fresh), NEW tab \in Rights(fresh), NEW n \in Hosts, NEW best \in Hosts,
           NEW r, r = HostPath[<<tab, n, best>>]
    PROVE  r.rt \in Rights(fresh) /\ r.to = PathAnswer(fresh, n, best) /\ r.to \in Hosts
<1> DEFINE h == fresh.hosts
           i == checkname(h, n)
<1>1. tab \in Tables /\ NamesRight(fresh, tab) /\ ViasOf(fresh, tab, DOMAIN h)
  BY DEF Rights
<1>2. SameHosts(h, tab.hosts) /\ DOMAIN tab.hosts = DOMAIN h
  BY <1>1 DEF NamesRight, SameHosts
<1>3. checkname(tab.hosts, n) = i
  BY <1>2, CheckSame
<1>4. r = PathTurn(HostPath, tab, n, best, i) /\ r.to \in Hosts /\ r.rt \in Tables
  BY <1>1, <1>3, PathAt
<1>5. i = 0 \/ i \in DOMAIN h
  BY GoodIs, FreshTableIs, CheckIs
<1> HIDE DEF i
<1>6. CASE n \in {NoPath, Panic}
  <2>1. r = Answer(tab, Panic)
    BY <1>4, <1>6 DEF PathTurn
  <2>2. r.rt = tab /\ r.to = Panic
    BY <2>1, AnswerIs
  <2> QED BY <1>4, <1>6, <2>2 DEF PathAnswer
<1>7. CASE n \notin {NoPath, Panic} /\ i = 0
  <2> DEFINE v == IF Strange(n) THEN NoPath ELSE best
  <2>1. r = Answer(tab, v)
    BY <1>4, <1>7 DEF PathTurn
  <2>2. PathAnswer(fresh, n, best) = v
    BY <1>7 DEF PathAnswer, i
  <2> HIDE DEF v
  <2>3. r.rt = tab /\ r.to = v
    BY <2>1, AnswerIs
  <2> QED BY <1>4, <2>2, <2>3
<1>8. CASE n \notin {NoPath, Panic} /\ i # 0
  <2> DEFINE A == Reach(PassOn(fresh), i)
  <2>1. i \in DOMAIN h /\ n \in HostNames
    BY <1>5, <1>8 DEF HostNames
  <2>2. A \subseteq DOMAIN h
    BY <2>1, GoodIs, ReachIs
  <2>3. ViasOf(fresh, tab, A)
    BY <1>1, <2>2 DEF ViasOf
  <2>4. PathTells(fresh, i)
    BY <2>1, PathsTell
  <2>5. PathTold(fresh, tab, i, r)
    BY <1>1, <2>1, <2>3, <2>4 DEF PathTells, i
  <2>6. /\ r.to = Neighbour(fresh, i) /\ NamesRight(fresh, r.rt)
        /\ ViasOf(fresh, r.rt, A) /\ KeptVias(tab, r.rt, A)
    BY <2>5 DEF PathTold
  <2> HIDE DEF A
  <2>7. ASSUME NEW j \in DOMAIN h PROVE ViaAs(fresh, r.rt, j)
    <3>1. CASE j \in A
      BY <2>6, <3>1 DEF ViasOf
    <3>2. CASE j \notin A
      <4>1. /\ r.rt.hosts[j].via = tab.hosts[j].via /\ r.rt.hosts[j].routed = tab.hosts[j].routed
            /\ ViaAs(fresh, tab, j)
        BY <1>1, <1>2, <2>6, <3>2 DEF KeptVias, ViasOf
      <4> QED BY <4>1, ViaSame
    <3> QED BY <3>1, <3>2
  <2>8. PathAnswer(fresh, n, best) = Neighbour(fresh, i)
    BY <1>8 DEF PathAnswer, i
  <2> QED BY <1>4, <2>6, <2>7, <2>8 DEF Rights, ViasOf
<1> QED BY <1>6, <1>7, <1>8

\* A route leads to the same host from any of these tables.
SameWay(fresh, r, s) == r.rt \in Rights(fresh) /\ s.rt \in Rights(fresh) /\ r.to = s.to /\ r.to \in Hosts

RoutesAlike(fresh, w) ==
    \A b \in Hosts : \A t \in Rights(fresh) : \A u \in Rights(fresh) :
        SameWay(fresh, rfc_route[<<t, w, b>>], rfc_route[<<u, w, b>>])

RoutesOfLen(fresh, k) == \A w \in Seq(Hosts) : Len(w) = k => RoutesAlike(fresh, w)

LEMMA RouteOn ==
    ASSUME NEW fresh, Good(fresh), NEW w \in Seq(Hosts), w # <<>> => RoutesAlike(fresh, Tail(w))
    PROVE  RoutesAlike(fresh, w)
<1> SUFFICES ASSUME NEW b \in Hosts, NEW t \in Rights(fresh), NEW u \in Rights(fresh)
             PROVE  SameWay(fresh, rfc_route[<<t, w, b>>], rfc_route[<<u, w, b>>])
  BY DEF RoutesAlike
<1> DEFINE r == rfc_route[<<t, w, b>>]
           s == rfc_route[<<u, w, b>>]
<1>1. t \in Tables /\ u \in Tables
  BY DEF Rights
<1>2. CASE w = <<>> \/ b = Panic
  <2>1. r = Answer(t, b) /\ s = Answer(u, b)
    BY <1>1, <1>2, RouteAt
  <2> HIDE DEF r, s
  <2>2. r.rt = t /\ s.rt = u /\ r.to = b /\ s.to = b
    BY <2>1, AnswerIs
  <2>3. SameWay(fresh, r, s)
    BY <2>2 DEF SameWay
  <2> QED BY <2>3 DEF r, s
<1>3. CASE ~(w = <<>> \/ b = Panic)
  <2> DEFINE p == HostPath[<<t, Head(w), b>>]
             q == HostPath[<<u, Head(w), b>>]
  <2>1. Head(w) \in Hosts
    BY <1>3, HeadTail
  <2>2. p.rt \in Rights(fresh) /\ p.to = PathAnswer(fresh, Head(w), b) /\ p.to \in Hosts
    BY <2>1, PathsStay
  <2>3. q.rt \in Rights(fresh) /\ q.to = PathAnswer(fresh, Head(w), b)
    BY <2>1, PathsStay
  <2>4. r = RouteTurn(rfc_route, p, w) /\ s = RouteTurn(rfc_route, q, w)
    BY <1>1, <1>3, RouteAt
  <2> HIDE DEF r, s, p, q
  <2>5. r = rfc_route[<<p.rt, Tail(w), p.to>>] /\ s = rfc_route[<<q.rt, Tail(w), q.to>>]
    BY <2>4 DEF RouteTurn
  <2>6. p.to = q.to
    BY <2>2, <2>3
  <2> DEFINE v == p.rt
             x == q.rt
             y == p.to
  <2>7. v \in Rights(fresh) /\ x \in Rights(fresh) /\ y \in Hosts
    BY <2>2, <2>3
  <2>8. r = rfc_route[<<v, Tail(w), y>>] /\ s = rfc_route[<<x, Tail(w), y>>]
    BY <2>5, <2>6
  <2> HIDE DEF v, x, y
  <2>9. SameWay(fresh, rfc_route[<<v, Tail(w), y>>], rfc_route[<<x, Tail(w), y>>])
    BY <1>3, <2>7 DEF RoutesAlike
  <2>10. SameWay(fresh, r, s)
    BY <2>8, <2>9
  <2> QED BY <2>10 DEF r, s
<1> QED BY <1>2, <1>3

LEMMA RoutesAgree ==
    ASSUME NEW fresh, Good(fresh), NEW w \in Seq(Hosts)
    PROVE  RoutesAlike(fresh, w)
<1> DEFINE S == {k \in Nat : RoutesOfLen(fresh, k)}
<1>1. 0 \in S
  <2> SUFFICES ASSUME NEW v \in Seq(Hosts), Len(v) = 0 PROVE RoutesAlike(fresh, v)
    BY DEF RoutesOfLen
  <2>1. v = <<>>
    BY EmptySeq
  <2> QED BY <2>1, RouteOn
<1>2. ASSUME NEW k \in Nat, k \in S PROVE k + 1 \in S
  <2> SUFFICES ASSUME NEW v \in Seq(Hosts), Len(v) = k + 1 PROVE RoutesAlike(fresh, v)
    BY DEF RoutesOfLen
  <2>1. v # <<>> => Tail(v) \in Seq(Hosts) /\ Len(Tail(v)) = k
    OBVIOUS
  <2>2. v # <<>> => RoutesAlike(fresh, Tail(v))
    BY <1>2, <2>1 DEF RoutesOfLen
  <2> QED BY <2>2, RouteOn
<1>3. \A k \in Nat : k \in S
  <2> HIDE DEF S
  <2> QED BY <1>1, <1>2, NatInductive
<1>4. Len(w) \in Nat
  OBVIOUS
<1> QED BY <1>3, <1>4 DEF RoutesOfLen

\* So does a bang path.
BangEndsOr(tab, hosts, b, f, r) ==
    r = IF hosts = <<>> \/ b \in {NoPath, Panic} THEN [rt |-> tab, to |-> b, first |-> f]
        ELSE BangTurn(BangRoute, HostPath[<<tab, Head(hosts), b>>], hosts, f)

LEMMA BangIsOne ==
    ASSUME NEW tab \in Tables, NEW hosts \in Seq(Hosts), NEW b \in Hosts, NEW f \in Firsts
    PROVE  BangEndsOr(tab, hosts, b, f, BangRoute[<<tab, hosts, b, f>>])
<1> DEFINE q == <<tab, hosts, b, f>>
<1>1. q \in BangArgs /\ q[1] = tab /\ q[2] = hosts /\ q[3] = b /\ q[4] = f
  BY DEF BangArgs
<1> HIDE DEF q
<1>2. BangRoute[q] = BangBody(BangRoute)[q]
  BY BangIs
<1>3. BangBody(BangRoute)[q] =
        IF q[2] = <<>> \/ q[3] \in {NoPath, Panic} THEN [rt |-> q[1], to |-> q[3], first |-> q[4]]
        ELSE BangTurn(BangRoute, HostPath[<<q[1], Head(q[2]), q[3]>>], q[2], q[4])
  BY <1>1 DEF BangBody
<1>4. BangEndsOr(tab, hosts, b, f, BangRoute[q])
  BY <1>1, <1>2, <1>3 DEF BangEndsOr
<1> QED BY <1>4 DEF q

LEMMA BangEnds ==
    ASSUME NEW tab \in Tables, NEW hosts \in Seq(Hosts), NEW b \in Hosts, NEW f \in Firsts,
           hosts = <<>> \/ b \in {NoPath, Panic}
    PROVE  BangRoute[<<tab, hosts, b, f>>] = [rt |-> tab, to |-> b, first |-> f]
<1> DEFINE r == BangRoute[<<tab, hosts, b, f>>]
<1>1. BangEndsOr(tab, hosts, b, f, r)
  BY BangIsOne
<1> HIDE DEF r
<1>2. r = [rt |-> tab, to |-> b, first |-> f]
  BY <1>1, Zenon DEF BangEndsOr
<1> QED BY <1>2 DEF r

LEMMA BangGoesOn ==
    ASSUME NEW tab \in Tables, NEW hosts \in Seq(Hosts), NEW b \in Hosts, NEW f \in Firsts,
           ~(hosts = <<>> \/ b \in {NoPath, Panic})
    PROVE  BangRoute[<<tab, hosts, b, f>>] =
             BangTurn(BangRoute, HostPath[<<tab, Head(hosts), b>>], hosts, f)
<1> DEFINE r == BangRoute[<<tab, hosts, b, f>>]
<1>1. BangEndsOr(tab, hosts, b, f, r)
  BY BangIsOne
<1> HIDE DEF r
<1>2. r = BangTurn(BangRoute, HostPath[<<tab, Head(hosts), b>>], hosts, f)
  BY <1>1, Zenon DEF BangEndsOr
<1> QED BY <1>2 DEF r

SameBang(fresh, r, s) ==
    SameWay(fresh, r, s) /\ r.first = s.first /\ r.first \in Firsts

BangsAlike(fresh, w) ==
    \A b \in Hosts : \A f \in Firsts : \A t \in Rights(fresh) : \A u \in Rights(fresh) :
        SameBang(fresh, BangRoute[<<t, w, b, f>>], BangRoute[<<u, w, b, f>>])

BangsOfLen(fresh, k) == \A w \in Seq(Hosts) : Len(w) = k => BangsAlike(fresh, w)

LEMMA BangOn ==
    ASSUME NEW fresh, Good(fresh), NEW w \in Seq(Hosts), w # <<>> => BangsAlike(fresh, Tail(w))
    PROVE  BangsAlike(fresh, w)
<1> SUFFICES ASSUME NEW b \in Hosts, NEW f \in Firsts, NEW t \in Rights(fresh), NEW u \in Rights(fresh)
             PROVE  SameBang(fresh, BangRoute[<<t, w, b, f>>], BangRoute[<<u, w, b, f>>])
  BY DEF BangsAlike
<1> DEFINE r == BangRoute[<<t, w, b, f>>]
           s == BangRoute[<<u, w, b, f>>]
<1>1. t \in Tables /\ u \in Tables
  BY DEF Rights
<1>2. CASE w = <<>> \/ b \in {NoPath, Panic}
  <2>1. r = [rt |-> t, to |-> b, first |-> f] /\ s = [rt |-> u, to |-> b, first |-> f]
    BY <1>1, <1>2, BangEnds
  <2> HIDE DEF r, s
  <2>2. SameBang(fresh, r, s)
    BY <2>1 DEF SameBang, SameWay
  <2> QED BY <2>2 DEF r, s
<1>3. CASE ~(w = <<>> \/ b \in {NoPath, Panic})
  <2> DEFINE p == HostPath[<<t, Head(w), b>>]
             q == HostPath[<<u, Head(w), b>>]
  <2>1. Head(w) \in Hosts
    BY <1>3, HeadTail
  <2>2. p.rt \in Rights(fresh) /\ p.to = PathAnswer(fresh, Head(w), b) /\ p.to \in Hosts
    BY <2>1, PathsStay
  <2>3. q.rt \in Rights(fresh) /\ q.to = PathAnswer(fresh, Head(w), b)
    BY <2>1, PathsStay
  <2>4. r = BangTurn(BangRoute, p, w, f) /\ s = BangTurn(BangRoute, q, w, f)
    BY <1>1, <1>3, BangGoesOn
  <2> HIDE DEF r, s, p, q
  <2> DEFINE v == p.rt
             x == q.rt
             y == p.to
             z == FirstAway(f, Head(w), y)
  <2>5. v \in Rights(fresh) /\ x \in Rights(fresh) /\ y \in Hosts /\ q.to = y
    BY <2>2, <2>3
  <2>6. z \in Firsts
    BY <2>1, <2>2, FirstIs
  <2>7. r = BangRoute[<<v, Tail(w), y, z>>] /\ s = BangRoute[<<x, Tail(w), y, z>>]
    BY <2>4, <2>5 DEF BangTurn
  <2> HIDE DEF v, x, y, z
  <2>8. SameBang(fresh, BangRoute[<<v, Tail(w), y, z>>], BangRoute[<<x, Tail(w), y, z>>])
    BY <1>3, <2>5, <2>6 DEF BangsAlike
  <2>9. SameBang(fresh, r, s)
    BY <2>7, <2>8
  <2> QED BY <2>9 DEF r, s
<1> QED BY <1>2, <1>3

LEMMA BangsAgree ==
    ASSUME NEW fresh, Good(fresh), NEW w \in Seq(Hosts)
    PROVE  BangsAlike(fresh, w)
<1> DEFINE S == {k \in Nat : BangsOfLen(fresh, k)}
<1>1. 0 \in S
  <2> SUFFICES ASSUME NEW v \in Seq(Hosts), Len(v) = 0 PROVE BangsAlike(fresh, v)
    BY DEF BangsOfLen
  <2>1. v = <<>>
    BY EmptySeq
  <2> QED BY <2>1, BangOn
<1>2. ASSUME NEW k \in Nat, k \in S PROVE k + 1 \in S
  <2> SUFFICES ASSUME NEW v \in Seq(Hosts), Len(v) = k + 1 PROVE BangsAlike(fresh, v)
    BY DEF BangsOfLen
  <2>1. v # <<>> => Tail(v) \in Seq(Hosts) /\ Len(Tail(v)) = k
    OBVIOUS
  <2>2. v # <<>> => BangsAlike(fresh, Tail(v))
    BY <1>2, <2>1 DEF BangsOfLen
  <2> QED BY <2>2, BangOn
<1>3. \A k \in Nat : k \in S
  <2> HIDE DEF S
  <2> QED BY <1>1, <1>2, NatInductive
<1>4. Len(w) \in Nat
  OBVIOUS
<1> QED BY <1>3, <1>4 DEF BangsOfLen

LEMMA BangPathsAgree ==
    ASSUME NEW fresh, Good(fresh), NEW b, NEW c, SameBang(fresh, b, c)
    PROVE  SameWay(fresh, BangPath(b), BangPath(c))
<1>1. /\ b.rt \in Rights(fresh) /\ c.rt \in Rights(fresh) /\ b.to = c.to /\ b.to \in Hosts
      /\ b.first = c.first /\ b.first \in Firsts
  BY DEF SameBang, SameWay
<1> DEFINE r == BangPath(b)
           s == BangPath(c)
<1>2. CASE b.to \in {NoPath, Panic} \/ b.first = Null
  <2>1. r = Answer(b.rt, b.to) /\ s = Answer(c.rt, c.to)
    BY <1>1, <1>2 DEF BangPath
  <2> HIDE DEF r, s
  <2>2. SameWay(fresh, r, s)
    BY <1>1, <2>1, AnswerIs DEF SameWay
  <2> QED BY <2>2 DEF r, s
<1>3. CASE ~(b.to \in {NoPath, Panic} \/ b.first = Null)
  <2> DEFINE n == b.first.host
             y == b.first.path
             t == b.rt
             u == c.rt
  <2>1. n \in Hosts /\ y \in Hosts
    BY <1>1, <1>3 DEF Firsts
  <2>2. r = HostPath[<<t, n, y>>] /\ s = HostPath[<<u, n, y>>]
    BY <1>1, <1>3 DEF BangPath
  <2>3. t \in Rights(fresh) /\ u \in Rights(fresh)
    BY <1>1
  <2> HIDE DEF r, s, n, y, t, u
  <2>4. r.rt \in Rights(fresh) /\ r.to = PathAnswer(fresh, n, y) /\ r.to \in Hosts
    BY <2>1, <2>2, <2>3, PathsStay
  <2>5. s.rt \in Rights(fresh) /\ s.to = PathAnswer(fresh, n, y)
    BY <2>1, <2>2, <2>3, PathsStay
  <2>6. SameWay(fresh, r, s)
    BY <2>4, <2>5 DEF SameWay
  <2> QED BY <2>6 DEF r, s
<1> QED BY <1>2, <1>3

LEMMA PathsAgree ==
    ASSUME NEW fresh, Good(fresh), NEW t \in Rights(fresh), NEW u \in Rights(fresh),
           NEW a \in Addresses
    PROVE  SameWay(fresh, PathOf(t, a), PathOf(u, a))
<1> DEFINE v == a.via
           r == rfc_route[<<t, v, E_mailserv>>]
           s == rfc_route[<<u, v, E_mailserv>>]
           x == PathOf(t, a)
           y == PathOf(u, a)
<1>1. v \in Seq(Hosts) /\ E_mailserv \in Hosts
  BY AddressIs, WordsAre
<1>2. x = PathFrom(r, a) /\ y = PathFrom(s, a)
  BY DEF PathOf
<1> HIDE DEF v
<1>3. SameWay(fresh, r, s)
  BY <1>1, RoutesAgree DEF RoutesAlike
<1> HIDE DEF r, s, x, y
<1>4. r.rt \in Rights(fresh) /\ s.rt \in Rights(fresh) /\ r.to = s.to /\ r.to \in Hosts
  BY <1>3 DEF SameWay
<1>5. CASE r.to \in {NoPath, Panic}
  <2>1. x = r /\ y = s
    BY <1>2, <1>4, <1>5 DEF PathFrom
  <2> QED BY <1>3, <2>1 DEF x, y
<1> DEFINE w == r.rt
           z == s.rt
           b == r.to
<1>6. w \in Rights(fresh) /\ z \in Rights(fresh) /\ b \in Hosts /\ s.to = b
  BY <1>4
<1>7. CASE r.to \notin {NoPath, Panic} /\ a.at # Null
  <2> DEFINE n == a.at
  <2>1. n \in Hosts
    BY <1>7, AddressIs
  <2>2. x = HostPath[<<w, n, b>>] /\ y = HostPath[<<z, n, b>>]
    BY <1>2, <1>4, <1>7 DEF PathFrom
  <2> HIDE DEF n, w, z, b
  <2>3. x.rt \in Rights(fresh) /\ x.to = PathAnswer(fresh, n, b) /\ x.to \in Hosts
    BY <1>6, <2>1, <2>2, PathsStay
  <2>4. y.rt \in Rights(fresh) /\ y.to = PathAnswer(fresh, n, b)
    BY <1>6, <2>1, <2>2, PathsStay
  <2>5. SameWay(fresh, x, y)
    BY <2>3, <2>4 DEF SameWay
  <2> QED BY <2>5 DEF x, y
<1>8. CASE r.to \notin {NoPath, Panic} /\ a.at = Null
  <2> DEFINE n == a.bang
             c == BangRoute[<<w, n, b, Null>>]
             d == BangRoute[<<z, n, b, Null>>]
  <2>1. n \in Seq(Hosts) /\ Null \in Firsts
    BY AddressIs DEF Firsts
  <2>2. x = BangPath(c) /\ y = BangPath(d)
    BY <1>2, <1>4, <1>8 DEF PathFrom
  <2> HIDE DEF n, w, z, b
  <2>3. SameBang(fresh, c, d)
    BY <1>6, <2>1, BangsAgree DEF BangsAlike
  <2> HIDE DEF c, d
  <2>4. SameWay(fresh, x, y)
    BY <2>2, <2>3, BangPathsAgree
  <2> QED BY <2>4 DEF x, y
<1> QED BY <1>5, <1>7, <1>8

SameNode(fresh, r, s) ==
    r.rt \in Rights(fresh) /\ s.rt \in Rights(fresh) /\ r.user = s.user /\ r.path = s.path

LEMMA RightHosts ==
    ASSUME NEW fresh, NEW tab \in Rights(fresh), NEW new \in Tables, new.hosts = tab.hosts
    PROVE  new \in Rights(fresh)
<1>1. NamesRight(fresh, tab) /\ ViasOf(fresh, tab, DOMAIN fresh.hosts)
  BY DEF Rights
<1>2. ASSUME NEW j \in DOMAIN fresh.hosts PROVE NameAs(fresh, new, j) /\ ViaAs(fresh, new, j)
  <2>1. NameAs(fresh, tab, j) /\ ViaAs(fresh, tab, j)
    BY <1>1 DEF NamesRight, NamesOf, ViasOf
  <2> QED BY <2>1 DEF NameAs, ViaAs
<1>3. SameHosts(fresh.hosts, new.hosts)
  BY <1>1 DEF NamesRight
<1> QED BY <1>2, <1>3 DEF Rights, NamesRight, NamesOf, ViasOf

LEMMA ParsedAlike ==
    ASSUME NEW fresh, Good(fresh), NEW a \in Addresses, Delimited(a),
           NEW p, NEW q, SameWay(fresh, p, q), NEW r, NEW s, r = Parsed(a, p), s = Parsed(a, q)
    PROVE  SameNode(fresh, r, s)
<1>1. /\ p.rt \in Rights(fresh) /\ q.rt \in Rights(fresh) /\ p.to = q.to /\ p.to \in Hosts
  BY DEF SameWay
<1>2. CASE p.to \in {NoPath, Panic}
  <2>1. r = [user |-> a, node |-> E_domain, rt |-> p.rt,
             path |-> IF p.to = Panic THEN Panic ELSE E_nodename]
    BY <1>2 DEF Parsed
  <2>2. s = [user |-> a, node |-> E_domain, rt |-> q.rt,
             path |-> IF p.to = Panic THEN Panic ELSE E_nodename]
    BY <1>1, <1>2 DEF Parsed
  <2> QED BY <1>1, <2>1, <2>2 DEF SameNode
<1>3. CASE p.to \notin {NoPath, Panic}
  <2> DEFINE v == p.rt
             w == q.rt
             n == Host(a)
             k == HostAlias[<<v, n>>]
             l == HostAlias[<<w, n>>]
  <2>1. n \in Hosts
    BY HostOfIs
  <2>2. r = AtNode(a, p, k) /\ s = AtNode(a, q, l)
    BY <1>1, <1>3 DEF Parsed
  <2>3. v \in Rights(fresh) /\ w \in Rights(fresh)
    BY <1>1
  <2> HIDE DEF v, w, n
  <2>4. k.rt \in Rights(fresh) /\ k.to = AliasAnswer(fresh, n)
    BY <2>1, <2>3, AliasStays
  <2>5. l.rt \in Rights(fresh) /\ l.to = AliasAnswer(fresh, n)
    BY <2>1, <2>3, AliasStays
  <2> HIDE DEF k, l
  <2>6. SameHosts(fresh.hosts, k.rt.hosts) /\ SameHosts(fresh.hosts, l.rt.hosts)
    BY <2>4, <2>5 DEF Rights, NamesRight
  <2>7. checkname(k.rt.hosts, k.to) = checkname(l.rt.hosts, l.to)
    BY <2>4, <2>5, <2>6, CheckSame
  <2>8. Away(p, k) <=> Away(q, l)
    BY <1>1, <2>7 DEF Away
  <2>9. r = [user |-> User(a), node |-> k.to, rt |-> k.rt,
             path |-> IF Away(p, k) THEN E_mailserv ELSE p.to]
    BY <2>2 DEF AtNode
  <2>10. s = [user |-> User(a), node |-> l.to, rt |-> l.rt,
              path |-> IF Away(q, l) THEN E_mailserv ELSE q.to]
    BY <2>2 DEF AtNode
  <2>11. (IF Away(p, k) THEN E_mailserv ELSE p.to) = (IF Away(q, l) THEN E_mailserv ELSE q.to)
    BY <1>1, <2>8
  <2> QED BY <2>4, <2>5, <2>9, <2>10, <2>11 DEF SameNode
<1> QED BY <1>2, <1>3

\* The answer that a table remembers is the one that the fresh table gives.
LastRight(fresh, tab) ==
    tab.last # Null =>
        /\ Delimited(tab.last.of)
        /\ tab.last.user = user_at_node(fresh, tab.last.of).user
        /\ tab.last.path = user_at_node(fresh, tab.last.of).path

Ready(fresh) == {tab \in Rights(fresh) : LastRight(fresh, tab)}

LEMMA FreshReady == ASSUME NEW fresh, Good(fresh) PROVE fresh \in Ready(fresh)
BY FreshRight, GoodIs, FreshTableIs DEF Ready, LastRight

LEMMA AskedNode ==
    ASSUME NEW tab \in Tables, NEW a \in Addresses, Delimited(a), ~Cached(tab, a),
           NEW p, p = PathOf(tab, a), NEW s, s = Parsed(a, p), NEW r, r = user_at_node(tab, a)
    PROVE  /\ r.rt \in Tables /\ r.user = s.user /\ r.path = s.path /\ r.rt.hosts = s.rt.hosts
           /\ r.rt.last.of = a
           /\ r.rt.last.user = s.user /\ r.rt.last.path = s.path
<1>1. r = Remembered(s, a)
  BY DEF user_at_node, Cached
<1>2. p.rt \in Tables /\ p.to \in Hosts
  BY PathOfIs
<1>3. /\ s.rt \in Tables /\ s.user \in Addresses /\ s.node \in Hosts /\ s.path \in Hosts
      /\ s = [user |-> s.user, node |-> s.node, rt |-> s.rt, path |-> s.path]
  BY <1>2, ParsedIs
<1> DEFINE l == [of |-> a, user |-> s.user, node |-> s.node, path |-> s.path]
<1>4. /\ r.rt \in Tables /\ r.user = s.user /\ r.path = s.path
      /\ r.rt.last = l /\ r.rt.hosts = s.rt.hosts
  BY <1>1, <1>3, RememberedIs
<1>5. l.of = a /\ l.user = s.user /\ l.path = s.path
  OBVIOUS
<1> HIDE DEF l
<1> QED BY <1>4, <1>5

LEMMA NodeAnswer ==
    ASSUME NEW fresh, Good(fresh), NEW tab \in Ready(fresh), NEW a \in Addresses,
           NEW r, r = user_at_node(tab, a)
    PROVE  /\ r.rt \in Ready(fresh) /\ r.user \in Addresses /\ r.path \in Hosts
           /\ r.path = user_at_node(fresh, a).path /\ r.user = user_at_node(fresh, a).user
<1> DEFINE s == user_at_node(fresh, a)
<1>1. tab \in Rights(fresh) /\ LastRight(fresh, tab) /\ tab \in Tables
  BY DEF Ready, Rights
<1>2. fresh \in Rights(fresh) /\ fresh \in Tables /\ fresh.last = Null
  BY FreshRight, GoodIs, FreshTableIs
<1>3. r.user \in Addresses /\ r.path \in Hosts
  BY <1>1, NodeIs
<1>4. CASE ~Delimited(a)
  <2>1. r.rt = tab /\ r.user = a /\ r.path = E_nodename
    BY <1>1, <1>4, NodeIs
  <2>2. s.user = a /\ s.path = E_nodename
    BY <1>2, <1>4, NodeIs
  <2> QED BY <1>3, <2>1, <2>2
<1>5. CASE Delimited(a) /\ Cached(tab, a)
  <2>1. r.rt = tab /\ r.user = tab.last.user /\ r.path = tab.last.path
    BY <1>1, <1>5, NodeIs
  <2>2. tab.last.user = s.user /\ tab.last.path = s.path
    BY <1>1, <1>5 DEF LastRight, Cached
  <2> QED BY <1>3, <2>1, <2>2
<1>6. CASE Delimited(a) /\ ~Cached(tab, a)
  <2> DEFINE p == PathOf(tab, a)
             q == PathOf(fresh, a)
             x == Parsed(a, p)
             y == Parsed(a, q)
  <2>1. ~Cached(fresh, a)
    BY <1>2 DEF Cached
  <2>2. SameWay(fresh, p, q)
    BY <1>1, <1>2, PathsAgree
  <2>3. SameNode(fresh, x, y)
    <3> HIDE DEF p, q
    <3> QED BY <1>6, <2>2, ParsedAlike
  <2>4. /\ r.rt \in Tables /\ r.user = x.user /\ r.path = x.path /\ r.rt.hosts = x.rt.hosts
        /\ r.rt.last.of = a
        /\ r.rt.last.user = x.user /\ r.rt.last.path = x.path
    BY <1>1, <1>6, AskedNode
  <2>5. s.user = y.user /\ s.path = y.path
    BY <1>2, <1>6, <2>1, AskedNode
  <2> HIDE DEF x, y, s
  <2>6. /\ x.rt \in Rights(fresh) /\ x.user = y.user /\ x.path = y.path
    BY <2>3 DEF SameNode
  <2>7. r.rt \in Rights(fresh)
    BY <2>4, <2>6, RightHosts
  <2>8. LastRight(fresh, r.rt)
    BY <1>6, <2>4, <2>5, <2>6 DEF LastRight, s
  <2> QED BY <1>3, <2>4, <2>5, <2>6, <2>7, <2>8 DEF Ready, s
<1> QED BY <1>4, <1>5, <1>6

LeadReady(fresh, r) == r.rt \in Ready(fresh) /\ r.addr \in Addresses /\ r.kind \in Kinds

LeadsReady(fresh, a) == \A tab \in Ready(fresh) : LeadReady(fresh, Leading[<<tab, a>>])

LEMMA LeadAt ==
    ASSUME NEW tab \in Tables, NEW a \in Addresses
    PROVE  Leading[<<tab, a>>] = LeadTurn(Leading, user_at_node(tab, a), a)
<1> DEFINE q == <<tab, a>>
<1>1. q \in LeadArgs /\ q[1] = tab /\ q[2] = a
  BY DEF LeadArgs
<1> HIDE DEF q
<1>2. Leading[q] = LeadBody(Leading)[q]
  BY LeadingIs
<1>3. LeadBody(Leading)[q] = LeadTurn(Leading, user_at_node(q[1], q[2]), q[2])
  BY <1>1 DEF LeadBody
<1>4. Leading[q] = LeadTurn(Leading, user_at_node(tab, a), a)
  BY <1>1, <1>2, <1>3
<1> QED BY <1>4 DEF q

LEMMA LeadOn ==
    ASSUME NEW fresh, Good(fresh), NEW a \in Addresses,
           Delimited(a) => LeadsReady(fresh, User(a))
    PROVE  LeadsReady(fresh, a)
<1> SUFFICES ASSUME NEW tab \in Ready(fresh) PROVE LeadReady(fresh, Leading[<<tab, a>>])
  BY DEF LeadsReady
<1> DEFINE r == user_at_node(tab, a)
           x == Leading[<<tab, a>>]
<1>1. tab \in Tables
  BY DEF Ready, Rights
<1>2. /\ r.rt \in Ready(fresh) /\ r.user \in Addresses
      /\ r.user = user_at_node(fresh, a).user
  BY NodeAnswer
<1>3. x = LeadTurn(Leading, r, a)
  BY <1>1, LeadAt
<1>4. Delimited(a) => user_at_node(fresh, a).user \in {a, User(a)}
  <2>1. fresh \in Tables /\ ~Cached(fresh, a)
    BY GoodIs, FreshTableIs DEF Cached
  <2> QED BY <2>1, NodeIs
<1> HIDE DEF r, x
<1>5. CASE LeadsOn(r, a)
  <2>1. x = Leading[<<r.rt, r.user>>]
    BY <1>3, <1>5, LeadTurnIs
  <2>2. Delimited(a) /\ r.user = User(a)
    BY <1>2, <1>4, <1>5 DEF LeadsOn
  <2>3. LeadReady(fresh, Leading[<<r.rt, User(a)>>])
    BY <1>2, <2>2 DEF LeadsReady
  <2>4. LeadReady(fresh, x)
    BY <2>1, <2>2, <2>3
  <2> QED BY <2>4 DEF x
<1>6. CASE ~LeadsOn(r, a)
  <2>1. PICK k \in Kinds, u \in {a, r.user} : \A f : LeadTurn(f, r, a) = Lead(r, k, u)
    BY <1>6, LeadTurnIs, Zenon
  <2>2. x = Lead(r, k, u)
    BY <1>3, <2>1
  <2>3. r.rt \in Tables /\ u \in Addresses
    BY <1>2, <2>1 DEF Ready, Rights
  <2>4. x.rt = r.rt /\ x.kind = k /\ x.addr = u
    BY <2>2, <2>3, LeadIs
  <2>5. LeadReady(fresh, x)
    BY <1>2, <2>3, <2>4 DEF LeadReady
  <2> QED BY <2>5 DEF x
<1> QED BY <1>5, <1>6

LeadsOfSize(fresh, k) == \A a \in Addresses : Size(a) < k => LeadsReady(fresh, a)

LEMMA LeadsAnswer ==
    ASSUME NEW fresh, Good(fresh), NEW tab \in Ready(fresh), NEW a \in Addresses,
           NEW r, r = remote_address(tab, a)
    PROVE  r.rt \in Ready(fresh) /\ r.addr \in Addresses /\ r.kind \in Kinds
<1> DEFINE S == {k \in Nat : LeadsOfSize(fresh, k)}
<1>1. 0 \in S
  <2>1. \A b \in Addresses : ~(Size(b) < 0)
    BY SizeIs
  <2> QED BY <2>1 DEF LeadsOfSize
<1>2. ASSUME NEW k \in Nat, k \in S PROVE k + 1 \in S
  <2> SUFFICES ASSUME NEW b \in Addresses, Size(b) < k + 1 PROVE LeadsReady(fresh, b)
    BY DEF LeadsOfSize
  <2>1. Size(b) \in Nat
    BY SizeIs
  <2>2. Delimited(b) => LeadsReady(fresh, User(b))
    <3> SUFFICES ASSUME Delimited(b) PROVE LeadsReady(fresh, User(b))
      OBVIOUS
    <3>1. Size(User(b)) < Size(b) /\ User(b) \in Addresses
      BY UserShorter, UserIs
    <3>2. Size(User(b)) \in Nat
      BY <3>1, SizeIs
    <3>3. Size(User(b)) < k
      BY <2>1, <3>1, <3>2
    <3> QED BY <1>2, <3>1, <3>3 DEF LeadsOfSize
  <2> QED BY <2>2, LeadOn
<1>3. \A k \in Nat : k \in S
  <2> HIDE DEF S
  <2> QED BY <1>1, <1>2, NatInductive
<1>4. Size(a) \in Nat /\ Size(a) + 1 \in Nat /\ Size(a) < Size(a) + 1
  BY SizeIs
<1>5. LeadsReady(fresh, a)
  BY <1>3, <1>4 DEF LeadsOfSize
<1>6. LeadReady(fresh, r)
  BY <1>5 DEF LeadsReady, remote_address
<1> QED BY <1>6 DEF LeadReady

-----------------------------------------------------------------------------
(***************************************************************************)
(* rmail: all the addresses of a list for uux are on its path.             *)
(***************************************************************************)
LEMMA GreatestOf ==
    ASSUME NEW n \in Nat, NEW K \in SUBSET (1..n), K # {}
    PROVE  Max(K) \in K
<1> DEFINE m == [k \in K |-> n - k]
           B == K
<1>1. m \in [K -> Nat]
  OBVIOUS
<1>2. \E x \in K : x \in B
  OBVIOUS
<1> HIDE DEF m
<1>3. PICK x \in K : x \in B /\ \A y \in K : m[y] < m[x] => y \notin B
  <2> HIDE DEF B
  <2> QED BY <1>1, <1>2, LeastOf
<1>4. ASSUME NEW y \in K PROVE x >= y
  <2>1. ~(m[y] < m[x])
    BY <1>3
  <2>2. m[y] = n - y /\ m[x] = n - x /\ x \in 1..n /\ y \in 1..n
    BY DEF m
  <2> QED BY <2>1, <2>2
<1>5. \E z \in K : \A y \in K : z >= y
  BY <1>4
<1> QED BY <1>5 DEF Max

LEMMA SmallestOf ==
    ASSUME NEW n \in Nat, NEW K \in SUBSET (1..n), K # {}
    PROVE  Min(K) \in K
<1> DEFINE m == [k \in K |-> k]
           B == K
<1>1. m \in [K -> Nat]
  OBVIOUS
<1>2. \E x \in K : x \in B
  OBVIOUS
<1> HIDE DEF m
<1>3. PICK x \in K : x \in B /\ \A y \in K : m[y] < m[x] => y \notin B
  <2> HIDE DEF B
  <2> QED BY <1>1, <1>2, LeastOf
<1>4. ASSUME NEW y \in K PROVE x =< y
  <2>1. ~(m[y] < m[x])
    BY <1>3
  <2>2. m[y] = y /\ m[x] = x /\ x \in 1..n /\ y \in 1..n
    BY DEF m
  <2> QED BY <2>1, <2>2
<1>5. \E z \in K : \A y \in K : z =< y
  BY <1>4
<1> QED BY <1>5 DEF Min

\* An address of which a part of the bang path is taken is one.
LEMMA Shortened ==
    ASSUME NEW a \in Addresses, NEW b \in Seq(Hosts)
    PROVE  /\ [a EXCEPT !.via = <<>>, !.bang = b] \in Addresses
           /\ a.via = <<>> => [a EXCEPT !.bang = b] \in Addresses
<1> DEFINE v == a.via
           g == a.bang
           m == a.mark
           u == a.user
           h == a.at
           k == [a EXCEPT !.via = <<>>]
<1>1. /\ v \in Seq(Hosts) /\ m \in {"", "+", "\\"}
      /\ u \in STRING \cup {Null} /\ h \in Hosts \cup {Null}
      /\ a = Address(v, g, m, u, h)
  BY AddressIs, AddressWhole
<1>2. <<>> \in Seq(Hosts)
  BY EmptySeq
<1>3. Address(<<>>, b, m, u, h) \in Addresses
  BY <1>1, <1>2, AddressMade
<1>4. [a EXCEPT !.via = <<>>, !.bang = b] = [k EXCEPT !.bang = b]
  BY Zenon
<1> HIDE DEF v, g, m, u, h
<1>5. a = [via |-> v, bang |-> g, mark |-> m, user |-> u, at |-> h]
  BY <1>1 DEF Address
<1>6. k = [via |-> <<>>, bang |-> g, mark |-> m, user |-> u, at |-> h]
  <2>2. [[via |-> v, bang |-> g, mark |-> m, user |-> u, at |-> h] EXCEPT !.via = <<>>]
          = [via |-> <<>>, bang |-> g, mark |-> m, user |-> u, at |-> h]
    OBVIOUS
  <2> QED BY <1>5, <2>2, Zenon
<1> HIDE DEF k
<1>7. [k EXCEPT !.bang = b] = Address(<<>>, b, m, u, h)
  BY <1>6 DEF Address
<1>8. [[via |-> v, bang |-> g, mark |-> m, user |-> u, at |-> h] EXCEPT !.bang = b]
        = [via |-> v, bang |-> b, mark |-> m, user |-> u, at |-> h]
  OBVIOUS
<1>9. [a EXCEPT !.bang = b] = Address(v, b, m, u, h)
  BY <1>5, <1>8, Zenon DEF Address
<1> QED BY <1>3, <1>4, <1>7, <1>9 DEF v

LEMMA StrippedIs == ASSUME NEW a \in Addresses PROVE Stripped(a) \in Addresses
<1> DEFINE b == a.bang
           others == {k \in DOMAIN b : b[k] \notin {E_nodename, E_domain}}
           s == IF others = {} THEN <<>> ELSE SubSeq(b, Min(others), Len(b))
<1>1. b \in Seq(Hosts) /\ Len(b) \in Nat /\ DOMAIN b = 1..Len(b)
  <2>1. b \in Seq(Hosts)
    BY AddressIs
  <2> HIDE DEF b
  <2> QED BY <2>1
<1>2. Stripped(a) = IF a.via # <<>> THEN a ELSE [a EXCEPT !.bang = s]
  BY DEF Stripped
<1> HIDE DEF b
<1>3. s \in Seq(Hosts)
  <2>1. CASE others = {}
    BY <2>1, EmptySeq
  <2>2. CASE others # {}
    <3>1. others \in SUBSET (1..Len(b))
      BY <1>1
    <3>2. Min(others) \in 1..Len(b)
      BY <1>1, <2>2, <3>1, SmallestOf
    <3> DEFINE m == Min(others)
    <3> HIDE DEF others, m
    <3>3. SubSeq(b, m, Len(b)) \in Seq(Hosts)
      BY <1>1, <3>2 DEF m
    <3> QED BY <2>2, <3>3 DEF m
  <2> QED BY <2>1, <2>2
<1> HIDE DEF s
<1> QED BY <1>2, <1>3, Shortened

LEMMA AfterOwnIs == ASSUME NEW a \in Addresses PROVE AfterOwn(a) \in Addresses
<1> DEFINE b == a.bang
           ours == {k \in DOMAIN b : /\ b[k] \in {E_nodename, E_domain}
                                     /\ k > 1 \/ a.via = <<>>}
           s == SubSeq(b, Max(ours) + 1, Len(b))
<1>1. b \in Seq(Hosts) /\ Len(b) \in Nat /\ DOMAIN b = 1..Len(b)
  <2>1. b \in Seq(Hosts)
    BY AddressIs
  <2> HIDE DEF b
  <2> QED BY <2>1
<1>2. AfterOwn(a) = IF ours = {} THEN a ELSE [a EXCEPT !.via = <<>>, !.bang = s]
  BY DEF AfterOwn
<1> HIDE DEF b
<1>3. CASE ours = {}
  BY <1>2, <1>3
<1>4. CASE ours # {}
  <2>1. ours \in SUBSET (1..Len(b))
    BY <1>1
  <2>2. Max(ours) \in 1..Len(b)
    BY <1>1, <1>4, <2>1, GreatestOf
  <2> DEFINE m == Max(ours)
  <2> HIDE DEF ours, m
  <2>3. SubSeq(b, m + 1, Len(b)) \in Seq(Hosts)
    BY <1>1, <2>2 DEF m
  <2>4. s \in Seq(Hosts)
    BY <2>3 DEF m
  <2> HIDE DEF s
  <2> QED BY <1>2, <1>4, <2>4, Shortened
<1> QED BY <1>3, <1>4

\* The addresses are on the path p.
OnWay(fresh, addrs, p) == \A k \in DOMAIN addrs : user_at_node(fresh, addrs[k]).path = p

CallWay(fresh, c) ==
    /\ c.addrs \in Seq(Addresses) /\ c.addrs # <<>>
    /\ c.kind = "remote" => OnWay(fresh, c.addrs, user_at_node(fresh, Head(c.addrs)).path)

FrameWay(fresh, f) ==
    /\ {"rest", "pcoll", "kind", "path"} \subseteq DOMAIN f
    /\ f.rest \in Seq(Addresses) /\ f.pcoll \in Seq(Addresses)
    /\ f.rest # <<>> => f.pcoll # <<>>
    /\ f.kind = "remote" => OnWay(fresh, f.pcoll, f.path)

OutWay(fresh, e) == e.kind = "remote" => OnWay(fresh, e.addrs, e.path)

StackWay(fresh, s) == Proper(s) /\ \A j \in DOMAIN s : FrameWay(fresh, s[j])
SentWay(fresh, s) == Proper(s) /\ \A k \in DOMAIN s : OutWay(fresh, s[k])

\* What lmail and sendone have in hand, and what they have handed on.
WayInv(fresh) ==
    /\ case \in Cases /\ next \in Nat \ {0}
    /\ rt \in Ready(fresh)
    /\ remotes.addrs \in Seq(Addresses) /\ OnWay(fresh, remotes.addrs, remotes.path)
    /\ call # Null => CallWay(fresh, call)
    /\ StackWay(fresh, stack)
    /\ SentWay(fresh, out)

LEMMA CaseIs ==
    ASSUME case \in Cases
    PROVE  /\ case.args \in Seq(Addresses) /\ case.returns \in Seq(Addresses)
           /\ \A u \in DOMAIN case.forward : case.forward[u] \in Seq(Addresses)
           /\ case.systems \in Seq(HostNames) /\ case.paths \in Seq(PathLines)
           /\ Postmaster \in STRING
BY CasesAssumption, MailAssumption

\* One address alone, and one more on the same path.
LEMMA OneOnWay ==
    ASSUME NEW fresh, NEW a \in Addresses, NEW p, user_at_node(fresh, a).path = p
    PROVE  <<a>> \in Seq(Addresses) /\ <<a>> # <<>> /\ OnWay(fresh, <<a>>, p) /\ Head(<<a>>) = a
<1>1. <<a>> \in Seq(Addresses) /\ <<a>> # <<>> /\ DOMAIN <<a>> = {1} /\ <<a>>[1] = a /\ Head(<<a>>) = a
  OBVIOUS
<1> QED BY <1>1 DEF OnWay

LEMMA MoreOnWay ==
    ASSUME NEW fresh, NEW s \in Seq(Addresses), NEW p, OnWay(fresh, s, p),
           NEW a \in Addresses, user_at_node(fresh, a).path = p
    PROVE  /\ Append(s, a) \in Seq(Addresses) /\ Append(s, a) # <<>>
           /\ OnWay(fresh, Append(s, a), p)
<1> DEFINE t == Append(s, a)
<1>1. /\ t \in Seq(Addresses) /\ t # <<>>
      /\ \A k \in DOMAIN t : t[k] = a \/ (k \in DOMAIN s /\ t[k] = s[k])
  OBVIOUS
<1> HIDE DEF t
<1>2. OnWay(fresh, t, p)
  BY <1>1 DEF OnWay
<1> QED BY <1>1, <1>2 DEF t

LEMMA WayOfHead ==
    ASSUME NEW fresh, NEW s \in Seq(Addresses), s # <<>>, NEW p, OnWay(fresh, s, p)
    PROVE  Head(s) \in Addresses /\ user_at_node(fresh, Head(s)).path = p
<1>1. 1 \in DOMAIN s /\ Head(s) = s[1] /\ s[1] \in Addresses
  OBVIOUS
<1> QED BY <1>1 DEF OnWay

LEMMA CallIs ==
    ASSUME NEW a, NEW k, NEW h, NEW f
    PROVE  Call(a, k, h, f).addrs = a /\ Call(a, k, h, f).kind = k
BY DEF Call

\* A list that is sent.
LEMMA CallOnWay ==
    ASSUME NEW fresh, NEW s \in Seq(Addresses), s # <<>>, NEW p, NEW k, NEW h, NEW f,
           k = "remote" => OnWay(fresh, s, p)
    PROVE  CallWay(fresh, Call(s, k, h, f))
<1> DEFINE c == Call(s, k, h, f)
<1>1. c.addrs = s /\ c.kind = k
  BY CallIs
<1> HIDE DEF c
<1>2. k = "remote" => user_at_node(fresh, Head(s)).path = p
  BY WayOfHead
<1>3. CallWay(fresh, c)
  BY <1>1, <1>2 DEF CallWay
<1> QED BY <1>3 DEF c

LEMMA LoneCall ==
    ASSUME NEW fresh, NEW a \in Addresses, NEW k, NEW h, NEW f
    PROVE  CallWay(fresh, Call(<<a>>, k, h, f))
<1> DEFINE s == <<a>>
           p == user_at_node(fresh, a).path
<1>1. s \in Seq(Addresses) /\ s # <<>> /\ OnWay(fresh, s, p)
  BY OneOnWay
<1> HIDE DEF s, p
<1>2. CallWay(fresh, Call(s, k, h, f))
  BY <1>1, CallOnWay
<1> QED BY <1>2 DEF s

\* The address that sendone works for.
LEMMA AddrIs ==
    ASSUME NEW fresh, Good(fresh), WayInv(fresh), call # Null
    PROVE  /\ Addr \in Addresses
           /\ call.kind = "remote" => Addr = Head(call.addrs)
           /\ \A r : r = user_at_node(rt, Addr) =>
                 r.rt \in Ready(fresh) /\ r.path = user_at_node(fresh, Addr).path
<1>1. call.addrs \in Seq(Addresses) /\ call.addrs # <<>> /\ rt \in Ready(fresh)
  BY DEF WayInv, CallWay
<1>2. Head(call.addrs) \in Addresses
  BY <1>1
<1>3. user_at_node(rt, Head(call.addrs)).user \in Addresses
  BY <1>1, <1>2, NodeAnswer
<1>4. Addr \in Addresses /\ (call.kind = "remote" => Addr = Head(call.addrs))
  BY <1>2, <1>3 DEF Addr
<1> DEFINE a == Addr
<1> HIDE DEF a
<1>5. a \in Addresses
  BY <1>4 DEF a
<1>6. \A r : r = user_at_node(rt, a) =>
                 r.rt \in Ready(fresh) /\ r.path = user_at_node(fresh, a).path
  BY <1>1, <1>5, NodeAnswer
<1> QED BY <1>4, <1>6 DEF a

LEMMA LastOfStack ==
    ASSUME NEW fresh, StackWay(fresh, stack), stack # <<>>
    PROVE  FrameWay(fresh, Top) /\ StackWay(fresh, Front(stack))
<1>1. /\ Proper(Front(stack)) /\ Len(stack) \in Nat \ {0} /\ DOMAIN stack = 1..Len(stack)
      /\ DOMAIN Front(stack) = 1..(Len(stack) - 1)
      /\ \A j \in 1..(Len(stack) - 1) : Front(stack)[j] = stack[j]
      /\ Last(stack) = stack[Len(stack)]
  BY FrontAndLast DEF StackWay
<1>2. /\ Top = stack[Len(stack)] /\ Len(stack) \in DOMAIN stack
      /\ \A j \in DOMAIN Front(stack) : j \in DOMAIN stack /\ Front(stack)[j] = stack[j]
  BY <1>1 DEF Top
<1> QED BY <1>1, <1>2 DEF StackWay

LEMMA PutOnStack ==
    ASSUME NEW fresh, NEW s, StackWay(fresh, s), NEW f, FrameWay(fresh, f)
    PROVE  StackWay(fresh, Append(s, f))
<1>1. /\ Proper(Append(s, f)) /\ Len(s) \in Nat
      /\ DOMAIN s = 1..Len(s) /\ DOMAIN Append(s, f) = 1..(Len(s) + 1)
      /\ \A j \in 1..Len(s) : Append(s, f)[j] = s[j]
      /\ Append(s, f)[Len(s) + 1] = f
  BY Appended DEF StackWay
<1>2. ASSUME NEW j \in DOMAIN Append(s, f)
      PROVE  Append(s, f)[j] = f \/ (j \in DOMAIN s /\ Append(s, f)[j] = s[j])
  BY <1>1
<1> QED BY <1>1, <1>2 DEF StackWay

LEMMA SentMore ==
    ASSUME NEW fresh, NEW s, SentWay(fresh, s), NEW f, OutWay(fresh, f)
    PROVE  SentWay(fresh, Append(s, f))
<1>1. /\ Proper(Append(s, f)) /\ Len(s) \in Nat
      /\ DOMAIN s = 1..Len(s) /\ DOMAIN Append(s, f) = 1..(Len(s) + 1)
      /\ \A j \in 1..Len(s) : Append(s, f)[j] = s[j]
      /\ Append(s, f)[Len(s) + 1] = f
  BY Appended DEF SentWay
<1>2. ASSUME NEW j \in DOMAIN Append(s, f)
      PROVE  Append(s, f)[j] = f \/ (j \in DOMAIN s /\ Append(s, f)[j] = s[j])
  BY <1>1
<1> QED BY <1>1, <1>2 DEF SentWay

-----------------------------------------------------------------------------
\* sendone.
LEMMA WayInit ==
    ASSUME NEW fresh, Good(fresh), MailInit, rt = fresh
    PROVE  WayInv(fresh)
<1>1. <<>> \in Seq(Addresses)
  BY EmptySeq
<1>2. StackWay(fresh, <<>>) /\ SentWay(fresh, <<>>) /\ OnWay(fresh, <<>>, NoPath)
  BY ProperSeq DEF StackWay, SentWay, OnWay
<1>3. /\ case \in Cases /\ next = 1 /\ call = Null /\ stack = <<>> /\ out = <<>>
      /\ remotes.addrs = <<>> /\ remotes.path = NoPath
  BY DEF MailInit, Nobody
<1>4. rt \in Ready(fresh)
  BY FreshReady
<1> QED BY <1>1, <1>2, <1>3, <1>4 DEF WayInv

LEMMA WayNoCall ==
    ASSUME NEW fresh, Good(fresh), WayInv(fresh), TooManyHops \/ NoSuchUser
    PROVE  WayInv(fresh)'
<1>1. call' = Null /\ UNCHANGED <<case, rt, next, remotes, stack, out>>
  BY DEF TooManyHops, NoSuchUser, Return, lmailvars
<1> QED BY <1>1 DEF WayInv

LEMMA WayWritten ==
    ASSUME NEW fresh, Good(fresh), WayInv(fresh), NEW x, Written(x)
    PROVE  WayInv(fresh)'
<1>1. call # Null /\ call' = Null /\ UNCHANGED <<case, next, remotes, stack>>
  BY DEF Written, Delivers, Within, Return, lmailvars
<1>2. PICK r : /\ r = user_at_node(rt, Addr) /\ rt' = r.rt
               /\ out' = Append(out, [what |-> What, kind |-> call.kind, addrs |-> call.addrs,
                                      path |-> r.path, for |-> call.for, forwarded |-> stack # <<>>])
  BY DEF Written
<1> DEFINE e == [what |-> What, kind |-> call.kind, addrs |-> call.addrs,
                 path |-> r.path, for |-> call.for, forwarded |-> stack # <<>>]
<1>3. e.kind = call.kind /\ e.addrs = call.addrs /\ e.path = r.path
  OBVIOUS
<1>4. out' = Append(out, e)
  BY <1>2
<1> HIDE DEF e
<1>5. /\ r.rt \in Ready(fresh) /\ r.path = user_at_node(fresh, Addr).path
      /\ call.kind = "remote" => Addr = Head(call.addrs)
  BY <1>1, <1>2, AddrIs
<1>6. CallWay(fresh, call) /\ SentWay(fresh, out)
  BY <1>1 DEF WayInv
<1>7. OutWay(fresh, e)
  BY <1>3, <1>5, <1>6 DEF OutWay, CallWay
<1>8. SentWay(fresh, out')
  BY <1>4, <1>6, <1>7, SentMore
<1>9. rt' \in Ready(fresh)
  BY <1>2, <1>5
<1> QED BY <1>1, <1>8, <1>9 DEF WayInv

LEMMA WayUuxUnseen ==
    ASSUME NEW fresh, Good(fresh), WayInv(fresh), UuxUnseen
    PROVE  WayInv(fresh)'
<1>1. call # Null /\ call' = Null /\ UNCHANGED <<case, next, remotes, stack>>
  BY DEF UuxUnseen, Return, lmailvars
<1>2. PICK r : /\ r = user_at_node(rt, Addr) /\ rt' = r.rt
               /\ out' = Append(out, [what |-> "lost", kind |-> call.kind, addrs |-> call.addrs,
                                      path |-> r.path, for |-> call.for, forwarded |-> stack # <<>>])
  BY DEF UuxUnseen
<1> DEFINE e == [what |-> "lost", kind |-> call.kind, addrs |-> call.addrs,
                 path |-> r.path, for |-> call.for, forwarded |-> stack # <<>>]
<1>3. e.kind = call.kind /\ e.addrs = call.addrs /\ e.path = r.path
  OBVIOUS
<1>4. out' = Append(out, e)
  BY <1>2
<1> HIDE DEF e
<1>5. /\ r.rt \in Ready(fresh) /\ r.path = user_at_node(fresh, Addr).path
      /\ call.kind = "remote" => Addr = Head(call.addrs)
  BY <1>1, <1>2, AddrIs
<1>6. CallWay(fresh, call) /\ SentWay(fresh, out)
  BY <1>1 DEF WayInv
<1>7. OutWay(fresh, e)
  BY <1>3, <1>5, <1>6 DEF OutWay, CallWay
<1>8. SentWay(fresh, out')
  BY <1>4, <1>6, <1>7, SentMore
<1>9. rt' \in Ready(fresh)
  BY <1>2, <1>5
<1> QED BY <1>1, <1>8, <1>9 DEF WayInv

LEMMA WayNotWritten ==
    ASSUME NEW fresh, Good(fresh), WayInv(fresh), DeliverFails \/ ProgramRefuses
    PROVE  WayInv(fresh)'
<1>1. /\ call # Null /\ call' = Null /\ UNCHANGED <<case, next, remotes, stack, out>>
      /\ rt' = user_at_node(rt, Addr).rt
  BY DEF DeliverFails, ProgramRefuses, NotWritten, Delivers, Within, Return, lmailvars
<1> DEFINE r == user_at_node(rt, Addr)
<1>2. r.rt \in Ready(fresh)
  BY <1>1, AddrIs
<1> HIDE DEF r
<1>3. rt' \in Ready(fresh)
  BY <1>1, <1>2 DEF r
<1> QED BY <1>1, <1>3 DEF WayInv

\* An address that is looked up, and its path.
LookedUp(fresh, tab, a, r, p) ==
    /\ r.rt \in Ready(fresh) /\ r.addr \in Addresses /\ r.kind \in Kinds
    /\ p.rt \in Ready(fresh) /\ p.path = user_at_node(fresh, r.addr).path

LEMMA LookUp ==
    ASSUME NEW fresh, Good(fresh), NEW tab \in Ready(fresh), NEW a \in Addresses,
           NEW r, r = remote_address(tab, a), NEW p, p = user_at_node(r.rt, r.addr)
    PROVE  LookedUp(fresh, tab, a, r, p)
<1>1. r.rt \in Ready(fresh) /\ r.addr \in Addresses /\ r.kind \in Kinds
  BY LeadsAnswer
<1> DEFINE t == r.rt
           b == r.addr
<1>2. t \in Ready(fresh) /\ b \in Addresses /\ p = user_at_node(t, b)
  BY <1>1
<1> HIDE DEF t, b
<1>3. p.rt \in Ready(fresh) /\ p.path = user_at_node(fresh, b).path
  BY <1>2, NodeAnswer
<1> QED BY <1>1, <1>3 DEF LookedUp, b

\* The frame of a forward file that has been opened, and of one that goes on.
LEMMA FrameOpened ==
    ASSUME NEW fresh, NEW l \in Seq(Addresses), l # <<>>, NEW tab, NEW a, NEW r, NEW p,
           LookedUp(fresh, tab, a, r, p)
    PROVE  FrameWay(fresh, OpenedFrame(l, r, p))
<1> DEFINE f == OpenedFrame(l, r, p)
           x == <<r.addr>>
           y == Tail(l)
           z == ListPath(r, p)
<1>1. /\ x \in Seq(Addresses) /\ x # <<>>
      /\ OnWay(fresh, x, user_at_node(fresh, r.addr).path)
  BY OneOnWay DEF LookedUp
<1>2. y \in Seq(Addresses)
  OBVIOUS
<1>3. r.kind = "remote" => z = user_at_node(fresh, r.addr).path
  BY DEF ListPath, LookedUp
<1>4. f = [user |-> Addr.user, rest |-> y, pcoll |-> x, kind |-> r.kind,
           path |-> z, status |-> 0, hop |-> call.hop + 1, for |-> call.for, old |-> ProcessForward]
  BY DEF OpenedFrame
<1> HIDE DEF f, x, y, z
<1>5. /\ {"rest", "pcoll", "kind", "path"} \subseteq DOMAIN f
      /\ f.rest = y /\ f.pcoll = x /\ f.kind = r.kind /\ f.path = z
  BY <1>4
<1>6. FrameWay(fresh, f)
  BY <1>1, <1>2, <1>3, <1>5 DEF FrameWay
<1> QED BY <1>6 DEF f

LEMMA FrameGathered ==
    ASSUME NEW fresh, NEW f, FrameWay(fresh, f), f.rest # <<>>, NEW tab, NEW a, NEW r, NEW p,
           LookedUp(fresh, tab, a, r, p), Joins(f, r.kind, ListPath(r, p))
    PROVE  FrameWay(fresh, Gathered(f, r))
<1> DEFINE g == Gathered(f, r)
           x == Append(f.pcoll, r.addr)
           y == Tail(f.rest)
           h == [f EXCEPT !.rest = y]
<1>1. /\ r.kind = "remote" /\ f.kind = "remote" /\ f.path = user_at_node(fresh, r.addr).path
  BY DEF Joins, ListPath, LookedUp
<1>2. f.pcoll \in Seq(Addresses) /\ OnWay(fresh, f.pcoll, f.path) /\ r.addr \in Addresses
  BY <1>1 DEF FrameWay, LookedUp
<1>3. x \in Seq(Addresses) /\ x # <<>> /\ OnWay(fresh, x, f.path)
  <2> DEFINE s == f.pcoll
             b == r.addr
             q == f.path
  <2>1. s \in Seq(Addresses) /\ OnWay(fresh, s, q) /\ b \in Addresses /\ user_at_node(fresh, b).path = q
    BY <1>1, <1>2
  <2> HIDE DEF s, b, q
  <2>2. Append(s, b) \in Seq(Addresses) /\ Append(s, b) # <<>> /\ OnWay(fresh, Append(s, b), q)
    BY <2>1, MoreOnWay
  <2> QED BY <2>2 DEF s, b, q
<1>4. y \in Seq(Addresses)
  BY DEF FrameWay
<1>5. g = [h EXCEPT !.pcoll = x]
  <2>1. g = [f EXCEPT !.rest = Tail(f.rest), !.pcoll = Append(f.pcoll, r.addr)]
    BY DEF Gathered
  <2> QED BY <2>1, Zenon
<1>6. {"rest", "pcoll", "kind", "path"} \subseteq DOMAIN f
  BY DEF FrameWay
<1> HIDE DEF g, x, y, h
<1>7. /\ DOMAIN h = DOMAIN f /\ h.rest = y /\ h.kind = f.kind /\ h.path = f.path
  BY <1>6 DEF h
<1>8. /\ DOMAIN g = DOMAIN f /\ g.rest = y /\ g.pcoll = x /\ g.kind = f.kind /\ g.path = f.path
  BY <1>5, <1>6, <1>7
<1>9. FrameWay(fresh, g)
  BY <1>3, <1>4, <1>6, <1>8 DEF FrameWay
<1> QED BY <1>9 DEF g

LEMMA FrameAnew ==
    ASSUME NEW fresh, NEW f, FrameWay(fresh, f), f.rest # <<>>, NEW tab, NEW a, NEW r, NEW p,
           LookedUp(fresh, tab, a, r, p)
    PROVE  FrameWay(fresh, Anew(f, r, p))
<1> DEFINE g == Anew(f, r, p)
           x == <<r.addr>>
           y == Tail(f.rest)
           z == ListPath(r, p)
           w == r.kind
           h == [f EXCEPT !.rest = y]
           i == [h EXCEPT !.pcoll = x]
           j == [i EXCEPT !.kind = w]
<1>1. /\ x \in Seq(Addresses) /\ x # <<>>
      /\ OnWay(fresh, x, user_at_node(fresh, r.addr).path)
  BY OneOnWay DEF LookedUp
<1>2. y \in Seq(Addresses)
  BY DEF FrameWay
<1>3. w = "remote" => z = user_at_node(fresh, r.addr).path
  BY DEF ListPath, LookedUp
<1>4. g = [j EXCEPT !.path = z]
  <2>1. g = [f EXCEPT !.rest = Tail(f.rest), !.pcoll = <<r.addr>>, !.kind = r.kind,
                      !.path = ListPath(r, p)]
    BY DEF Anew
  <2> QED BY <2>1, Zenon
<1>5. {"rest", "pcoll", "kind", "path"} \subseteq DOMAIN f
  BY DEF FrameWay
<1> HIDE DEF g, x, y, z, w, h, i, j
<1>6. DOMAIN h = DOMAIN f /\ h.rest = y
  BY <1>5 DEF h
<1>7. DOMAIN i = DOMAIN f /\ i.rest = y /\ i.pcoll = x
  BY <1>5, <1>6 DEF i
<1>8. DOMAIN j = DOMAIN f /\ j.rest = y /\ j.pcoll = x /\ j.kind = w
  BY <1>5, <1>7 DEF j
<1>9. DOMAIN g = DOMAIN f /\ g.rest = y /\ g.pcoll = x /\ g.kind = w /\ g.path = z
  BY <1>4, <1>5, <1>8
<1>10. FrameWay(fresh, g)
  BY <1>1, <1>2, <1>3, <1>5, <1>9 DEF FrameWay
<1> QED BY <1>10 DEF g

\* The forward file of a user: its first address.
LEMMA ForwardList ==
    ASSUME case \in Cases, Forwards
    PROVE  /\ case.forward[Addr.user] \in Seq(Addresses) /\ case.forward[Addr.user] # <<>>
           /\ AfterOwn(Head(case.forward[Addr.user])) \in Addresses
<1> DEFINE u == Addr.user
           l == case.forward[u]
<1>1. u \in DOMAIN case.forward /\ l # <<>>
  BY DEF Forwards, Known, Users
<1>2. l \in Seq(Addresses)
  <2> HIDE DEF u
  <2> QED BY <1>1, CaseIs
<1> HIDE DEF l
<1>3. Head(l) \in Addresses
  BY <1>1, <1>2
<1>4. AfterOwn(Head(l)) \in Addresses
  BY <1>3, AfterOwnIs
<1> QED BY <1>1, <1>2, <1>4 DEF l

LEMMA WayOpened ==
    ASSUME NEW fresh, Good(fresh), WayInv(fresh), OpenForward
    PROVE  WayInv(fresh)'
<1> DEFINE l == case.forward[Addr.user]
           a == AfterOwn(Head(l))
<1>0. Forwards /\ UNCHANGED <<case, next, remotes, out>>
  BY DEF OpenForward, lmailvars
<1>1. l \in Seq(Addresses) /\ l # <<>> /\ a \in Addresses
  BY <1>0, ForwardList DEF WayInv
<1>2. PICK r, p :
        /\ r = remote_address(rt, a) /\ p = user_at_node(r.rt, r.addr)
        /\ IF Bad(a) \/ AliasLoop(r, Addr.user)
           THEN /\ Return(call, 0)
                /\ rt' = IF Bad(a) THEN rt ELSE r.rt
                /\ UNCHANGED <<stack, ProcessForward>>
           ELSE /\ stack' = Append(stack, OpenedFrame(l, r, p))
                /\ ProcessForward' = TRUE
                /\ rt' = IF r.kind = "remote" THEN p.rt ELSE r.rt
                /\ call' = Null /\ UNCHANGED ret
  BY Zenon DEF OpenForward
<1> HIDE DEF l, a
<1>3. rt \in Ready(fresh) /\ StackWay(fresh, stack)
  BY DEF WayInv
<1>4. LookedUp(fresh, rt, a, r, p)
  BY <1>1, <1>2, <1>3, LookUp
<1>5. /\ call' = Null
      /\ rt' \in {rt, r.rt, p.rt}
      /\ stack' = stack \/ stack' = Append(stack, OpenedFrame(l, r, p))
  BY <1>2 DEF Return
<1>6. FrameWay(fresh, OpenedFrame(l, r, p))
  BY <1>1, <1>4, FrameOpened
<1>7. StackWay(fresh, stack')
  BY <1>3, <1>5, <1>6, PutOnStack
<1>8. rt' \in Ready(fresh)
  BY <1>3, <1>4, <1>5 DEF LookedUp
<1> QED BY <1>0, <1>5, <1>7, <1>8 DEF WayInv

LEMMA WayForwardNext ==
    ASSUME NEW fresh, Good(fresh), WayInv(fresh), ForwardNext
    PROVE  WayInv(fresh)'
<1> DEFINE f == Top
           a == AfterOwn(Head(f.rest))
<1>0. /\ stack # <<>> /\ call = Null /\ f.rest # <<>>
      /\ UNCHANGED <<case, next, remotes, out>>
  BY DEF ForwardNext, InForward, lmailvars
<1>1. PICK r, p :
        /\ r = remote_address(rt, a) /\ p = user_at_node(r.rt, r.addr)
        /\ \/ ReturnForward(0) /\ UNCHANGED <<call, rt>>
           \/ ReturnForward(0) /\ rt' = r.rt /\ UNCHANGED call
           \/ /\ rt' = IF r.kind = "remote" THEN p.rt ELSE r.rt
              /\ \/ Joins(f, r.kind, ListPath(r, p)) /\ Put(Gathered(f, r)) /\ UNCHANGED call
                 \/ /\ Put(Anew(f, r, p))
                    /\ call' = Call(f.pcoll, f.kind, f.hop, f.for)
  <2>1. \E g \in {Top} : \E b \in {AfterOwn(Head(g.rest))} :
        \E r \in {remote_address(rt, b)} : \E p \in {user_at_node(r.rt, r.addr)} :
        \/ ReturnForward(0) /\ UNCHANGED <<call, rt>>
        \/ ReturnForward(0) /\ rt' = r.rt /\ UNCHANGED call
        \/ /\ rt' = IF r.kind = "remote" THEN p.rt ELSE r.rt
           /\ \/ Joins(g, r.kind, ListPath(r, p)) /\ Put(Gathered(g, r)) /\ UNCHANGED call
              \/ /\ Put(Anew(g, r, p))
                 /\ call' = Call(g.pcoll, g.kind, g.hop, g.for)
    BY DEF ForwardNext
  <2> QED BY <2>1
<1> HIDE DEF f
<1>2. FrameWay(fresh, f) /\ StackWay(fresh, Front(stack)) /\ rt \in Ready(fresh)
  BY <1>0, LastOfStack DEF WayInv, f
<1>3. a \in Addresses
  <2>1. f.rest \in Seq(Addresses)
    BY <1>2 DEF FrameWay
  <2>2. Head(f.rest) \in Addresses
    BY <1>0, <2>1
  <2> QED BY <2>2, AfterOwnIs
<1> HIDE DEF a
<1>4. LookedUp(fresh, rt, a, r, p)
  BY <1>1, <1>2, <1>3, LookUp
<1>5. rt' \in {rt, r.rt, p.rt}
  BY <1>1
<1>6. rt' \in Ready(fresh)
  BY <1>2, <1>4, <1>5 DEF LookedUp
<1>7. StackWay(fresh, stack')
  <2>1. CASE ReturnForward(0)
    BY <1>2, <2>1 DEF ReturnForward
  <2>2. CASE Joins(f, r.kind, ListPath(r, p)) /\ Put(Gathered(f, r))
    <3>1. FrameWay(fresh, Gathered(f, r))
      BY <1>0, <1>2, <1>4, <2>2, FrameGathered
    <3> QED BY <1>2, <2>2, <3>1, PutOnStack DEF Put
  <2>3. CASE Put(Anew(f, r, p))
    <3>1. FrameWay(fresh, Anew(f, r, p))
      BY <1>0, <1>2, <1>4, FrameAnew
    <3> QED BY <1>2, <2>3, <3>1, PutOnStack DEF Put
  <2> QED BY <1>1, <2>1, <2>2, <2>3
<1>8. call' # Null => CallWay(fresh, call')
  <2>1. CASE call' = call
    BY <1>0, <2>1
  <2>2. CASE call' = Call(f.pcoll, f.kind, f.hop, f.for)
    <3>1. /\ f.pcoll \in Seq(Addresses) /\ f.pcoll # <<>>
          /\ f.kind = "remote" => OnWay(fresh, f.pcoll, f.path)
      BY <1>0, <1>2 DEF FrameWay
    <3>2. CallWay(fresh, Call(f.pcoll, f.kind, f.hop, f.for))
      BY <3>1, CallOnWay
    <3> QED BY <2>2, <3>2
  <2> QED BY <1>1, <2>1, <2>2
<1> QED BY <1>0, <1>6, <1>7, <1>8 DEF WayInv

LEMMA WayForwardLast ==
    ASSUME NEW fresh, Good(fresh), WayInv(fresh), ForwardLast
    PROVE  WayInv(fresh)'
<1> DEFINE f == Top
           g == [f EXCEPT !.pcoll = <<>>]
<1>0. /\ stack # <<>> /\ f.rest = <<>> /\ f.pcoll # <<>>
      /\ call' = Call(f.pcoll, f.kind, f.hop, f.for) /\ Put(g)
      /\ UNCHANGED <<case, rt, next, remotes, out>>
  BY DEF ForwardLast, InForward, Pending, lmailvars
<1>1. FrameWay(fresh, f) /\ StackWay(fresh, Front(stack))
  BY <1>0, LastOfStack DEF WayInv
<1> HIDE DEF f
<1>2. /\ f.pcoll \in Seq(Addresses) /\ (f.kind = "remote" => OnWay(fresh, f.pcoll, f.path))
      /\ {"rest", "pcoll", "kind", "path"} \subseteq DOMAIN f
  BY <1>1 DEF FrameWay
<1>3. CallWay(fresh, call')
  BY <1>0, <1>2, CallOnWay
<1>4. /\ DOMAIN g = DOMAIN f /\ g.rest = <<>> /\ g.pcoll = <<>> /\ g.kind = f.kind
      /\ g.path = f.path
  BY <1>0, <1>2
<1> HIDE DEF g
<1>5. <<>> \in Seq(Addresses) /\ OnWay(fresh, <<>>, g.path)
  BY EmptySeq DEF OnWay
<1>6. FrameWay(fresh, g)
  BY <1>2, <1>4, <1>5 DEF FrameWay
<1>7. StackWay(fresh, stack')
  BY <1>0, <1>1, <1>6, PutOnStack DEF Put
<1> QED BY <1>0, <1>3, <1>7 DEF WayInv

LEMMA WayForwardEnd ==
    ASSUME NEW fresh, Good(fresh), WayInv(fresh), ForwardEnd
    PROVE  WayInv(fresh)'
<1>1. /\ stack # <<>> /\ call = Null /\ stack' = Front(stack)
      /\ UNCHANGED <<case, rt, next, remotes, call, out>>
  BY DEF ForwardEnd, InForward, ReturnForward, lmailvars
<1>2. StackWay(fresh, stack')
  BY <1>1, LastOfStack DEF WayInv
<1> QED BY <1>1, <1>2 DEF WayInv

LEMMA WayForwardReturned ==
    ASSUME NEW fresh, Good(fresh), WayInv(fresh), ForwardReturned
    PROVE  WayInv(fresh)'
<1> DEFINE f == Top
           v == IF ret # 0 THEN ret ELSE f.status
           g == [f EXCEPT !.status = v]
<1>0. /\ stack # <<>> /\ UNCHANGED <<case, rt, next, remotes, call, out>>
      /\ stack' = Append(Front(stack), [Top EXCEPT !.status = IF ret # 0 THEN ret ELSE @])
  BY DEF ForwardReturned, Put, lmailvars
<1>1. FrameWay(fresh, f) /\ StackWay(fresh, Front(stack))
  BY <1>0, LastOfStack DEF WayInv
<1>2. stack' = Append(Front(stack), g)
  BY <1>0
<1> HIDE DEF f, v
<1>3. /\ DOMAIN g = DOMAIN f /\ g.rest = f.rest /\ g.pcoll = f.pcoll /\ g.kind = f.kind
      /\ g.path = f.path
  BY <1>1 DEF FrameWay
<1> HIDE DEF g
<1>4. FrameWay(fresh, g)
  BY <1>1, <1>3 DEF FrameWay
<1>5. StackWay(fresh, stack')
  BY <1>1, <1>2, <1>4, PutOnStack
<1> QED BY <1>0, <1>5 DEF WayInv

-----------------------------------------------------------------------------
\* lmail.
LEMMA ArgumentIs ==
    ASSUME NEW fresh, WayInv(fresh), next <= Len(case.args)
    PROVE  Argument \in Addresses
<1>1. case.args \in Seq(Addresses) /\ next \in Nat \ {0}
  BY CaseIs DEF WayInv
<1> DEFINE s == case.args
<1> HIDE DEF s
<1>2. s \in Seq(Addresses) /\ next <= Len(s)
  BY <1>1 DEF s
<1>3. s[next] \in Addresses
  BY <1>1, <1>2
<1> QED BY <1>3, StrippedIs DEF Argument, s

LEMMA WayTakeRemote ==
    ASSUME NEW fresh, Good(fresh), WayInv(fresh), TakeRemote
    PROVE  WayInv(fresh)'
<1> DEFINE a == Argument
<1>0. call = Null /\ next <= Len(case.args) /\ next' = next + 1 /\ UNCHANGED <<case, stack, out>>
  BY DEF TakeRemote, InLmail
<1>1. PICK r, p :
        /\ r = remote_address(rt, a) /\ p = user_at_node(r.rt, r.addr)
        /\ r.kind = "remote" /\ rt' = p.rt
        /\ \/ /\ remotes.addrs = <<>> \/ p.path = remotes.path
              /\ remotes' = [addrs |-> Append(remotes.addrs, r.addr), path |-> p.path,
                             for |-> remotes.for \cup {next}]
              /\ UNCHANGED call
           \/ /\ remotes.addrs # <<>>
              /\ remotes' = [addrs |-> <<r.addr>>, path |-> p.path, for |-> {next}]
              /\ call' = Call(remotes.addrs, "remote", case.hops, remotes.for)
  BY DEF TakeRemote
<1>2. a \in Addresses
  BY <1>0, ArgumentIs
<1> HIDE DEF a
<1>3. /\ rt \in Ready(fresh) /\ next \in Nat \ {0}
      /\ remotes.addrs \in Seq(Addresses) /\ OnWay(fresh, remotes.addrs, remotes.path)
  BY DEF WayInv
<1>4. LookedUp(fresh, rt, a, r, p)
  BY <1>1, <1>2, <1>3, LookUp
<1>5. rt' \in Ready(fresh) /\ next' \in Nat \ {0}
  BY <1>0, <1>1, <1>3, <1>4 DEF LookedUp
<1> DEFINE b == r.addr
           q == p.path
           s == remotes.addrs
<1>6. b \in Addresses /\ user_at_node(fresh, b).path = q
  BY <1>4 DEF LookedUp
<1>7. CASE /\ s = <<>> \/ q = remotes.path
           /\ remotes' = [addrs |-> Append(s, b), path |-> q, for |-> remotes.for \cup {next}]
           /\ UNCHANGED call
  <2>1. OnWay(fresh, s, q)
    <3>1. CASE s = <<>>
      BY <3>1 DEF OnWay
    <3>2. CASE q = remotes.path
      BY <1>3, <3>2
    <3> QED BY <1>7, <3>1, <3>2
  <2> HIDE DEF b, q
  <2>2. Append(s, b) \in Seq(Addresses) /\ OnWay(fresh, Append(s, b), q)
    <3>1. s \in Seq(Addresses)
      BY <1>3
    <3> HIDE DEF s
    <3> QED BY <1>6, <2>1, <3>1, MoreOnWay
  <2>3. remotes'.addrs = Append(s, b) /\ remotes'.path = q
    BY <1>7
  <2> QED BY <1>0, <1>5, <1>7, <2>2, <2>3 DEF WayInv
<1>8. CASE /\ s # <<>>
           /\ remotes' = [addrs |-> <<b>>, path |-> q, for |-> {next}]
           /\ call' = Call(s, "remote", case.hops, remotes.for)
  <2>1. CallWay(fresh, call')
    BY <1>3, <1>8, CallOnWay
  <2> HIDE DEF b, q
  <2>2. <<b>> \in Seq(Addresses) /\ OnWay(fresh, <<b>>, q)
    BY <1>6, OneOnWay
  <2>3. remotes'.addrs = <<b>> /\ remotes'.path = q
    BY <1>8
  <2> QED BY <1>0, <1>5, <2>1, <2>2, <2>3 DEF WayInv
<1> QED BY <1>1, <1>7, <1>8

LEMMA WayTakeLocal ==
    ASSUME NEW fresh, Good(fresh), WayInv(fresh), TakeLocal
    PROVE  WayInv(fresh)'
<1> DEFINE a == Argument
<1>0. next <= Len(case.args) /\ next' = next + 1 /\ UNCHANGED <<case, remotes, stack, out>>
  BY DEF TakeLocal
<1>1. PICK r : /\ r = remote_address(rt, a) /\ rt' = r.rt
               /\ call' = Call(<<r.addr>>, r.kind, case.hops, {next})
  BY DEF TakeLocal
<1>2. a \in Addresses
  BY <1>0, ArgumentIs
<1> HIDE DEF a
<1>3. rt \in Ready(fresh) /\ next \in Nat \ {0}
  BY DEF WayInv
<1>4. r.rt \in Ready(fresh) /\ r.addr \in Addresses
  BY <1>1, <1>2, <1>3, LeadsAnswer
<1>5. CallWay(fresh, call')
  BY <1>1, <1>4, LoneCall
<1>6. next' \in Nat \ {0} /\ rt' \in Ready(fresh)
  BY <1>0, <1>1, <1>3, <1>4
<1> QED BY <1>0, <1>5, <1>6 DEF WayInv

LEMMA WayToReturn ==
    ASSUME NEW fresh, Good(fresh), WayInv(fresh), ToReturn
    PROVE  WayInv(fresh)'
<1> DEFINE n == next - Len(case.args)
           a == AfterOwn(case.returns[n])
<1>0. /\ next \in (Len(case.args) + 1)..LastReturn /\ next' = next + 1
      /\ UNCHANGED <<case, remotes, stack, out>>
  BY DEF ToReturn
<1>1. \/ UNCHANGED <<rt, call>>
      \/ \E r : /\ r = remote_address(rt, a) /\ rt' = r.rt
               /\ call' = Call(<<a>>, r.kind, case.hops, {})
  BY DEF ToReturn
<1>2. a \in Addresses
  <2> DEFINE s == case.args
             t == case.returns
  <2>1. s \in Seq(Addresses) /\ t \in Seq(Addresses) /\ next \in Nat \ {0}
    BY CaseIs DEF WayInv
  <2>2. next \in (Len(s) + 1)..(Len(s) + Len(t))
    BY <1>0 DEF LastReturn
  <2> HIDE DEF s, t
  <2>3. Len(s) \in Nat /\ Len(t) \in Nat
    BY <2>1, LenProperties
  <2>4. next - Len(s) \in 1..Len(t)
    BY <2>1, <2>2, <2>3
  <2>5. t[next - Len(s)] \in Addresses
    BY <2>1, <2>4, ElementOfSeq
  <2>6. case.returns[n] \in Addresses
    BY <2>5 DEF s, t
  <2> QED BY <2>6, AfterOwnIs
<1> HIDE DEF n, a
<1>3. rt \in Ready(fresh) /\ next \in Nat \ {0}
  BY DEF WayInv
<1>4. next' \in Nat \ {0}
  BY <1>0, <1>3
<1>5. CASE UNCHANGED <<rt, call>>
  BY <1>0, <1>4, <1>5 DEF WayInv
<1>6. ASSUME NEW r, r = remote_address(rt, a), rt' = r.rt,
             call' = Call(<<a>>, r.kind, case.hops, {})
      PROVE  WayInv(fresh)'
  <2>1. r.rt \in Ready(fresh)
    BY <1>2, <1>3, <1>6, LeadsAnswer
  <2>2. CallWay(fresh, call')
    BY <1>2, <1>6, LoneCall
  <2> QED BY <1>0, <1>4, <1>6, <2>1, <2>2 DEF WayInv
<1> QED BY <1>1, <1>5, <1>6

LEMMA WayToMaster ==
    ASSUME NEW fresh, Good(fresh), WayInv(fresh), ToMaster
    PROVE  WayInv(fresh)'
<1>1. /\ call' = Call(<<Person(Postmaster)>>, "local", 0, {})
      /\ UNCHANGED <<case, rt, next, remotes, stack, out>>
  BY DEF ToMaster
<1> DEFINE a == Person(Postmaster)
<1>2. a \in Addresses
  <2>1. <<>> \in Seq(Hosts)
    BY EmptySeq
  <2> QED BY <2>1, AddressMade, MailAssumption DEF Person
<1> HIDE DEF a
<1>3. CallWay(fresh, Call(<<a>>, "local", 0, {}))
  BY <1>2, LoneCall
<1>4. CallWay(fresh, call')
  BY <1>1, <1>3 DEF a
<1> QED BY <1>1, <1>4 DEF WayInv

LEMMA WayFlush ==
    ASSUME NEW fresh, Good(fresh), WayInv(fresh), Flush
    PROVE  WayInv(fresh)'
<1>1. /\ UNCHANGED <<case, rt, next, stack, out>> /\ remotes' = Nobody /\ call = Null
      /\ \/ call' = call
         \/ /\ remotes.addrs # <<>>
            /\ call' = Call(remotes.addrs, "remote", case.hops, remotes.for)
  BY DEF Flush, InLmail
<1>2. remotes.addrs \in Seq(Addresses) /\ OnWay(fresh, remotes.addrs, remotes.path)
  BY DEF WayInv
<1>3. call' # Null => CallWay(fresh, call')
  <2>1. CASE call' = call
    BY <1>1, <2>1
  <2>2. CASE /\ remotes.addrs # <<>>
             /\ call' = Call(remotes.addrs, "remote", case.hops, remotes.for)
    BY <1>2, <2>2, CallOnWay
  <2> QED BY <1>1, <2>1, <2>2
<1>4. remotes'.addrs = <<>> /\ remotes'.path = NoPath
  BY <1>1 DEF Nobody
<1>5. <<>> \in Seq(Addresses) /\ OnWay(fresh, <<>>, NoPath)
  BY EmptySeq DEF OnWay
<1> QED BY <1>1, <1>3, <1>4, <1>5 DEF WayInv

LEMMA WayElse ==
    ASSUME NEW fresh, Good(fresh), WayInv(fresh), SkipMe \/ Returned \/ Report \/ Exit \/ NoTempFile
    PROVE  WayInv(fresh)'
<1>1. UNCHANGED <<case, rt, remotes, call, stack, out>> /\ next' \in {next, next + 1}
  BY DEF SkipMe, Returned, Report, Exit, NoTempFile
<1>2. next' \in Nat \ {0}
  BY <1>1 DEF WayInv
<1> QED BY <1>1, <1>2 DEF WayInv

LEMMA WayNext ==
    ASSUME NEW fresh, Good(fresh), WayInv(fresh), [MailNext]_mailVars
    PROVE  WayInv(fresh)'
<1>1. CASE sendone
  <2>1. CASE TooManyHops \/ NoSuchUser  BY <2>1, WayNoCall
  <2>2. CASE OpenForward  BY <2>2, WayOpened
  <2>3. CASE ForwardNext  BY <2>3, WayForwardNext
  <2>4. CASE ForwardLast  BY <2>4, WayForwardLast
  <2>5. CASE ForwardEnd  BY <2>5, WayForwardEnd
  <2>6. CASE ForwardReturned  BY <2>6, WayForwardReturned
  <2>7. CASE ToMailbox \/ ToUux \/ ToProgram
    <3>1. \E x : Written(x)
      BY <2>7 DEF ToMailbox, ToUux, ToProgram
    <3> QED BY <3>1, WayWritten
  <2>8. CASE DeliverFails \/ ProgramRefuses  BY <2>8, WayNotWritten
  <2>9. CASE UuxUnseen  BY <2>9, WayUuxUnseen
  <2> QED BY <1>1, <2>1, <2>2, <2>3, <2>4, <2>5, <2>6, <2>7, <2>8, <2>9 DEF sendone
<1>2. CASE lmail
  BY <1>2, WayTakeRemote, WayTakeLocal, WayFlush, WayToReturn, WayToMaster, WayElse DEF lmail
<1>3. CASE UNCHANGED mailVars
  BY <1>3 DEF mailVars, WayInv
<1> QED BY <1>1, <1>2, <1>3 DEF MailNext

LEMMA CaseStays == [MailNext]_mailVars => case' = case
BY DEF MailNext, sendone, lmail, mailVars, TooManyHops, NoSuchUser, OpenForward, ForwardNext,
       ForwardLast, ForwardEnd, ForwardReturned, ToMailbox, ToUux, ToProgram, Written,
       DeliverFails, UuxUnseen, ProgramRefuses, NotWritten, SkipMe, TakeRemote, TakeLocal,
       Flush, Returned, Report, ToReturn, ToMaster, Exit, NoTempFile

-----------------------------------------------------------------------------
\* The table of the case is as loadhost leaves it; if it leads somewhere, all
\* is on the way it tells.
PathInv ==
    /\ case \in Cases
    /\ \A fresh \in {loadhost(case.systems, case.paths)} : Leads(fresh) => WayInv(fresh)

LEMMA CaseLoads ==
    ASSUME case \in Cases
    PROVE  FreshTable(loadhost(case.systems, case.paths))
BY CaseIs, LoadedFresh

LEMMA PathInit == MailInit => PathInv
<1> SUFFICES ASSUME MailInit PROVE PathInv
  OBVIOUS
<1> DEFINE fresh == loadhost(case.systems, case.paths)
<1>1. case \in Cases /\ rt = fresh
  BY DEF MailInit
<1>2. FreshTable(fresh)
  BY <1>1, CaseLoads
<1> HIDE DEF fresh
<1>3. ASSUME Leads(fresh) PROVE WayInv(fresh)
  <2>1. Good(fresh)
    BY <1>2, <1>3 DEF Good
  <2> QED BY <1>1, <2>1, WayInit
<1> QED BY <1>1, <1>3 DEF PathInv, fresh

LEMMA PathNext == PathInv /\ [MailNext]_mailVars => PathInv'
<1> SUFFICES ASSUME PathInv, [MailNext]_mailVars PROVE PathInv'
  OBVIOUS
<1>1. case \in Cases /\ case' = case
  BY CaseStays DEF PathInv
<1>2. ASSUME NEW fresh, fresh = loadhost(case.systems, case.paths), Leads(fresh)
      PROVE  WayInv(fresh)'
  <2>1. FreshTable(fresh)
    BY <1>1, <1>2, CaseLoads
  <2>2. Good(fresh)
    BY <1>2, <2>1 DEF Good
  <2>3. WayInv(fresh)
    BY <1>2 DEF PathInv
  <2> QED BY <2>2, <2>3, WayNext
<1>3. loadhost(case.systems, case.paths)' = loadhost(case.systems, case.paths)
  BY <1>1
<1> QED BY Zenon, <1>1, <1>2, <1>3 DEF PathInv

LEMMA PathIsOne == PathInv => OnePath
<1> SUFFICES ASSUME PathInv PROVE OnePath
  OBVIOUS
<1> DEFINE fresh == loadhost(case.systems, case.paths)
<1>1. Leads(fresh) => WayInv(fresh)
  BY DEF PathInv
<1> HIDE DEF fresh
<1>2. SUFFICES ASSUME Leads(fresh), NEW k \in DOMAIN out, out[k].kind = "remote",
                      NEW a \in ToSet(out[k].addrs)
               PROVE  user_at_node(fresh, a).path = out[k].path
  BY DEF OnePath, fresh
<1>3. OnWay(fresh, out[k].addrs, out[k].path)
  BY <1>1, <1>2 DEF WayInv, SentWay, OutWay
<1> QED BY <1>3 DEF OnWay, ToSet

(***************************************************************************)
(* Whatever the tables, the forward files and the addresses, a list that   *)
(* rmail hands to uux has one path, and it is each addressee's own: the    *)
(* path that the table tells as it was loaded, when it leads somewhere.    *)
(* What HostAlias and HostPath note in the table while they look hosts up, *)
(* and the gathering of addresses along one path in TakeRemote and in the  *)
(* forward files, change nobody's way.                                     *)
(***************************************************************************)
THEOREM MailOnOnePath == MailSpec => []OnePath
BY PathInit, PathNext, PathIsOne, PTL DEF MailSpec

-----------------------------------------------------------------------------
(***************************************************************************)
(* How often an addressee gets the message.                                *)
(***************************************************************************)
Sums == [Seq(Nat) -> Nat]
TotalBody(f) == [s \in Seq(Nat) |-> IF s = <<>> THEN 0 ELSE f[Front(s)] + Last(s)]

LEMMA TotalIs == Total \in Sums /\ Total = TotalBody(Total)
<1> DEFINE S == Seq(Nat)
           K == Sums
           G == [f \in K \cup {Total} |-> TotalBody(f)]
           left == [s \in S |-> Len(s)]
<1>1. K # {}
  <2>1. [s \in S |-> 0] \in K
    BY DEF Sums
  <2> QED BY <2>1
<1>2. \A f \in K : f = [s \in S |-> f[s]]
  BY DEF Sums
<1>3. \A f \in K : G[f] \in K
  <2> SUFFICES ASSUME NEW f \in K PROVE TotalBody(f) \in K
    OBVIOUS
  <2>1. ASSUME NEW s \in S PROVE TotalBody(f)[s] \in Nat
    <3>1. CASE s = <<>>
      BY <3>1 DEF TotalBody
    <3>2. CASE s # <<>>
      <4>1. Front(s) \in S /\ Last(s) \in Nat
        BY <3>2, FrontIs
      <4>2. f[Front(s)] \in Nat
        BY <4>1 DEF Sums
      <4> QED BY <3>2, <4>1, <4>2 DEF TotalBody
    <3> QED BY <3>1, <3>2
  <2> QED BY <2>1 DEF Sums, TotalBody
<1>4. \A h \in [S -> K] : [s \in S |-> h[s][s]] \in K
  BY DEF Sums
<1>5. ASSUME NEW f \in K, NEW e \in K \cup {Total}, NEW s \in S,
             \A y \in S : left[y] < left[s] => e[y] = f[y]
      PROVE  G[e][s] = G[f][s]
  <2>1. CASE s = <<>>
    BY <2>1 DEF TotalBody
  <2>2. CASE s # <<>>
    <3>1. Front(s) \in S /\ Len(Front(s)) < Len(s)
      BY <2>2, FrontIs
    <3>2. e[Front(s)] = f[Front(s)]
      BY <1>5, <3>1
    <3>3. TotalBody(e)[s] = e[Front(s)] + Last(s) /\ TotalBody(f)[s] = f[Front(s)] + Last(s)
      BY <2>2 DEF TotalBody
    <3> QED BY <3>2, <3>3
  <2> QED BY <2>1, <2>2
<1>6. Total = CHOOSE g : g = TotalBody(g)
  BY DEF Total, TotalBody
<1>a. left \in [S -> Nat]
  OBVIOUS
<1>7. Solved(S, K, G, Total)
  <2> HIDE DEF G, S, K, left
  <2>1. Recursive(S, K, left, G, Total)
    BY <1>1, <1>2, <1>3, <1>4, <1>5, <1>a, Zenon DEF Recursive
  <2> QED BY <2>1, Solution
<1>8. PICK f \in K : f = G[f]
  BY <1>7 DEF Solved
<1>9. f = TotalBody(f)
  BY <1>8
<1>10. Total = TotalBody(Total)
  BY <1>6, <1>9, Zenon
<1>11. Total = [s \in S |-> Total[s]] /\ Total = G[Total]
  BY <1>10 DEF TotalBody
<1>12. Total \in K
  BY <1>7, <1>11 DEF Solved
<1> QED BY <1>10, <1>12

LEMMA TotalEmpty == Total[<<>>] = 0
<1>1. <<>> \in Seq(Nat)
  BY EmptySeq
<1> QED BY <1>1, TotalIs DEF TotalBody

LEMMA TotalNat == ASSUME NEW s \in Seq(Nat) PROVE Total[s] \in Nat
BY TotalIs DEF Sums

LEMMA TotalMore ==
    ASSUME NEW s \in Seq(Nat), NEW n \in Nat
    PROVE  Append(s, n) \in Seq(Nat) /\ Total[Append(s, n)] = Total[s] + n
<1> DEFINE t == Append(s, n)
<1>1. t \in Seq(Nat) /\ t # <<>> /\ Front(t) = s /\ Last(t) = n
  BY DEF Front, Last
<1> HIDE DEF t
<1>2. Total[t] = TotalBody(Total)[t]
  BY TotalIs
<1>3. TotalBody(Total)[t] = Total[Front(t)] + Last(t)
  BY <1>1 DEF TotalBody
<1> QED BY <1>1, <1>2, <1>3 DEF t

\* The first one can be taken off as well.
LEMMA TotalHead ==
    ASSUME NEW s \in Seq(Nat), s # <<>>
    PROVE  Tail(s) \in Seq(Nat) /\ Head(s) \in Nat /\ Total[s] = Head(s) + Total[Tail(s)]
<1> DEFINE P == {t \in Seq(Nat) : t # <<>> => Total[t] = Head(t) + Total[Tail(t)]}
<1>1. <<>> \in P
  BY EmptySeq
<1>2. ASSUME NEW t \in Seq(Nat), NEW n \in Nat, t \in P PROVE Append(t, n) \in P
  <2>1. Append(t, n) \in Seq(Nat) /\ Total[Append(t, n)] = Total[t] + n /\ Total[t] \in Nat
    BY TotalMore, TotalNat
  <2>2. CASE t = <<>>
    <3>1. Head(Append(t, n)) = n /\ Tail(Append(t, n)) = <<>>
      BY <2>2
    <3> QED BY <2>1, <2>2, <3>1, TotalEmpty
  <2>3. CASE t # <<>>
    <3>1. /\ Head(t) \in Nat /\ Tail(t) \in Seq(Nat)
          /\ Head(Append(t, n)) = Head(t) /\ Tail(Append(t, n)) = Append(Tail(t), n)
      BY <2>3
    <3>2. Total[t] = Head(t) + Total[Tail(t)]
      BY <1>2, <2>3
    <3>3. Total[Append(Tail(t), n)] = Total[Tail(t)] + n /\ Total[Tail(t)] \in Nat
      BY <3>1, TotalMore, TotalNat
    <3> DEFINE u == Append(t, n)
               rest == Total[Tail(t)]
               all == Total[t]
    <3>4. Total[Tail(u)] = rest + n /\ Head(u) = Head(t)
      BY <3>1, <3>3
    <3>5. Total[u] = all + n /\ all = Head(t) + rest /\ rest \in Nat /\ u \in Seq(Nat)
      BY <2>1, <3>2, <3>3
    <3>6. Head(t) \in Nat
      BY <3>1
    <3> HIDE DEF u, rest, all
    <3>7. Total[u] = Head(u) + Total[Tail(u)]
      BY <3>4, <3>5, <3>6
    <3> QED BY <3>5, <3>7 DEF u
  <2> QED BY <2>2, <2>3
<1>3. s \in P
  <2> HIDE DEF P
  <2> QED BY <1>1, <1>2, SeqInductive
<1> QED BY <1>3

LEMMA TotalOfNone ==
    ASSUME NEW s \in Seq(Nat), \A i \in DOMAIN s : s[i] = 0
    PROVE  Total[s] = 0
<1> DEFINE P == {t \in Seq(Nat) : (\A i \in DOMAIN t : t[i] = 0) => Total[t] = 0}
<1>1. <<>> \in P
  BY EmptySeq, TotalEmpty
<1>2. ASSUME NEW t \in Seq(Nat), NEW n \in Nat, t \in P PROVE Append(t, n) \in P
  <2> DEFINE u == Append(t, n)
  <2>1. /\ u \in Seq(Nat) /\ Total[u] = Total[t] + n /\ Len(t) \in Nat
        /\ DOMAIN t = 1..Len(t) /\ DOMAIN u = 1..(Len(t) + 1)
        /\ u[Len(t) + 1] = n /\ \A i \in 1..Len(t) : u[i] = t[i]
    BY TotalMore
  <2> HIDE DEF u
  <2> SUFFICES ASSUME \A i \in DOMAIN u : u[i] = 0 PROVE Total[u] = 0
    BY <2>1 DEF u
  <2>2. n = 0 /\ \A i \in DOMAIN t : t[i] = 0
    <3>1. Len(t) + 1 \in DOMAIN u /\ \A i \in DOMAIN t : i \in DOMAIN u
      BY <2>1
    <3> QED BY <2>1, <3>1
  <2> QED BY <1>2, <2>1, <2>2
<1>3. s \in P
  <2> HIDE DEF P
  <2> QED BY <1>1, <1>2, SeqInductive
<1> QED BY <1>3
\* Forward files as they are assumed to be.
FilesAreLists(fw) == \A u \in DOMAIN fw : fw[u] \in Seq(Addresses)

MentionArgs == Addresses \X Nat
MentionFcns == [MentionArgs -> Nat]
MentionBody(fw, fresh, x, f) ==
    [q \in MentionArgs |-> MentionTurn(f, fw, x, remote_address(fresh, q[1]), q[2])]

LEMMA SameLength ==
    ASSUME NEW C, NEW s \in Seq(C), NEW D, NEW f \in [DOMAIN s -> D]
    PROVE  f \in Seq(D) /\ Len(f) = Len(s) /\ DOMAIN f = DOMAIN s /\ Len(s) \in Nat
<1>1. DOMAIN s = 1..Len(s) /\ Len(s) \in Nat
  OBVIOUS
<1>2. f \in [1..Len(s) -> D]
  BY <1>1
<1> QED BY <1>1, <1>2

\* What the addresses of a list are due.
RestDue(m, list, hop) == Total[[i \in DOMAIN list |-> m[<<AfterOwn(list[i]), hop>>]]]

LEMMA RestCounts ==
    ASSUME NEW m \in MentionFcns, NEW list \in Seq(Addresses), NEW hop \in Nat
    PROVE  [i \in DOMAIN list |-> m[<<AfterOwn(list[i]), hop>>]] \in Seq(Nat)
<1>1. \A i \in DOMAIN list : <<AfterOwn(list[i]), hop>> \in MentionArgs
  BY AfterOwnIs DEF MentionArgs
<1>2. \A i \in DOMAIN list : m[<<AfterOwn(list[i]), hop>>] \in Nat
  BY <1>1 DEF MentionFcns
<1> DEFINE g == [i \in DOMAIN list |-> m[<<AfterOwn(list[i]), hop>>]]
<1>3. g \in [DOMAIN list -> Nat]
  BY <1>2
<1> HIDE DEF g
<1>4. g \in Seq(Nat)
  BY <1>3, SameLength
<1> QED BY <1>4 DEF g

\* What MentionTurn does in each case.
LEMMA TurnIs ==
    ASSUME NEW fw, NEW x, NEW r, NEW hop \in Nat, FilesAreLists(fw)
    PROVE  \/ \E n \in {0, 1} : \A f : MentionTurn(f, fw, x, r, hop) = n
           \/ \E list \in Seq(Addresses) :
                 /\ hop + 1 <= MAXHOPS
                 /\ \A f : MentionTurn(f, fw, x, r, hop) = RestDue(f, list, hop + 1)
<1>0. MAXHOPS \in Nat
  BY MailAssumption
<1>1. CASE hop + 1 > MAXHOPS
  <2>1. \A f : MentionTurn(f, fw, x, r, hop) = 0
    BY <1>1 DEF MentionTurn
  <2> QED BY <2>1
<1>2. CASE hop + 1 <= MAXHOPS /\ IsForwarded(fw, r)
  <2> DEFINE list == fw[r.addr.user]
  <2>1. list \in Seq(Addresses)
    BY <1>2 DEF FilesAreLists, IsForwarded
  <2>2. \A f : MentionTurn(f, fw, x, r, hop) = RestDue(f, list, hop + 1)
    <3>1. ~(hop + 1 > MAXHOPS)
      BY <1>0, <1>2
    <3>2. ~(r.kind = "local" /\ r.addr.mark # "+" /\ r.addr.user \notin DOMAIN fw)
      BY <1>2 DEF IsForwarded
    <3> QED BY <1>2, <3>1, <3>2, Zenon DEF MentionTurn, RestDue
  <2> HIDE DEF list
  <2> QED BY <1>2, <2>1, <2>2
<1>3. CASE hop + 1 <= MAXHOPS /\ ~IsForwarded(fw, r)
  <2>1. CASE r.kind = "local" /\ r.addr.mark # "+" /\ r.addr.user \notin DOMAIN fw
    BY <1>0, <1>3, <2>1 DEF MentionTurn
  <2>2. CASE ~(r.kind = "local" /\ r.addr.mark # "+" /\ r.addr.user \notin DOMAIN fw)
    <3>1. \A f : MentionTurn(f, fw, x, r, hop) = IF r.addr = x THEN 1 ELSE 0
      BY <1>0, <1>3, <2>2 DEF MentionTurn
    <3> QED BY <3>1
  <2> QED BY <2>1, <2>2
<1> QED BY <1>0, <1>1, <1>2, <1>3

LEMMA TurnCounts ==
    ASSUME NEW fw, NEW x, NEW r, NEW hop \in Nat, FilesAreLists(fw), NEW m \in MentionFcns
    PROVE  MentionTurn(m, fw, x, r, hop) \in Nat
<1>1. ASSUME NEW list \in Seq(Addresses) PROVE RestDue(m, list, hop + 1) \in Nat
  <2>1. hop + 1 \in Nat
    OBVIOUS
  <2> QED BY <2>1, RestCounts, TotalNat DEF RestDue
<1> QED BY <1>1, TurnIs

LEMMA MentionsIs ==
    ASSUME NEW fw, NEW fresh, NEW x, FilesAreLists(fw)
    PROVE  /\ Mentions(fw, fresh, x) \in MentionFcns
           /\ Mentions(fw, fresh, x) = MentionBody(fw, fresh, x, Mentions(fw, fresh, x))
<1> DEFINE S == MentionArgs
           K == MentionFcns
           g == Mentions(fw, fresh, x)
           B(f) == MentionBody(fw, fresh, x, f)
           G == [f \in K \cup {g} |-> B(f)]
           left == [q \in S |-> IF q[2] <= MAXHOPS THEN MAXHOPS - q[2] ELSE 0]
<1>0. /\ MAXHOPS \in Nat
      /\ \A q \in S : q[1] \in Addresses /\ q[2] \in Nat
  BY MailAssumption DEF MentionArgs
<1>6. g = CHOOSE f : f = B(f)
  BY DEF Mentions, MentionBody, MentionArgs
<1> HIDE DEF g
<1>1. K # {}
  <2>1. [q \in S |-> 0] \in K
    BY DEF MentionFcns
  <2> QED BY <2>1
<1>2. \A f \in K : f = [q \in S |-> f[q]]
  BY DEF MentionFcns
<1>3. \A f \in K : G[f] \in K
  <2> SUFFICES ASSUME NEW f \in K PROVE B(f) \in K
    OBVIOUS
  <2>1. ASSUME NEW q \in S PROVE MentionTurn(f, fw, x, remote_address(fresh, q[1]), q[2]) \in Nat
    BY <1>0, TurnCounts
  <2> QED BY <2>1 DEF MentionFcns, MentionBody
<1>4. \A h \in [S -> K] : [q \in S |-> h[q][q]] \in K
  BY DEF MentionFcns
<1>5. ASSUME NEW f \in K, NEW e \in K \cup {g}, NEW q \in S,
             \A y \in S : left[y] < left[q] => e[y] = f[y]
      PROVE  G[e][q] = G[f][q]
  <2> DEFINE r == remote_address(fresh, q[1])
             hop == q[2]
  <2>0. hop \in Nat
    BY <1>0
  <2>1. G[e][q] = MentionTurn(e, fw, x, r, hop) /\ G[f][q] = MentionTurn(f, fw, x, r, hop)
    BY DEF MentionBody
  <2>2. hop + 1 <= MAXHOPS => \A a \in Addresses : e[<<a, hop + 1>>] = f[<<a, hop + 1>>]
    <3> SUFFICES ASSUME hop + 1 <= MAXHOPS, NEW a \in Addresses PROVE e[<<a, hop + 1>>] = f[<<a, hop + 1>>]
      OBVIOUS
    <3> DEFINE y == <<a, hop + 1>>
    <3>1. y \in S /\ y[2] = hop + 1
      BY <2>0 DEF MentionArgs
    <3>2. left[y] < left[q]
      BY <1>0, <2>0, <3>1
    <3> HIDE DEF y
    <3>3. e[y] = f[y]
      BY <1>5, <3>1, <3>2
    <3> QED BY <3>3 DEF y
  <2> HIDE DEF r, hop
  <2>3. ASSUME NEW list \in Seq(Addresses), hop + 1 <= MAXHOPS
        PROVE  RestDue(e, list, hop + 1) = RestDue(f, list, hop + 1)
    <3>1. \A i \in DOMAIN list : e[<<AfterOwn(list[i]), hop + 1>>] = f[<<AfterOwn(list[i]), hop + 1>>]
      BY <2>2, <2>3, AfterOwnIs
    <3> QED BY <3>1 DEF RestDue
  <2>4. MentionTurn(e, fw, x, r, hop) = MentionTurn(f, fw, x, r, hop)
    BY <2>0, <2>3, TurnIs
  <2> QED BY <2>1, <2>4
<1>a. left \in [S -> Nat]
  BY <1>0
<1>7. Solved(S, K, G, g)
  <2> HIDE DEF G, S, K, left
  <2>1. Recursive(S, K, left, G, g)
    BY <1>1, <1>2, <1>3, <1>4, <1>5, <1>a, Zenon DEF Recursive
  <2> QED BY <2>1, Solution
<1>8. PICK f \in K : f = G[f]
  BY <1>7 DEF Solved
<1>9. f = B(f)
  BY <1>8
<1>10. g = B(g)
  <2> HIDE DEF B
  <2> QED BY <1>6, <1>9, Zenon
<1>11. g = [q \in S |-> g[q]] /\ g = G[g]
  BY <1>10 DEF MentionBody
<1>12. g \in K
  BY <1>7, <1>11 DEF Solved
<1> QED BY <1>10, <1>12 DEF g

LEMMA MentionAt ==
    ASSUME NEW fw, NEW fresh, NEW x, FilesAreLists(fw), NEW a \in Addresses, NEW hop \in Nat
    PROVE  Mentions(fw, fresh, x)[<<a, hop>>] =
               MentionTurn(Mentions(fw, fresh, x), fw, x, remote_address(fresh, a), hop)
<1> DEFINE m == Mentions(fw, fresh, x)
           q == <<a, hop>>
<1>1. q \in MentionArgs /\ q[1] = a /\ q[2] = hop
  BY DEF MentionArgs
<1>2. m = MentionBody(fw, fresh, x, m)
  BY MentionsIs
<1> HIDE DEF m, q
<1>3. MentionBody(fw, fresh, x, m)[q] = MentionTurn(m, fw, x, remote_address(fresh, a), hop)
  BY <1>1 DEF MentionBody
<1>4. m[q] = MentionTurn(m, fw, x, remote_address(fresh, a), hop)
  BY <1>2, <1>3
<1> QED BY <1>4 DEF m, q

-----------------------------------------------------------------------------
\* An address leads to the same place whatever has been looked up before, and a
\* local one is a user's name.
SameLead(p, r) == p.kind = r.kind /\ p.addr = r.addr

LeadsAlike(fresh, a) ==
    \A tab \in Ready(fresh) :
        /\ SameLead(Leading[<<tab, a>>], Leading[<<fresh, a>>])
        /\ Leading[<<tab, a>>].kind = "local" => ~Delimited(Leading[<<tab, a>>].addr)

LEMMA GatewayAlike ==
    ASSUME NEW fresh, Good(fresh), NEW r, NEW s, r.rt \in Ready(fresh), s.rt \in Ready(fresh), r.path = s.path
    PROVE  Gateway(r) <=> Gateway(s)
<1> DEFINE h == fresh.hosts
           k == r.rt.hosts
           l == s.rt.hosts
           n == r.path
           i == checkname(h, n)
<1>1. SameHosts(h, k) /\ SameHosts(h, l)
  BY DEF Ready, Rights, NamesRight
<1>a. i # 0 => i \in DOMAIN h
  BY GoodIs, FreshTableIs, CheckIs
<1>4. (Gateway(r) <=> IsGateway(k, checkname(k, n))) /\ (Gateway(s) <=> IsGateway(l, checkname(l, n)))
  BY DEF Gateway
<1> HIDE DEF h, k, l
<1>2. checkname(k, n) = checkname(h, n) /\ checkname(l, n) = checkname(h, n)
  BY <1>1, CheckSame
<1>3. i # 0 => k[i].status = h[i].status /\ l[i].status = h[i].status
  BY <1>1, <1>a DEF SameHosts
<1>5. IsGateway(k, i) <=> IsGateway(l, i)
  BY <1>3 DEF IsGateway
<1> QED BY <1>2, <1>4, <1>5, Zenon

LEMMA LeadTurnAlike ==
    ASSUME NEW f, NEW r, NEW s, NEW a, r.path = s.path, r.user = s.user, Gateway(r) <=> Gateway(s),
           ~Delimited(a) => r.user = a
    PROVE  /\ LeadsOn(r, a) <=> LeadsOn(s, a)
           /\ ~LeadsOn(r, a) => /\ SameLead(LeadTurn(f, r, a), LeadTurn(f, s, a))
                                /\ LeadTurn(f, r, a).kind = "local" => ~Delimited(LeadTurn(f, r, a).addr)
<1>0. LeadsOn(r, a) <=> LeadsOn(s, a)
  BY DEF LeadsOn
<1>1. CASE r.path = Panic
  <2>1. LeadTurn(f, r, a) = Lead(r, "panic", a) /\ LeadTurn(f, s, a) = Lead(s, "panic", a)
    BY <1>1 DEF LeadTurn
  <2> QED BY <1>0, <2>1 DEF SameLead, Lead
<1>2. CASE r.path # Panic /\ Gateway(r)
  <2>1. LeadTurn(f, r, a) = Lead(r, "gateway", a) /\ LeadTurn(f, s, a) = Lead(s, "gateway", a)
    BY <1>2 DEF LeadTurn
  <2> QED BY <1>0, <2>1 DEF SameLead, Lead
<1>3. CASE r.path # Panic /\ ~Gateway(r) /\ r.path # E_nodename
  <2>1. LeadTurn(f, r, a) = Lead(r, "remote", a) /\ LeadTurn(f, s, a) = Lead(s, "remote", a)
    BY <1>3 DEF LeadTurn
  <2> QED BY <1>0, <2>1 DEF SameLead, Lead
<1>4. CASE r.path # Panic /\ ~Gateway(r) /\ r.path = E_nodename /\ ~Delimited(a)
  <2>1. LeadTurn(f, r, a) = Lead(r, "local", a) /\ LeadTurn(f, s, a) = Lead(s, "local", a)
    BY <1>4 DEF LeadTurn
  <2>2. LeadTurn(f, r, a).addr = a
    BY <2>1 DEF Lead
  <2> QED BY <1>0, <1>4, <2>1, <2>2 DEF SameLead, Lead
<1>5. CASE r.path # Panic /\ ~Gateway(r) /\ r.path = E_nodename /\ Delimited(a) /\ r.user = a
  <2>1. LeadTurn(f, r, a) = Lead(r, "remote", a) /\ LeadTurn(f, s, a) = Lead(s, "remote", a)
    BY <1>5 DEF LeadTurn
  <2> QED BY <1>0, <2>1 DEF SameLead, Lead
<1> QED BY <1>0, <1>1, <1>2, <1>3, <1>4, <1>5 DEF LeadsOn

LEMMA AlikeOn ==
    ASSUME NEW fresh, Good(fresh), NEW a \in Addresses,
           Delimited(a) => LeadsAlike(fresh, User(a))
    PROVE  LeadsAlike(fresh, a)
<1> SUFFICES ASSUME NEW tab \in Ready(fresh)
             PROVE  /\ SameLead(Leading[<<tab, a>>], Leading[<<fresh, a>>])
                    /\ Leading[<<tab, a>>].kind = "local" => ~Delimited(Leading[<<tab, a>>].addr)
  BY DEF LeadsAlike
<1> DEFINE r == user_at_node(tab, a)
           s == user_at_node(fresh, a)
           x == Leading[<<tab, a>>]
           y == Leading[<<fresh, a>>]
<1>1. tab \in Tables /\ fresh \in Tables /\ fresh \in Ready(fresh)
  BY FreshReady, GoodIs, FreshTableIs DEF Ready, Rights
<1>2. /\ r.rt \in Ready(fresh) /\ s.rt \in Ready(fresh) /\ r.path = s.path /\ r.user = s.user
  BY <1>1, NodeAnswer
<1>3. x = LeadTurn(Leading, r, a) /\ y = LeadTurn(Leading, s, a)
  BY <1>1, LeadAt
<1>4. Delimited(a) => r.user \in {a, User(a)}
  <2>1. fresh \in Tables /\ ~Cached(fresh, a)
    BY GoodIs, FreshTableIs DEF Cached
  <2> QED BY <1>2, <2>1, NodeIs
<1>5. ~Delimited(a) => r.user = a
  BY DEF user_at_node
<1> HIDE DEF r, s, x, y
<1>6. Gateway(r) <=> Gateway(s)
  BY <1>2, GatewayAlike
<1>7. CASE LeadsOn(r, a)
  <2>1. LeadsOn(s, a)
    BY <1>2, <1>5, <1>6, <1>7, LeadTurnAlike
  <2>2. Delimited(a) /\ r.user = User(a) /\ s.user = User(a)
    BY <1>2, <1>4, <1>7 DEF LeadsOn
  <2>3. x = Leading[<<r.rt, User(a)>>] /\ y = Leading[<<s.rt, User(a)>>]
    BY <1>3, <1>7, <2>1, <2>2, LeadTurnIs
  <2>4. /\ SameLead(x, Leading[<<fresh, User(a)>>]) /\ SameLead(y, Leading[<<fresh, User(a)>>])
        /\ x.kind = "local" => ~Delimited(x.addr)
    BY <1>2, <2>2, <2>3 DEF LeadsAlike
  <2>5. SameLead(x, y)
    BY <2>4 DEF SameLead
  <2> QED BY <2>4, <2>5 DEF x, y
<1>8. CASE ~LeadsOn(r, a)
  <2>1. SameLead(x, y) /\ (x.kind = "local" => ~Delimited(x.addr))
    BY <1>2, <1>3, <1>5, <1>6, <1>8, LeadTurnAlike
  <2> QED BY <2>1 DEF x, y
<1> QED BY <1>7, <1>8

AlikeOfSize(fresh, k) == \A a \in Addresses : Size(a) < k => LeadsAlike(fresh, a)

LEMMA LeadsAgree ==
    ASSUME NEW fresh, Good(fresh), NEW tab \in Ready(fresh), NEW a \in Addresses,
           NEW r, r = remote_address(tab, a)
    PROVE  /\ SameLead(r, remote_address(fresh, a))
           /\ r.kind = "local" => ~Delimited(r.addr)
<1> DEFINE S == {k \in Nat : AlikeOfSize(fresh, k)}
<1>1. 0 \in S
  <2>1. \A b \in Addresses : ~(Size(b) < 0)
    BY SizeIs
  <2> QED BY <2>1 DEF AlikeOfSize
<1>2. ASSUME NEW k \in Nat, k \in S PROVE k + 1 \in S
  <2> SUFFICES ASSUME NEW b \in Addresses, Size(b) < k + 1 PROVE LeadsAlike(fresh, b)
    BY DEF AlikeOfSize
  <2>1. Size(b) \in Nat
    BY SizeIs
  <2>2. Delimited(b) => LeadsAlike(fresh, User(b))
    <3> SUFFICES ASSUME Delimited(b) PROVE LeadsAlike(fresh, User(b))
      OBVIOUS
    <3>1. Size(User(b)) < Size(b) /\ User(b) \in Addresses
      BY UserShorter, UserIs
    <3>2. Size(User(b)) \in Nat
      BY <3>1, SizeIs
    <3>3. Size(User(b)) < k
      BY <2>1, <3>1, <3>2
    <3> QED BY <1>2, <3>1, <3>3 DEF AlikeOfSize
  <2> QED BY <2>2, AlikeOn
<1>3. \A k \in Nat : k \in S
  <2> HIDE DEF S
  <2> QED BY <1>1, <1>2, NatInductive
<1>4. Size(a) \in Nat /\ Size(a) + 1 \in Nat /\ Size(a) < Size(a) + 1
  BY SizeIs
<1>5. LeadsAlike(fresh, a)
  BY <1>3, <1>4 DEF AlikeOfSize
<1> QED BY <1>5 DEF LeadsAlike, remote_address

-----------------------------------------------------------------------------
\* Sums along a sequence that gets one longer, or loses its head.
LEMMA SumMore ==
    ASSUME NEW C, NEW s \in Seq(C), NEW a \in C, NEW n \in Nat,
           NEW g \in [DOMAIN s -> Nat], NEW h \in [DOMAIN Append(s, a) -> Nat],
           \A i \in DOMAIN s : h[i] = g[i], h[Len(s) + 1] = n
    PROVE  Total[h] = Total[g] + n /\ Total[g] \in Nat
<1>1. g \in Seq(Nat) /\ Len(g) = Len(s) /\ Len(s) \in Nat
  BY SameLength
<1>2. Append(s, a) \in Seq(C) /\ Len(Append(s, a)) = Len(s) + 1
  OBVIOUS
<1>3. h \in Seq(Nat) /\ Len(h) = Len(s) + 1
  BY <1>2, SameLength
<1>4. DOMAIN s = 1..Len(s)
  OBVIOUS
<1>5. h = Append(g, n)
  BY <1>1, <1>3, <1>4
<1> QED BY <1>1, <1>5, TotalMore, TotalNat

LEMMA SumHead ==
    ASSUME NEW h \in Seq(Nat), h # <<>>, NEW g \in Seq(Nat), Len(g) = Len(h) - 1,
           \A i \in 1..Len(g) : g[i] = h[i + 1]
    PROVE  Total[h] = h[1] + Total[g] /\ Total[g] \in Nat /\ h[1] \in Nat
<1>1. Head(h) = h[1] /\ h[1] \in Nat /\ Len(h) \in Nat /\ Len(g) \in Nat
  OBVIOUS
<1>2. Tail(h) = g
  <2> DEFINE u == Tail(h)
  <2>1. u \in Seq(Nat) /\ Len(u) = Len(h) - 1 /\ \A i \in 1..(Len(h) - 1) : u[i] = h[i + 1]
    OBVIOUS
  <2> HIDE DEF u
  <2>2. Len(u) = Len(g) /\ \A i \in 1..Len(g) : u[i] = g[i]
    BY <2>1
  <2>3. u = g
    BY <2>1, <2>2, SeqEqual
  <2> QED BY <2>3 DEF u
<1> QED BY <1>1, <1>2, TotalHead, TotalNat

-----------------------------------------------------------------------------
\* The view v: forward files, the table as it was loaded, and an addressee x.
Asked(v) == FilesAreLists(v.forward) /\ Good(v.fresh)

Meant(v) == Mentions(v.forward, v.fresh, v.x)

\* What a message that goes to an address means for x.
One(v, kind, addr, hop) == MentionTurn(Meant(v), v.forward, v.x, [kind |-> kind, addr |-> addr], hop)
ListDue(v, kind, s, hop) == Total[[i \in DOMAIN s |-> One(v, kind, s[i], hop)]]

IsX(v, addr) == IF addr = v.x THEN 1 ELSE 0

LEMMA MeantIs == ASSUME NEW v, Asked(v) PROVE Meant(v) \in MentionFcns
BY MentionsIs DEF Asked, Meant

LEMMA TurnAlike ==
    ASSUME NEW f, NEW fw, NEW x, NEW r, NEW s, NEW hop, SameLead(r, s)
    PROVE  MentionTurn(f, fw, x, r, hop) = MentionTurn(f, fw, x, s, hop)
BY DEF MentionTurn, IsForwarded, SameLead

LEMMA OneLead ==
    ASSUME NEW v, Asked(v), NEW tab \in Ready(v.fresh), NEW a \in Addresses, NEW hop \in Nat,
           NEW r, r = remote_address(tab, a)
    PROVE  Meant(v)[<<a, hop>>] = One(v, r.kind, r.addr, hop)
<1> DEFINE s == remote_address(v.fresh, a)
           u == [kind |-> r.kind, addr |-> r.addr]
<1>1. Meant(v)[<<a, hop>>] = MentionTurn(Meant(v), v.forward, v.x, s, hop)
  BY MentionAt DEF Asked, Meant
<1>2. SameLead(r, s)
  BY LeadsAgree DEF Asked
<1> HIDE DEF s
<1>3. SameLead(s, u)
  BY <1>2 DEF SameLead
<1>4. MentionTurn(Meant(v), v.forward, v.x, s, hop) = MentionTurn(Meant(v), v.forward, v.x, u, hop)
  BY <1>3, TurnAlike
<1> QED BY <1>1, <1>4 DEF One

LEMMA OneCounts ==
    ASSUME NEW v, Asked(v), NEW kind, NEW addr, NEW hop \in Nat
    PROVE  One(v, kind, addr, hop) \in Nat
BY MeantIs, TurnCounts DEF One, Asked

LEMMA OneTooFar ==
    ASSUME NEW v, NEW kind, NEW addr, NEW hop \in Nat, hop + 1 > MAXHOPS
    PROVE  One(v, kind, addr, hop) = 0
BY DEF One, MentionTurn

LEMMA OneAway ==
    ASSUME NEW v, NEW kind, NEW addr, NEW hop \in Nat, hop + 1 <= MAXHOPS, kind # "local"
    PROVE  One(v, kind, addr, hop) = IsX(v, addr)
BY MailAssumption DEF One, MentionTurn, IsForwarded, IsX

LEMMA NotTooFar ==
    ASSUME NEW hop \in Nat, hop + 1 <= MAXHOPS
    PROVE  ~(hop + 1 > MAXHOPS)
BY MailAssumption

LEMMA OneHere ==
    ASSUME NEW v, NEW addr, NEW hop \in Nat, hop + 1 <= MAXHOPS,
           addr.mark = "+" \/ (addr.user \in DOMAIN v.forward
                                 /\ ~(addr.mark = "" /\ v.forward[addr.user] # <<>>))
    PROVE  One(v, "local", addr, hop) = IsX(v, addr)
<1> DEFINE r == [kind |-> "local", addr |-> addr]
<1>1. ~IsForwarded(v.forward, r) /\ r.addr = addr
  BY Zenon DEF IsForwarded
<1>2. ~(hop + 1 > MAXHOPS)
  BY NotTooFar
<1>3. ~(r.kind = "local" /\ r.addr.mark # "+" /\ r.addr.user \notin DOMAIN v.forward)
  BY Zenon
<1>4. One(v, "local", addr, hop) = MentionTurn(Meant(v), v.forward, v.x, r, hop)
  BY Zenon DEF One
<1> HIDE DEF r
<1>5. MentionTurn(Meant(v), v.forward, v.x, r, hop) = IF r.addr = v.x THEN 1 ELSE 0
  BY <1>1, <1>2, <1>3, Zenon DEF MentionTurn
<1> QED BY <1>1, <1>4, <1>5, Zenon DEF IsX

LEMMA OneUnknown ==
    ASSUME NEW v, NEW addr, NEW hop \in Nat, addr.mark # "+", addr.user \notin DOMAIN v.forward
    PROVE  One(v, "local", addr, hop) = 0
BY DEF One, MentionTurn, IsForwarded

LEMMA OneForwarded ==
    ASSUME NEW v, NEW addr, NEW hop \in Nat, hop + 1 <= MAXHOPS,
           addr.mark = "", addr.user \in DOMAIN v.forward, v.forward[addr.user] # <<>>
    PROVE  One(v, "local", addr, hop) = RestDue(Meant(v), v.forward[addr.user], hop + 1)
<1> DEFINE r == [kind |-> "local", addr |-> addr]
<1>1. IsForwarded(v.forward, r) /\ r.addr = addr
  BY DEF IsForwarded
<1>2. ~(hop + 1 > MAXHOPS)
  BY NotTooFar
<1>3. ~(r.kind = "local" /\ r.addr.mark # "+" /\ r.addr.user \notin DOMAIN v.forward)
  OBVIOUS
<1>4. One(v, "local", addr, hop) = MentionTurn(Meant(v), v.forward, v.x, r, hop)
  BY DEF One
<1> HIDE DEF r
<1>5. MentionTurn(Meant(v), v.forward, v.x, r, hop) = RestDue(Meant(v), v.forward[r.addr.user], hop + 1)
  BY <1>1, <1>2, <1>3, Zenon DEF MentionTurn, RestDue
<1> QED BY <1>1, <1>4, <1>5

-----------------------------------------------------------------------------
LEMMA ListMaps ==
    ASSUME NEW v, Asked(v), NEW kind, NEW s \in Seq(Addresses), NEW hop \in Nat
    PROVE  [i \in DOMAIN s |-> One(v, kind, s[i], hop)] \in [DOMAIN s -> Nat]
<1>1. \A i \in DOMAIN s : One(v, kind, s[i], hop) \in Nat
  BY OneCounts
<1> QED BY <1>1

LEMMA ListCounts ==
    ASSUME NEW v, Asked(v), NEW kind, NEW s \in Seq(Addresses), NEW hop \in Nat
    PROVE  ListDue(v, kind, s, hop) \in Nat
<1> DEFINE g == [i \in DOMAIN s |-> One(v, kind, s[i], hop)]
<1>1. g \in [DOMAIN s -> Nat]
  BY ListMaps
<1> HIDE DEF g
<1>2. g \in Seq(Nat)
  BY <1>1, SameLength
<1>3. Total[g] \in Nat
  BY <1>2, TotalNat
<1> QED BY <1>3 DEF g, ListDue

LEMMA ListEmpty == ASSUME NEW v, NEW kind, NEW hop PROVE ListDue(v, kind, <<>>, hop) = 0
<1>1. [i \in DOMAIN <<>> |-> One(v, kind, <<>>[i], hop)] = <<>>
  OBVIOUS
<1> QED BY <1>1, TotalEmpty DEF ListDue

LEMMA ListMore ==
    ASSUME NEW v, Asked(v), NEW kind, NEW s \in Seq(Addresses), NEW a \in Addresses, NEW hop \in Nat
    PROVE  ListDue(v, kind, Append(s, a), hop) = ListDue(v, kind, s, hop) + One(v, kind, a, hop)
<1> DEFINE t == Append(s, a)
           g == [i \in DOMAIN s |-> One(v, kind, s[i], hop)]
           h == [i \in DOMAIN t |-> One(v, kind, t[i], hop)]
           n == One(v, kind, a, hop)
<1>1. /\ t \in Seq(Addresses) /\ Len(s) \in Nat /\ DOMAIN s = 1..Len(s) /\ DOMAIN t = 1..(Len(s) + 1)
      /\ t[Len(s) + 1] = a /\ \A i \in DOMAIN s : t[i] = s[i]
  OBVIOUS
<1>2. g \in [DOMAIN s -> Nat] /\ n \in Nat
  BY ListMaps, OneCounts
<1>3. h \in [DOMAIN t -> Nat]
  <2> HIDE DEF t
  <2> QED BY <1>1, ListMaps
<1>4. (\A i \in DOMAIN s : h[i] = g[i]) /\ h[Len(s) + 1] = n
  <2> HIDE DEF t
  <2> QED BY <1>1
<1>5. ListDue(v, kind, s, hop) = Total[g] /\ ListDue(v, kind, t, hop) = Total[h]
  BY DEF ListDue
<1> HIDE DEF g, h, n
<1>6. Total[h] = Total[g] + n
  BY <1>2, <1>3, <1>4, SumMore
<1> QED BY <1>5, <1>6 DEF n

LEMMA ListOne ==
    ASSUME NEW v, Asked(v), NEW kind, NEW a \in Addresses, NEW hop \in Nat
    PROVE  ListDue(v, kind, <<a>>, hop) = One(v, kind, a, hop)
<1>1. <<>> \in Seq(Addresses) /\ Append(<<>>, a) = <<a>>
  BY EmptySeq
<1>2. ListDue(v, kind, Append(<<>>, a), hop) = ListDue(v, kind, <<>>, hop) + One(v, kind, a, hop)
  BY <1>1, ListMore
<1>3. ListDue(v, kind, <<>>, hop) = 0 /\ One(v, kind, a, hop) \in Nat
  BY ListEmpty, OneCounts
<1> QED BY <1>1, <1>2, <1>3

LEMMA ListAlone ==
    ASSUME NEW v, Asked(v), NEW kind, NEW s \in Seq(Addresses), s # <<>>, Len(s) <= 1, NEW hop \in Nat
    PROVE  /\ Head(s) \in Addresses /\ s = <<Head(s)>>
           /\ ListDue(v, kind, s, hop) = One(v, kind, Head(s), hop)
<1>1. Head(s) \in Addresses /\ s = <<Head(s)>>
  <2>0. Len(s) # 0 /\ Len(s) \in Nat
    BY EmptySeq
  <2>a. Len(s) = 1
    <3> DEFINE n == Len(s)
    <3>1. n # 0 /\ n \in Nat /\ n <= 1
      BY <2>0
    <3> HIDE DEF n
    <3>2. n = 1
      BY <3>1
    <3> QED BY <3>2 DEF n
  <2>1. Len(s) = 1 /\ s[1] \in Addresses /\ Head(s) = s[1]
    BY <2>a
  <2> QED BY <2>1
<1>2. ListDue(v, kind, <<Head(s)>>, hop) = One(v, kind, Head(s), hop)
  BY <1>1, ListOne
<1> QED BY <1>1, <1>2, Zenon

LEMMA ListTooFar ==
    ASSUME NEW v, Asked(v), NEW kind, NEW s \in Seq(Addresses), NEW hop \in Nat, hop + 1 > MAXHOPS
    PROVE  ListDue(v, kind, s, hop) = 0
<1> DEFINE g == [i \in DOMAIN s |-> One(v, kind, s[i], hop)]
<1>1. g \in [DOMAIN s -> Nat]
  BY ListMaps
<1>2. \A i \in DOMAIN s : g[i] = 0
  BY OneTooFar
<1> HIDE DEF g
<1>3. g \in Seq(Nat) /\ \A i \in DOMAIN g : g[i] = 0
  BY <1>1, <1>2, SameLength
<1>4. Total[g] = 0
  BY <1>3, TotalOfNone
<1> QED BY <1>4 DEF g, ListDue

LEMMA ListAway ==
    ASSUME NEW v, NEW kind, NEW s \in Seq(Addresses), NEW hop \in Nat, hop + 1 <= MAXHOPS,
           kind # "local"
    PROVE  ListDue(v, kind, s, hop) = Count(s, v.x)
<1>1. \A i \in DOMAIN s : One(v, kind, s[i], hop) = IF s[i] = v.x THEN 1 ELSE 0
  BY OneAway DEF IsX
<1>2. [i \in DOMAIN s |-> One(v, kind, s[i], hop)] = [i \in DOMAIN s |-> IF s[i] = v.x THEN 1 ELSE 0]
  BY <1>1
<1> QED BY <1>2, Zenon DEF ListDue, Count

LEMMA CountIs ==
    ASSUME NEW C, NEW s \in Seq(C), NEW x
    PROVE  Count(s, x) \in Nat /\ (\A a : s = <<a>> => Count(s, x) = IF a = x THEN 1 ELSE 0)
<1> DEFINE g == [i \in DOMAIN s |-> IF s[i] = x THEN 1 ELSE 0]
<1>1. g \in [DOMAIN s -> Nat]
  OBVIOUS
<1>2. ASSUME NEW a, s = <<a>> PROVE g = Append(<<>>, IF a = x THEN 1 ELSE 0)
  <2>1. DOMAIN s = 1..1 /\ s[1] = a
    BY <1>2
  <2> QED BY <2>1
<1>3. Count(s, x) = Total[g]
  BY DEF Count
<1> HIDE DEF g
<1>4. g \in Seq(Nat)
  BY <1>1, SameLength
<1>5. ASSUME NEW a, s = <<a>> PROVE Total[g] = IF a = x THEN 1 ELSE 0
  <2> DEFINE n == IF a = x THEN 1 ELSE 0
  <2>1. n \in Nat /\ <<>> \in Seq(Nat) /\ g = Append(<<>>, n)
    BY <1>2, <1>5, EmptySeq
  <2> HIDE DEF n
  <2>2. Total[g] = 0 + n
    BY <2>1, TotalMore, TotalEmpty
  <2>3. Total[g] = n
    BY <2>1, <2>2
  <2> QED BY <2>3 DEF n
<1> QED BY <1>3, <1>4, <1>5, TotalNat

LEMMA RestMaps ==
    ASSUME NEW m \in MentionFcns, NEW list \in Seq(Addresses), NEW hop \in Nat
    PROVE  [i \in DOMAIN list |-> m[<<AfterOwn(list[i]), hop>>]] \in [DOMAIN list -> Nat]
<1>1. \A i \in DOMAIN list : <<AfterOwn(list[i]), hop>> \in MentionArgs
  BY AfterOwnIs DEF MentionArgs
<1>2. \A i \in DOMAIN list : m[<<AfterOwn(list[i]), hop>>] \in Nat
  BY <1>1 DEF MentionFcns
<1> QED BY <1>2

LEMMA RestHead ==
    ASSUME NEW m \in MentionFcns, NEW list \in Seq(Addresses), list # <<>>, NEW hop \in Nat
    PROVE  /\ RestDue(m, list, hop) = m[<<AfterOwn(Head(list)), hop>>] + RestDue(m, Tail(list), hop)
           /\ RestDue(m, Tail(list), hop) \in Nat /\ m[<<AfterOwn(Head(list)), hop>>] \in Nat
<1> DEFINE t == Tail(list)
           h == [i \in DOMAIN list |-> m[<<AfterOwn(list[i]), hop>>]]
           g == [i \in DOMAIN t |-> m[<<AfterOwn(t[i]), hop>>]]
<1>1. /\ t \in Seq(Addresses) /\ 1 \in DOMAIN list /\ Head(list) = list[1]
      /\ \A i \in DOMAIN t : i + 1 \in DOMAIN list /\ t[i] = list[i + 1]
  OBVIOUS
<1>2. h \in [DOMAIN list -> Nat]
  BY RestMaps
<1>3. g \in [DOMAIN t -> Nat]
  <2> HIDE DEF t
  <2> QED BY <1>1, RestMaps
<1>4. (\A i \in DOMAIN t : g[i] = h[i + 1]) /\ h[1] = m[<<AfterOwn(Head(list)), hop>>]
  <2> HIDE DEF t
  <2> QED BY <1>1
<1>5. RestDue(m, list, hop) = Total[h] /\ RestDue(m, t, hop) = Total[g]
  BY DEF RestDue
<1> HIDE DEF g, h
<1>6. Len(list) \in Nat \ {0} /\ Len(t) = Len(list) - 1 /\ DOMAIN t = 1..Len(t)
  BY EmptySeq
<1> HIDE DEF t
<1>7. h \in Seq(Nat) /\ Len(h) = Len(list)
  BY <1>2, SameLength
<1>8. g \in Seq(Nat) /\ Len(g) = Len(t)
  BY <1>1, <1>3, SameLength
<1>9. Total[h] = h[1] + Total[g] /\ Total[g] \in Nat /\ h[1] \in Nat
  <2>1. h # <<>> /\ Len(g) = Len(h) - 1
    BY <1>6, <1>7, <1>8, EmptySeq
  <2>2. \A i \in 1..Len(g) : g[i] = h[i + 1]
    BY <1>4, <1>6, <1>8
  <2> QED BY <1>7, <1>8, <2>1, <2>2, SumHead
<1> QED BY <1>4, <1>5, <1>9 DEF t

LEMMA RestEmpty == ASSUME NEW m, NEW hop PROVE RestDue(m, <<>>, hop) = 0
<1>1. [i \in DOMAIN <<>> |-> m[<<AfterOwn(<<>>[i]), hop>>]] = <<>>
  OBVIOUS
<1> QED BY <1>1, TotalEmpty DEF RestDue

LEMMA SumNext ==
    ASSUME NEW g \in Seq(Nat), NEW h \in Seq(Nat), Len(h) = Len(g) + 1,
           \A i \in 1..Len(g) : h[i] = g[i], h[Len(g) + 1] \in Nat
    PROVE  Total[h] = Total[g] + h[Len(g) + 1] /\ Total[g] \in Nat
<1> DEFINE n == h[Len(g) + 1]
<1>1. h = Append(g, n)
  OBVIOUS
<1> HIDE DEF n
<1>2. n \in Nat
  BY DEF n
<1>3. Total[h] = Total[g] + n /\ Total[g] \in Nat
  BY <1>1, <1>2, TotalMore, TotalNat
<1> QED BY <1>3 DEF n

LEMMA OfLength ==
    ASSUME NEW m \in Nat, NEW D, D = 1..m, NEW g \in [D -> Nat]
    PROVE  g \in Seq(Nat) /\ Len(g) = m
OBVIOUS

\* The work that a forward file still is.
FrameSums(f) == f.pcoll \in Seq(Addresses) /\ f.rest \in Seq(Addresses) /\ f.hop \in Nat
FrameDue(v, f) == ListDue(v, f.kind, f.pcoll, f.hop) + RestDue(Meant(v), f.rest, f.hop)

StackSums(s) == Proper(s) /\ \A j \in DOMAIN s : FrameSums(s[j])
StackDue(v, s) == Total[[j \in DOMAIN s |-> FrameDue(v, s[j])]]

LEMMA RestNat ==
    ASSUME NEW v, Asked(v), NEW list \in Seq(Addresses), NEW hop \in Nat
    PROVE  RestDue(Meant(v), list, hop) \in Nat
<1> DEFINE m == Meant(v)
<1>1. m \in MentionFcns
  BY MeantIs
<1> HIDE DEF m
<1>2. RestDue(m, list, hop) \in Nat
  BY <1>1, RestCounts, TotalNat DEF RestDue
<1> QED BY <1>2 DEF m

LEMMA FrameCounts ==
    ASSUME NEW v, Asked(v), NEW f, FrameSums(f)
    PROVE  /\ FrameDue(v, f) \in Nat /\ ListDue(v, f.kind, f.pcoll, f.hop) \in Nat
           /\ RestDue(Meant(v), f.rest, f.hop) \in Nat
<1>1. ListDue(v, f.kind, f.pcoll, f.hop) \in Nat /\ RestDue(Meant(v), f.rest, f.hop) \in Nat
  BY ListCounts, RestNat DEF FrameSums
<1> QED BY <1>1 DEF FrameDue

LEMMA StackMaps ==
    ASSUME NEW v, Asked(v), NEW s, StackSums(s)
    PROVE  [j \in DOMAIN s |-> FrameDue(v, s[j])] \in [DOMAIN s -> Nat]
<1>1. \A j \in DOMAIN s : FrameDue(v, s[j]) \in Nat
  BY FrameCounts DEF StackSums
<1> QED BY <1>1

LEMMA StackEmpty == ASSUME NEW v PROVE StackDue(v, <<>>) = 0 /\ StackSums(<<>>)
<1>1. [j \in DOMAIN <<>> |-> FrameDue(v, <<>>[j])] = <<>>
  OBVIOUS
<1> QED BY <1>1, TotalEmpty, ProperSeq DEF StackDue, StackSums

LEMMA StackMore ==
    ASSUME NEW v, Asked(v), NEW s, StackSums(s), NEW f, FrameSums(f), NEW t, t = Append(s, f)
    PROVE  /\ StackSums(t) /\ StackDue(v, t) = StackDue(v, s) + FrameDue(v, f)
           /\ StackDue(v, s) \in Nat /\ FrameDue(v, f) \in Nat
<1> DEFINE g == [j \in DOMAIN s |-> FrameDue(v, s[j])]
           h == [j \in DOMAIN t |-> FrameDue(v, t[j])]
           n == FrameDue(v, f)
<1>1. /\ Proper(s) /\ Proper(t) /\ Len(s) \in Nat /\ DOMAIN s = 1..Len(s) /\ DOMAIN t = 1..(Len(s) + 1)
      /\ t[Len(s) + 1] = f /\ \A i \in 1..Len(s) : t[i] = s[i]
  BY Appended DEF StackSums
<1>2. StackSums(t)
  <2>1. \A j \in DOMAIN t : t[j] = f \/ (j \in DOMAIN s /\ t[j] = s[j])
    BY <1>1
  <2> QED BY <1>1, <2>1 DEF StackSums
<1>3. g \in [DOMAIN s -> Nat] /\ h \in [DOMAIN t -> Nat] /\ n \in Nat
  BY <1>2, StackMaps, FrameCounts
<1>4. (\A i \in DOMAIN s : h[i] = g[i]) /\ h[Len(s) + 1] = n
  BY <1>1
<1>5. StackDue(v, s) = Total[g] /\ StackDue(v, t) = Total[h]
  BY DEF StackDue
<1> HIDE DEF g, h, n
<1>6. Total[h] = Total[g] + n /\ Total[g] \in Nat
  <2> DEFINE m == Len(s)
  <2>1. /\ m \in Nat /\ m + 1 \in Nat /\ DOMAIN s = 1..m /\ DOMAIN t = 1..(m + 1) /\ n \in Nat
        /\ (\A i \in 1..m : h[i] = g[i]) /\ h[m + 1] = n
    BY <1>1, <1>3, <1>4
  <2> HIDE DEF m
  <2>2. g \in Seq(Nat) /\ Len(g) = m /\ h \in Seq(Nat) /\ Len(h) = m + 1
    BY <1>3, <2>1, OfLength
  <2>3. Len(h) = Len(g) + 1 /\ (\A i \in 1..Len(g) : h[i] = g[i]) /\ h[Len(g) + 1] \in Nat
    BY <2>1, <2>2
  <2>4. Total[h] = Total[g] + h[Len(g) + 1] /\ Total[g] \in Nat
    BY <2>2, <2>3, SumNext
  <2> QED BY <2>1, <2>2, <2>4
<1> QED BY <1>2, <1>3, <1>5, <1>6 DEF n

LEMMA StackTop ==
    ASSUME NEW v, Asked(v), NEW s, StackSums(s), s # <<>>
    PROVE  /\ StackSums(Front(s)) /\ FrameSums(Last(s))
           /\ StackDue(v, s) = StackDue(v, Front(s)) + FrameDue(v, Last(s))
           /\ StackDue(v, Front(s)) \in Nat /\ FrameDue(v, Last(s)) \in Nat
<1> DEFINE l == Front(s)
           f == Last(s)
<1>1. /\ Proper(l) /\ Len(s) \in Nat \ {0} /\ DOMAIN s = 1..Len(s) /\ Len(l) = Len(s) - 1
      /\ DOMAIN l = 1..(Len(s) - 1) /\ \A j \in 1..(Len(s) - 1) : l[j] = s[j]
      /\ f = s[Len(s)]
  BY FrontAndLast DEF StackSums
<1>2. s = Append(l, f)
  <2> DEFINE C == ToSet(s)
  <2>1. s \in Seq(C)
    BY DEF StackSums, Proper
  <2> HIDE DEF C
  <2>2. Front(s) = SubSeq(s, 1, Len(s) - 1) /\ Last(s) = s[Len(s)]
    BY DEF Front, Last
  <2> QED BY <1>1, <2>1, <2>2
<1>3. FrameSums(f) /\ \A j \in DOMAIN l : FrameSums(l[j])
  <2>1. Len(s) \in DOMAIN s /\ \A j \in DOMAIN l : j \in DOMAIN s /\ l[j] = s[j]
    BY <1>1
  <2> QED BY <1>1, <2>1 DEF StackSums
<1>4. StackSums(l)
  BY <1>1, <1>3 DEF StackSums
<1> HIDE DEF l, f
<1>5. /\ StackDue(v, s) = StackDue(v, l) + FrameDue(v, f) /\ StackDue(v, l) \in Nat
      /\ FrameDue(v, f) \in Nat
  BY <1>2, <1>3, <1>4, StackMore
<1> QED BY <1>3, <1>4, <1>5 DEF l, f

\* What x has got.
OutSums(s) == Proper(s) /\ \A k \in DOMAIN s : s[k].addrs \in Seq(Addresses)
OfOut(v, e) == IF e.what = "mail" THEN Count(e.addrs, v.x) ELSE 0
GotOf(v, s) == Total[[k \in DOMAIN s |-> OfOut(v, s[k])]]

LEMMA OutMaps ==
    ASSUME NEW v, NEW s, OutSums(s)
    PROVE  [k \in DOMAIN s |-> OfOut(v, s[k])] \in [DOMAIN s -> Nat]
<1>1. \A k \in DOMAIN s : OfOut(v, s[k]) \in Nat
  BY CountIs DEF OutSums, OfOut
<1> QED BY <1>1

LEMMA OutEmpty == ASSUME NEW v PROVE GotOf(v, <<>>) = 0 /\ OutSums(<<>>)
<1>1. [k \in DOMAIN <<>> |-> OfOut(v, <<>>[k])] = <<>>
  OBVIOUS
<1> QED BY <1>1, TotalEmpty, ProperSeq DEF GotOf, OutSums

LEMMA OutMore ==
    ASSUME NEW v, NEW s, OutSums(s), NEW e, e.addrs \in Seq(Addresses), NEW t, t = Append(s, e)
    PROVE  /\ OutSums(t) /\ GotOf(v, t) = GotOf(v, s) + OfOut(v, e)
           /\ GotOf(v, s) \in Nat /\ OfOut(v, e) \in Nat
<1> DEFINE g == [j \in DOMAIN s |-> OfOut(v, s[j])]
           h == [j \in DOMAIN t |-> OfOut(v, t[j])]
           n == OfOut(v, e)
<1>1. /\ Proper(s) /\ Proper(t) /\ Len(s) \in Nat /\ DOMAIN s = 1..Len(s) /\ DOMAIN t = 1..(Len(s) + 1)
      /\ t[Len(s) + 1] = e /\ \A i \in 1..Len(s) : t[i] = s[i]
  BY Appended DEF OutSums
<1>2. OutSums(t)
  <2>1. \A j \in DOMAIN t : t[j] = e \/ (j \in DOMAIN s /\ t[j] = s[j])
    BY <1>1
  <2> QED BY <1>1, <2>1 DEF OutSums
<1>3. g \in [DOMAIN s -> Nat] /\ h \in [DOMAIN t -> Nat] /\ n \in Nat
  <2>1. n \in Nat
    BY CountIs DEF OfOut
  <2> QED BY <1>2, <2>1, OutMaps
<1>4. (\A i \in DOMAIN s : h[i] = g[i]) /\ h[Len(s) + 1] = n
  BY <1>1
<1>5. GotOf(v, s) = Total[g] /\ GotOf(v, t) = Total[h]
  BY DEF GotOf
<1> HIDE DEF g, h, n
<1>6. Total[h] = Total[g] + n /\ Total[g] \in Nat
  <2> DEFINE m == Len(s)
  <2>1. /\ m \in Nat /\ m + 1 \in Nat /\ DOMAIN s = 1..m /\ DOMAIN t = 1..(m + 1) /\ n \in Nat
        /\ (\A i \in 1..m : h[i] = g[i]) /\ h[m + 1] = n
    BY <1>1, <1>3, <1>4
  <2> HIDE DEF m
  <2>2. g \in Seq(Nat) /\ Len(g) = m /\ h \in Seq(Nat) /\ Len(h) = m + 1
    BY <1>3, <2>1, OfLength
  <2>3. Len(h) = Len(g) + 1 /\ (\A i \in 1..Len(g) : h[i] = g[i]) /\ h[Len(g) + 1] \in Nat
    BY <2>1, <2>2
  <2>4. Total[h] = Total[g] + h[Len(g) + 1] /\ Total[g] \in Nat
    BY <2>2, <2>3, SumNext
  <2> QED BY <2>1, <2>2, <2>4
<1> QED BY <1>2, <1>3, <1>5, <1>6 DEF n

\* What x is due for the first arguments.
LEMMA DueNext ==
    ASSUME NEW d \in Seq(Nat), NEW k \in Nat \ {0}, k <= Len(d)
    PROVE  /\ Total[SubSeq(d, 1, k)] = Total[SubSeq(d, 1, k - 1)] + d[k]
           /\ Total[SubSeq(d, 1, k - 1)] \in Nat /\ d[k] \in Nat
<1> DEFINE s == SubSeq(d, 1, k - 1)
           t == SubSeq(d, 1, k)
           m == k - 1
           n == d[k]
<1>0. m \in Nat /\ k = m + 1
  OBVIOUS
<1>1. n \in Nat /\ s \in Seq(Nat) /\ Len(s) = m /\ t \in Seq(Nat) /\ Len(t) = k
  OBVIOUS
<1>2. (\A i \in 1..m : t[i] = s[i]) /\ t[k] = n
  OBVIOUS
<1> HIDE DEF s, t, m, n
<1>3. Total[t] = Total[s] + n /\ Total[s] \in Nat
  <2>1. Len(t) = Len(s) + 1 /\ (\A i \in 1..Len(s) : t[i] = s[i]) /\ t[Len(s) + 1] = n
    BY <1>0, <1>1, <1>2
  <2>2. Total[t] = Total[s] + t[Len(s) + 1] /\ Total[s] \in Nat
    BY <1>1, <2>1, SumNext
  <2> QED BY <2>1, <2>2
<1> QED BY <1>1, <1>3 DEF s, t, m, n

LEMMA DueEnds ==
    ASSUME NEW d \in Seq(Nat)
    PROVE  Total[SubSeq(d, 1, 0)] = 0 /\ SubSeq(d, 1, Len(d)) = d
<1>1. SubSeq(d, 1, 0) = <<>>
  OBVIOUS
<1> DEFINE s == SubSeq(d, 1, Len(d))
<1>2. s \in Seq(Nat) /\ Len(s) = Len(d) /\ \A i \in 1..Len(d) : s[i] = d[i]
  OBVIOUS
<1> HIDE DEF s
<1>3. s = d
  BY <1>2, SeqEqual
<1> QED BY <1>1, <1>3, TotalEmpty DEF s

-----------------------------------------------------------------------------
\* The lists of the forward files are good, told of a view.
ListsGood(v) ==
    \A u \in DOMAIN v.forward : \A a \in ToSet(v.forward[u]) :
        ~Bad(AfterOwn(a)) /\ ~AliasLoop(remote_address(v.fresh, AfterOwn(a)), u)

\* What the view tells of the case.
View(v) ==
    /\ v.forward = case.forward /\ v.fresh = loadhost(case.systems, case.paths)
    /\ Leads(v.fresh) /\ ListsGood(v)
    /\ v.due = DueTo(v.fresh, v.x)

LEMMA ViewIs ==
    ASSUME NEW v, View(v), case \in Cases
    PROVE  Asked(v) /\ Good(v.fresh) /\ case.hops \in Nat /\ case.args \in Seq(Addresses)
<1>1. FreshTable(v.fresh)
  BY CaseLoads DEF View
<1>2. Good(v.fresh)
  BY <1>1 DEF View, Good
<1>3. FilesAreLists(v.forward)
  BY CaseIs DEF View, FilesAreLists
<1> QED BY <1>2, <1>3, CasesAssumption DEF Asked

\* What x is due for an argument.
LEMMA DueIs ==
    ASSUME NEW v, View(v), case \in Cases
    PROVE  /\ v.due \in Seq(Nat) /\ Len(v.due) = Len(case.args) /\ Len(case.args) \in Nat
           /\ \A i \in 1..Len(case.args) :
                 LET a == Stripped(case.args[i])
                 IN  v.due[i] = IF a \in case.skip \/ FileNamed(remote_address(v.fresh, a)) THEN 0
                                ELSE Meant(v)[<<a, case.hops>>]
<1>1. Asked(v) /\ case.hops \in Nat /\ case.args \in Seq(Addresses)
  BY ViewIs
<1> DEFINE s == case.args
           DueFor(i) == LET a == Stripped(s[i])
                        IN  IF a \in case.skip \/ FileNamed(remote_address(v.fresh, a)) THEN 0
                            ELSE Meant(v)[<<a, case.hops>>]
<1>2. v.due = [i \in DOMAIN s |-> DueFor(i)]
  BY DEF View, DueTo, Meant
<1>3. ASSUME NEW i \in DOMAIN s PROVE DueFor(i) \in Nat
  <2>1. Stripped(s[i]) \in Addresses
    BY <1>1, StrippedIs
  <2>2. <<Stripped(s[i]), case.hops>> \in MentionArgs
    BY <1>1, <2>1 DEF MentionArgs
  <2>3. Meant(v)[<<Stripped(s[i]), case.hops>>] \in Nat
    BY <1>1, <2>2, MeantIs DEF MentionFcns
  <2> QED BY <2>3
<1>4. s \in Seq(Addresses)
  BY <1>1
<1> HIDE DEF s, DueFor
<1>5. v.due \in [DOMAIN s -> Nat]
  BY <1>2, <1>3
<1> DEFINE d == v.due
<1>6. d \in [DOMAIN s -> Nat] /\ \A i \in DOMAIN s : d[i] = DueFor(i)
  BY <1>2, <1>5
<1> HIDE DEF d
<1>7. d \in Seq(Nat) /\ Len(d) = Len(s) /\ Len(s) \in Nat /\ DOMAIN s = 1..Len(s)
  BY <1>4, <1>6, SameLength
<1> QED BY <1>6, <1>7 DEF d, s, DueFor

\* The sum over the arguments before the next one, and with it.
DueBefore(v, n) == Total[SubSeq(v.due, 1, n - 1)]

LEMMA DueStep ==
    ASSUME NEW v, View(v), case \in Cases, NEW n \in Nat \ {0}, n <= Len(case.args)
    PROVE  /\ DueBefore(v, n + 1) = DueBefore(v, n) + v.due[n]
           /\ DueBefore(v, n) \in Nat /\ v.due[n] \in Nat
<1> DEFINE d == v.due
<1>1. d \in Seq(Nat) /\ n <= Len(d)
  BY DueIs
<1> HIDE DEF d
<1>2. /\ Total[SubSeq(d, 1, n)] = Total[SubSeq(d, 1, n - 1)] + d[n]
      /\ Total[SubSeq(d, 1, n - 1)] \in Nat /\ d[n] \in Nat
  BY <1>1, DueNext
<1>3. n + 1 - 1 = n
  OBVIOUS
<1> QED BY <1>2, <1>3 DEF DueBefore, d

LEMMA DueFirstLast ==
    ASSUME NEW v, View(v), case \in Cases
    PROVE  DueBefore(v, 1) = 0 /\ DueBefore(v, Len(case.args) + 1) = Total[v.due]
<1> DEFINE d == v.due
           m == Len(case.args)
<1>1. d \in Seq(Nat) /\ m = Len(d) /\ m \in Nat
  BY DueIs
<1> HIDE DEF d, m
<1>2. Total[SubSeq(d, 1, 0)] = 0 /\ SubSeq(d, 1, m) = d
  BY <1>1, DueEnds
<1>3. ASSUME NEW k, k = 0 PROVE Total[SubSeq(d, 1, k)] = 0
  BY <1>2, <1>3
<1>4. ASSUME NEW k, k = m PROVE Total[SubSeq(d, 1, k)] = Total[d]
  BY <1>2, <1>4
<1>5. 1 - 1 = 0
  OBVIOUS
<1>6. Total[SubSeq(d, 1, 1 - 1)] = 0
  BY <1>3, <1>5, Zenon
<1>8. DueBefore(v, 1) = 0
  BY <1>6, Zenon DEF DueBefore, d
<1>9. ASSUME NEW n, n = m + 1 PROVE DueBefore(v, n) = Total[d]
  <2>1. n - 1 = m
    BY <1>1, <1>9
  <2>2. Total[SubSeq(d, 1, n - 1)] = Total[d]
    BY <1>4, <2>1, Zenon
  <2> QED BY <2>2 DEF DueBefore, d
<1> QED BY <1>8, <1>9, Zenon DEF d, m

\* What an argument that is looked up means for x.
LEMMA DueLead ==
    ASSUME NEW v, View(v), WayInv(v.fresh), next <= Len(case.args), Argument \notin case.skip,
           NEW r, r = remote_address(rt, Argument)
    PROVE  v.due[next] = IF FileNamed(r) THEN 0 ELSE One(v, r.kind, r.addr, case.hops)
<1> DEFINE a == Argument
<1>1. case \in Cases /\ rt \in Ready(v.fresh) /\ next \in Nat \ {0}
  BY DEF WayInv
<1>2. Asked(v) /\ Good(v.fresh) /\ case.hops \in Nat
  BY <1>1, ViewIs
<1>3. a \in Addresses
  BY ArgumentIs
<1>4. v.due[next] = IF a \in case.skip \/ FileNamed(remote_address(v.fresh, a)) THEN 0
                    ELSE Meant(v)[<<a, case.hops>>]
  <2>1. Len(case.args) \in Nat
    BY <1>1, DueIs
  <2>2. next \in 1..Len(case.args)
    BY <1>1, <2>1
  <2> QED BY <1>1, <2>2, DueIs DEF Argument
<1>a. a \notin case.skip /\ r = remote_address(rt, a)
  OBVIOUS
<1> HIDE DEF a
<1>5. SameLead(r, remote_address(v.fresh, a))
  BY <1>1, <1>2, <1>3, <1>a, LeadsAgree
<1>6. FileNamed(r) <=> FileNamed(remote_address(v.fresh, a))
  BY <1>5 DEF FileNamed, SameLead
<1>7. Meant(v)[<<a, case.hops>>] = One(v, r.kind, r.addr, case.hops)
  BY <1>1, <1>2, <1>3, <1>a, OneLead
<1> QED BY <1>4, <1>6, <1>7, <1>a, Zenon

-----------------------------------------------------------------------------
\* What is in hand for x.  A file that an argument names is refused.
FileCall(c, s) == s = <<>> /\ c.kind = "local" /\ Head(c.addrs).mark = "+"
CallDue(v, c, s) == IF c = Null \/ FileCall(c, s) THEN 0 ELSE ListDue(v, c.kind, c.addrs, c.hop)

\* Only remote addresses are gathered, and a local one is a user's name.
AloneOrRemote(kind, s) ==
    /\ kind # "remote" => Len(s) <= 1
    /\ kind = "local" => \A i \in DOMAIN s : ~Delimited(s[i])

FrameOrder(v, f) ==
    /\ {"user", "hop", "old"} \subseteq DOMAIN f
    /\ f.hop \in Nat /\ AloneOrRemote(f.kind, f.pcoll)
    /\ f.user \in DOMAIN v.forward
    /\ \A i \in DOMAIN f.rest : f.rest[i] \in ToSet(v.forward[f.user])

\* The meaning of "+" is on within forward files, and only there.
StackOrder(v, s) ==
    \A j \in DOMAIN s : FrameOrder(v, s[j]) /\ (s[j].old = IF j = 1 THEN FALSE ELSE TRUE)

Orderly(v) ==
    /\ ProcessForward = IF stack = <<>> THEN FALSE ELSE TRUE
    /\ call # Null => call.hop \in Nat /\ AloneOrRemote(call.kind, call.addrs)
    /\ StackOrder(v, stack)
    /\ next <= Len(case.args) + 1
    /\ stage = "flush" => next = Len(case.args) + 1 /\ remotes = Nobody

\* What x has got and what is in hand for him is what he is due.
Weight(v, o, c, s, g, h) == GotOf(v, o) + CallDue(v, c, s) + StackDue(v, s) + ListDue(v, "remote", g, h)
Balanced(v) == Weight(v, out, call, stack, remotes.addrs, case.hops) = DueBefore(v, next)

AtWork == stage \in {"args", "flush"}

MentionInv(v) ==
    /\ OutSums(out) /\ mishaps \in Nat
    /\ mishaps = 0 /\ AtWork => Orderly(v) /\ Balanced(v)
    /\ mishaps = 0 /\ ~AtWork => GotOf(v, out) = Total[v.due]

\* All that is known of a state between two steps.
Midway(v) ==
    /\ View(v) /\ WayInv(v.fresh) /\ MailInv
    /\ Orderly(v) /\ Balanced(v) /\ OutSums(out)

LEMMA MidwayIs ==
    ASSUME NEW v, Midway(v)
    PROVE  /\ case \in Cases /\ Asked(v) /\ Good(v.fresh) /\ case.hops \in Nat
           /\ rt \in Ready(v.fresh) /\ next \in Nat \ {0} /\ remotes.addrs \in Seq(Addresses)
           /\ StackSums(stack)
           /\ GotOf(v, out) \in Nat /\ StackDue(v, stack) \in Nat
           /\ ListDue(v, "remote", remotes.addrs, case.hops) \in Nat
           /\ call # Null => /\ call.addrs \in Seq(Addresses) /\ call.addrs # <<>> /\ call.hop \in Nat
                             /\ ListDue(v, call.kind, call.addrs, call.hop) \in Nat
           /\ CallDue(v, call, stack) \in Nat
<1>1. case \in Cases /\ rt \in Ready(v.fresh) /\ next \in Nat \ {0} /\ remotes.addrs \in Seq(Addresses)
  BY DEF Midway, WayInv
<1>2. Asked(v) /\ Good(v.fresh) /\ case.hops \in Nat
  BY <1>1, ViewIs DEF Midway
<1>3. StackSums(stack)
  <2>1. StackWay(v.fresh, stack) /\ StackOrder(v, stack)
    BY DEF Midway, WayInv, Orderly
  <2> QED BY <2>1 DEF StackSums, FrameSums, StackWay, StackOrder, FrameWay, FrameOrder
<1>4. ListDue(v, "remote", remotes.addrs, case.hops) \in Nat
  BY <1>1, <1>2, ListCounts
<1>5. call # Null => call.addrs \in Seq(Addresses) /\ call.addrs # <<>> /\ call.hop \in Nat
  BY DEF Midway, WayInv, CallWay, Orderly
<1>6. call # Null => ListDue(v, call.kind, call.addrs, call.hop) \in Nat
  BY <1>2, <1>5, ListCounts
<1>7. GotOf(v, out) \in Nat
  <2>1. OutSums(out)
    BY DEF Midway
  <2> DEFINE g == [k \in DOMAIN out |-> OfOut(v, out[k])]
  <2>2. g \in [DOMAIN out -> Nat] /\ Len(out) \in Nat /\ DOMAIN out = 1..Len(out)
    BY <2>1, OutMaps, Appended DEF OutSums
  <2> HIDE DEF g
  <2>3. g \in Seq(Nat)
    BY <2>2, OfLength
  <2> QED BY <2>3, TotalNat DEF GotOf, g
<1>8. StackDue(v, stack) \in Nat
  <2> DEFINE g == [j \in DOMAIN stack |-> FrameDue(v, stack[j])]
  <2>2. g \in [DOMAIN stack -> Nat] /\ Len(stack) \in Nat /\ DOMAIN stack = 1..Len(stack)
    BY <1>2, <1>3, StackMaps, Appended DEF StackSums
  <2> HIDE DEF g
  <2>3. g \in Seq(Nat)
    BY <2>2, OfLength
  <2> QED BY <2>3, TotalNat DEF StackDue, g
<1>9. CallDue(v, call, stack) \in Nat
  BY <1>6 DEF CallDue
<1> QED BY <1>1, <1>2, <1>3, <1>4, <1>5, <1>6, <1>7, <1>8, <1>9

\* The call of a lone local address.
LEMMA LocalCall ==
    ASSUME NEW v, Midway(v), call # Null, call.kind = "local"
    PROVE  /\ Addr \in Addresses /\ Addr = Head(call.addrs) /\ call.addrs = <<Addr>>
           /\ ListDue(v, call.kind, call.addrs, call.hop) = One(v, "local", Addr, call.hop)
<1> DEFINE s == call.addrs
<1>1. s \in Seq(Addresses) /\ s # <<>> /\ call.hop \in Nat /\ Asked(v)
  BY MidwayIs
<1>2. Len(s) <= 1 /\ \A i \in DOMAIN s : ~Delimited(s[i])
  BY DEF Midway, Orderly, AloneOrRemote
<1>3. Addr = user_at_node(rt, Head(s)).user
  BY DEF Addr
<1> HIDE DEF s
<1>4. /\ Head(s) \in Addresses /\ s = <<Head(s)>>
      /\ ListDue(v, call.kind, s, call.hop) = One(v, call.kind, Head(s), call.hop)
  BY <1>1, <1>2, ListAlone
<1>5. ~Delimited(Head(s))
  <2>1. 1 \in DOMAIN s /\ Head(s) = s[1]
    BY <1>1
  <2> QED BY <1>2, <2>1
<1>6. Addr = Head(s)
  BY <1>3, <1>5 DEF user_at_node
<1> QED BY <1>4, <1>6 DEF s

\* A call that ends without a delivery for x.
LEMMA CallEnds ==
    ASSUME NEW v, Midway(v), call # Null, call' = Null, CallDue(v, call, stack) = 0,
           UNCHANGED <<case, next, stage, remotes, stack, ProcessForward, out>>
    PROVE  Orderly(v)' /\ Balanced(v)'
<1>1. Orderly(v)'
  BY DEF Midway, Orderly
<1>2. CallDue(v, Null, stack) = 0
  BY DEF CallDue
<1>3. Balanced(v)'
  BY <1>2 DEF Midway, Balanced, Weight
<1> QED BY <1>1, <1>3

LEMMA DueTooManyHops ==
    ASSUME NEW v, Midway(v), TooManyHops
    PROVE  Orderly(v)' /\ Balanced(v)'
<1>1. /\ call # Null /\ call.hop + 1 > MAXHOPS /\ call' = Null
      /\ UNCHANGED <<case, next, stage, remotes, stack, ProcessForward, out>>
  BY DEF TooManyHops, Return, lmailvars
<1>2. ListDue(v, call.kind, call.addrs, call.hop) = 0
  BY <1>1, MidwayIs, ListTooFar
<1>3. CallDue(v, call, stack) = 0
  BY <1>2 DEF CallDue
<1> QED BY <1>1, <1>3, CallEnds

LEMMA DueNoSuchUser ==
    ASSUME NEW v, Midway(v), NoSuchUser
    PROVE  Orderly(v)' /\ Balanced(v)'
<1>1. /\ call # Null /\ call.kind = "local" /\ call' = Null /\ ~ToFile /\ ~Known
      /\ UNCHANGED <<case, next, stage, remotes, stack, ProcessForward, out>>
  BY DEF NoSuchUser, Local, Within, Return, lmailvars
<1>2. /\ Addr = Head(call.addrs)
      /\ ListDue(v, call.kind, call.addrs, call.hop) = One(v, "local", Addr, call.hop)
  BY <1>1, LocalCall
<1>3. ProcessForward = (IF stack = <<>> THEN FALSE ELSE TRUE) /\ v.forward = case.forward
  BY DEF Midway, Orderly, View
<1>4. CASE Addr.mark = "+"
  <2>1. stack = <<>>
    BY <1>1, <1>3, <1>4, Zenon DEF ToFile
  <2>2. CallDue(v, call, stack) = 0
    BY <1>1, <1>2, <1>4, <2>1 DEF CallDue, FileCall
  <2> QED BY <1>1, <2>2, CallEnds
<1>5. CASE Addr.mark # "+"
  <2>1. Addr.user \notin DOMAIN v.forward
    BY <1>1, <1>3, <1>5, Zenon DEF Known, Users
  <2>2. One(v, "local", Addr, call.hop) = 0
    BY <1>1, <1>5, <2>1, MidwayIs, OneUnknown
  <2>3. CallDue(v, call, stack) = 0
    BY <1>2, <2>2 DEF CallDue
  <2> QED BY <1>1, <2>3, CallEnds
<1> QED BY <1>4, <1>5

\* A delivery is for each of the addresses of the call.
LEMMA CallDelivers ==
    ASSUME NEW v, Midway(v), Delivers
    PROVE  CallDue(v, call, stack) = Count(call.addrs, v.x)
<1>1. call # Null /\ call.hop + 1 <= MAXHOPS /\ ~Forwards /\ ~(Local /\ ~ToFile /\ ~Known)
  BY DEF Delivers, Within
<1>2. call.addrs \in Seq(Addresses) /\ call.hop \in Nat
  BY <1>1, MidwayIs
<1>3. CASE call.kind # "local"
  <2>1. ListDue(v, call.kind, call.addrs, call.hop) = Count(call.addrs, v.x)
    BY <1>1, <1>2, <1>3, ListAway
  <2> QED BY <1>1, <1>3, <2>1 DEF CallDue, FileCall
<1>4. CASE call.kind = "local"
  <2>1. /\ Addr \in Addresses /\ Addr = Head(call.addrs) /\ call.addrs = <<Addr>>
        /\ ListDue(v, call.kind, call.addrs, call.hop) = One(v, "local", Addr, call.hop)
    BY <1>1, <1>4, LocalCall
  <2>2. ProcessForward = (IF stack = <<>> THEN FALSE ELSE TRUE) /\ v.forward = case.forward
    BY DEF Midway, Orderly, View
  <2>3. Local /\ (ToFile \/ Known)
    BY <1>1, <1>4, Zenon DEF Local, Within
  <2> DEFINE a == Addr
  <2>4. ~FileCall(call, stack)
    <3>1. CASE ToFile
      BY <2>2, <3>1, Zenon DEF ToFile, FileCall
    <3>2. CASE Known
      BY <2>1, <3>2, Zenon DEF Known, FileCall
    <3> QED BY <2>3, <3>1, <3>2
  <2>5. a.mark = "+" \/ (a.user \in DOMAIN v.forward /\ ~(a.mark = "" /\ v.forward[a.user] # <<>>))
    <3>1. CASE ToFile
      BY <3>1, Zenon DEF ToFile
    <3>2. CASE Known
      <4>1. a.user \in DOMAIN v.forward
        BY <2>2, <3>2, Zenon DEF Known, Users
      <4>2. ~(a.mark = "" /\ v.forward[a.user] # <<>>)
        BY <1>1, <2>2, <2>3, <3>2, Zenon DEF Forwards
      <4> QED BY <4>1, <4>2
    <3> QED BY <2>3, <3>1, <3>2
  <2> HIDE DEF a
  <2>6. One(v, "local", a, call.hop) = IsX(v, a)
    BY <1>1, <1>2, <2>5, OneHere
  <2>7. Count(call.addrs, v.x) = IF Addr = v.x THEN 1 ELSE 0
    BY <1>2, <2>1, CountIs
  <2> QED BY <1>1, <2>1, <2>4, <2>6, <2>7 DEF CallDue, IsX, a
<1> QED BY <1>3, <1>4

LEMMA DueWritten ==
    ASSUME NEW v, Midway(v), AtWork, NEW n, Written(n)
    PROVE  Orderly(v)' /\ Balanced(v)' /\ OutSums(out)'
<1>1. /\ Delivers /\ call # Null /\ call' = Null
      /\ UNCHANGED <<case, next, stage, remotes, stack, ProcessForward>>
  BY DEF Written, Delivers, Within, Return, lmailvars
<1>2. PICK r : out' = Append(out, [what |-> What, kind |-> call.kind, addrs |-> call.addrs,
                                   path |-> r.path, for |-> call.for, forwarded |-> stack # <<>>])
  BY DEF Written
<1> DEFINE e == [what |-> What, kind |-> call.kind, addrs |-> call.addrs,
                 path |-> r.path, for |-> call.for, forwarded |-> stack # <<>>]
<1>3. e.what = "mail" /\ e.addrs = call.addrs
  BY DEF What, AtWork
<1>4. out' = Append(out, e)
  BY <1>2
<1> HIDE DEF e
<1>5. e.addrs \in Seq(Addresses) /\ OutSums(out)
  BY <1>1, <1>3, MidwayIs DEF Midway
<1>6. OutSums(out') /\ GotOf(v, out') = GotOf(v, out) + OfOut(v, e) /\ OfOut(v, e) \in Nat
  BY <1>4, <1>5, OutMore
<1>7. OfOut(v, e) = CallDue(v, call, stack)
  BY <1>1, <1>3, CallDelivers DEF OfOut
<1>8. Orderly(v)'
  BY <1>1 DEF Midway, Orderly
<1>9. Balanced(v)'
  <2> DEFINE g == GotOf(v, out)
             c == CallDue(v, call, stack)
             s == StackDue(v, stack)
             w == ListDue(v, "remote", remotes.addrs, case.hops)
  <2>1. g \in Nat /\ c \in Nat /\ s \in Nat /\ w \in Nat
    BY MidwayIs
  <2>2. g + c + s + w = DueBefore(v, next)
    BY DEF Midway, Balanced, Weight
  <2>3. CallDue(v, Null, stack) = 0
    BY DEF CallDue
  <2>4. GotOf(v, out') = g + c
    BY <1>6, <1>7
  <2>5. Weight(v, out', Null, stack, remotes.addrs, case.hops) = (g + c) + 0 + s + w
    BY <2>3, <2>4 DEF Weight
  <2> HIDE DEF g, c, s, w
  <2>6. (g + c) + 0 + s + w = g + c + s + w
    BY <2>1
  <2> QED BY <1>1, <2>2, <2>5, <2>6 DEF Balanced
<1> QED BY <1>6, <1>8, <1>9

\* A frame goes on the stack, or takes the place of the innermost one.
LEMMA StackOn ==
    ASSUME NEW v, NEW s, Proper(s), StackOrder(v, s), NEW f, FrameOrder(v, f),
           f.old = IF s = <<>> THEN FALSE ELSE TRUE
    PROVE  StackOrder(v, Append(s, f)) /\ Append(s, f) # <<>>
<1> DEFINE t == Append(s, f)
           m == Len(s)
<1>1. /\ m \in Nat /\ DOMAIN s = 1..m /\ DOMAIN t = 1..(m + 1)
      /\ t[m + 1] = f /\ (\A i \in 1..m : t[i] = s[i]) /\ t # <<>>
  BY Appended
<1>2. s = <<>> <=> m = 0
  BY EmptySeq DEF Proper
<1> HIDE DEF t, m
<1>3. ASSUME NEW j \in DOMAIN t PROVE FrameOrder(v, t[j]) /\ (t[j].old = IF j = 1 THEN FALSE ELSE TRUE)
  <2>1. CASE j = m + 1
    <3>1. t[j] = f /\ (j = 1 <=> s = <<>>)
      BY <1>1, <1>2, <2>1
    <3> QED BY <3>1
  <2>2. CASE j # m + 1
    <3>1. j \in DOMAIN s /\ t[j] = s[j]
      BY <1>1, <1>3, <2>2
    <3> QED BY <3>1 DEF StackOrder
  <2> QED BY <2>1, <2>2
<1>4. StackOrder(v, t)
  BY <1>3 DEF StackOrder
<1> QED BY <1>1, <1>4 DEF t

LEMMA StackOff ==
    ASSUME NEW v, NEW s, Proper(s), s # <<>>, StackOrder(v, s)
    PROVE  /\ StackOrder(v, Front(s)) /\ Proper(Front(s)) /\ FrameOrder(v, Last(s))
           /\ Last(s).old = IF Front(s) = <<>> THEN FALSE ELSE TRUE
<1> DEFINE l == Front(s)
           m == Len(s)
<1>1. /\ Proper(l) /\ m \in Nat \ {0} /\ DOMAIN s = 1..m /\ Len(l) = m - 1
      /\ DOMAIN l = 1..(m - 1) /\ (\A j \in 1..(m - 1) : l[j] = s[j])
      /\ Last(s) = s[m]
  BY FrontAndLast
<1>2. l = <<>> <=> Len(l) = 0
  <2> DEFINE C == ToSet(l)
  <2>1. l \in Seq(C)
    BY <1>1 DEF Proper
  <2> HIDE DEF C, l
  <2> QED BY <2>1, EmptySeq
<1> HIDE DEF l, m
<1>3. m \in DOMAIN s /\ (m = 1 <=> l = <<>>) /\ \A j \in DOMAIN l : j \in DOMAIN s /\ l[j] = s[j]
  BY <1>1, <1>2
<1>4. StackOrder(v, l) /\ FrameOrder(v, Last(s))
  BY <1>1, <1>3 DEF StackOrder
<1>5. Last(s).old = IF m = 1 THEN FALSE ELSE TRUE
  BY <1>1, <1>3, Zenon DEF StackOrder
<1>6. Last(s).old = IF l = <<>> THEN FALSE ELSE TRUE
  BY <1>3, <1>5, Zenon
<1> QED BY <1>1, <1>4, <1>6 DEF l

LEMMA SameWeight ==
    ASSUME NEW v, Midway(v), NEW c, NEW s, CallDue(v, c, s) \in Nat, StackDue(v, s) \in Nat,
           CallDue(v, c, s) + StackDue(v, s) = CallDue(v, call, stack) + StackDue(v, stack)
    PROVE  Weight(v, out, c, s, remotes.addrs, case.hops) = DueBefore(v, next)
<1> DEFINE g == GotOf(v, out)
           w == ListDue(v, "remote", remotes.addrs, case.hops)
           k == CallDue(v, c, s)
           l == CallDue(v, call, stack)
           m == StackDue(v, s)
           n == StackDue(v, stack)
<1>1. g \in Nat /\ w \in Nat /\ k \in Nat /\ l \in Nat /\ m \in Nat /\ n \in Nat /\ k + m = l + n
  BY MidwayIs
<1>2. g + l + n + w = DueBefore(v, next)
  BY DEF Midway, Balanced, Weight
<1>3. Weight(v, out, c, s, remotes.addrs, case.hops) = g + k + m + w
  BY DEF Weight
<1> HIDE DEF g, w, k, l, m, n
<1>4. g + k + m + w = g + l + n + w
  BY <1>1
<1> QED BY <1>2, <1>3, <1>4

LEMMA TailOf ==
    ASSUME NEW l \in Seq(Addresses), l # <<>>
    PROVE  /\ Head(l) \in Addresses /\ Head(l) \in ToSet(l) /\ Tail(l) \in Seq(Addresses)
           /\ \A i \in DOMAIN Tail(l) : Tail(l)[i] \in ToSet(l)
<1> DEFINE t == Tail(l)
<1>1. /\ t \in Seq(Addresses) /\ 1 \in DOMAIN l /\ Head(l) = l[1] /\ l[1] \in Addresses
      /\ \A i \in DOMAIN t : i + 1 \in DOMAIN l /\ t[i] = l[i + 1]
  OBVIOUS
<1> HIDE DEF t
<1>2. \A i \in DOMAIN t : t[i] \in ToSet(l)
  BY <1>1 DEF ToSet
<1>3. Head(l) \in ToSet(l)
  BY <1>1 DEF ToSet
<1> QED BY <1>1, <1>2, <1>3 DEF t

\* The forward file that is opened, and what is due by it.
LEMMA FileOpened ==
    ASSUME NEW v, Midway(v), Forwards, NEW l, l = v.forward[Addr.user],
           NEW r, r = remote_address(rt, AfterOwn(Head(l))), NEW p
    PROVE  /\ ~Bad(AfterOwn(Head(l))) /\ ~AliasLoop(r, Addr.user)
           /\ FrameOrder(v, OpenedFrame(l, r, p)) /\ FrameSums(OpenedFrame(l, r, p))
           /\ OpenedFrame(l, r, p).old = ProcessForward
           /\ CallDue(v, call, stack) = FrameDue(v, OpenedFrame(l, r, p))
<1> DEFINE u == Addr.user
           a == AfterOwn(Head(l))
           hop == call.hop
           f == OpenedFrame(l, r, p)
           m == Meant(v)
<1>1. /\ Local /\ Known /\ Addr.mark = "" /\ v.forward = case.forward
      /\ call # Null /\ call.kind = "local" /\ hop + 1 <= MAXHOPS /\ u \in DOMAIN v.forward
      /\ l # <<>>
  BY DEF Forwards, Known, Users, Local, Within, Midway, View
<1>2. /\ Asked(v) /\ Good(v.fresh) /\ rt \in Ready(v.fresh) /\ hop \in Nat
      /\ Addr = Head(call.addrs) /\ ListDue(v, call.kind, call.addrs, hop) = One(v, "local", Addr, hop)
  BY <1>1, MidwayIs, LocalCall
<1>3. l \in Seq(Addresses)
  BY <1>1, <1>2 DEF Asked, FilesAreLists
<1>4. /\ Head(l) \in Addresses /\ Head(l) \in ToSet(l) /\ Tail(l) \in Seq(Addresses)
      /\ \A i \in DOMAIN Tail(l) : Tail(l)[i] \in ToSet(l)
  BY <1>1, <1>3, TailOf
<1>5. a \in Addresses
  BY <1>4, AfterOwnIs
<1>6. /\ SameLead(r, remote_address(v.fresh, a)) /\ (r.kind = "local" => ~Delimited(r.addr))
      /\ r.addr \in Addresses
  BY <1>2, <1>5, LeadsAgree, LeadsAnswer
<1>7. ~Bad(a) /\ ~AliasLoop(r, u)
  <2>1. ~Bad(a) /\ ~AliasLoop(remote_address(v.fresh, a), u)
    BY <1>1, <1>4 DEF Midway, View, ListsGood
  <2> QED BY <1>6, <2>1 DEF AliasLoop, SameLead
<1>8. /\ {"user", "hop", "old"} \subseteq DOMAIN f /\ f.user = u /\ f.rest = Tail(l)
      /\ f.pcoll = <<r.addr>>
      /\ f.kind = r.kind /\ f.hop = hop + 1 /\ f.old = ProcessForward
  BY DEF OpenedFrame
<1> HIDE DEF f, u, hop, a
<1>9. AloneOrRemote(r.kind, <<r.addr>>) /\ <<r.addr>> \in Seq(Addresses)
  <2> DEFINE b == r.addr
  <2>1. b \in Addresses
    BY <1>6
  <2> HIDE DEF b
  <2>2. <<b>> \in Seq(Addresses) /\ Len(<<b>>) = 1 /\ \A i \in DOMAIN <<b>> : <<b>>[i] = b
    BY <2>1
  <2>3. (r.kind = "local" => ~Delimited(b))
    BY <1>6 DEF b
  <2> QED BY <2>2, <2>3 DEF AloneOrRemote, b
<1>10. FrameOrder(v, f) /\ FrameSums(f)
  <2> DEFINE t == Tail(l)
             q == <<r.addr>>
             w == v.forward
  <2>a. l = w[u]
    BY DEF u
  <2>b. f.hop \in Nat
    <3>1. f.hop = hop + 1 /\ hop \in Nat
      BY <1>2, <1>8, Zenon
    <3> QED BY <3>1
  <2>1. /\ {"user", "hop", "old"} \subseteq DOMAIN f /\ f.user = u /\ f.rest = t /\ f.pcoll = q
        /\ f.kind = r.kind /\ f.hop \in Nat /\ t \in Seq(Addresses) /\ q \in Seq(Addresses)
        /\ AloneOrRemote(r.kind, q) /\ u \in DOMAIN w /\ l = w[u] /\ \A i \in DOMAIN t : t[i] \in ToSet(l)
    BY <1>1, <1>4, <1>8, <1>9, <2>a, <2>b, Zenon
  <2> HIDE DEF t, q, w
  <2>2. \A i \in DOMAIN f.rest : f.rest[i] \in ToSet(w[f.user])
    BY <2>1
  <2>3. FrameSums(f)
    BY <2>1 DEF FrameSums
  <2> QED BY <2>1, <2>2, <2>3 DEF FrameOrder, w
<1>11. One(v, "local", Addr, hop) = RestDue(m, l, hop + 1)
  BY <1>1, <1>2, OneForwarded DEF u
<1>12. RestDue(m, l, hop + 1) = m[<<a, hop + 1>>] + RestDue(m, Tail(l), hop + 1)
  <2>1. m \in MentionFcns /\ hop + 1 \in Nat
    BY <1>2, MeantIs
  <2> HIDE DEF m
  <2>2. RestDue(m, l, hop + 1) = m[<<AfterOwn(Head(l)), hop + 1>>] + RestDue(m, Tail(l), hop + 1)
    BY <1>1, <1>3, <2>1, RestHead
  <2> QED BY <2>2 DEF a
<1>13. m[<<a, hop + 1>>] = One(v, r.kind, r.addr, hop + 1)
  <2>1. hop + 1 \in Nat /\ r = remote_address(rt, a)
    BY <1>2 DEF a
  <2> QED BY <1>2, <1>5, <2>1, OneLead
<1>14. ListDue(v, r.kind, <<r.addr>>, hop + 1) = One(v, r.kind, r.addr, hop + 1)
  <2>1. hop + 1 \in Nat
    BY <1>2
  <2> QED BY <1>2, <1>6, <2>1, ListOne
<1>15. FrameDue(v, f) = One(v, "local", Addr, hop)
  BY <1>8, <1>11, <1>12, <1>13, <1>14 DEF FrameDue
<1>16. CallDue(v, call, stack) = One(v, "local", Addr, hop)
  BY <1>1, <1>2 DEF CallDue, FileCall, hop
<1> QED BY <1>7, <1>8, <1>10, <1>15, <1>16 DEF f, u, a

LEMMA DueOpened ==
    ASSUME NEW v, Midway(v), OpenForward
    PROVE  Orderly(v)' /\ Balanced(v)'
<1> DEFINE l == case.forward[Addr.user]
           a == AfterOwn(Head(l))
<1>0. Forwards /\ UNCHANGED <<case, next, stage, remotes, out>>
  BY DEF OpenForward, lmailvars
<1>1. PICK r, p :
        /\ r = remote_address(rt, a) /\ p = user_at_node(r.rt, r.addr)
        /\ ~Bad(a) /\ ~AliasLoop(r, Addr.user) =>
             /\ stack' = Append(stack, OpenedFrame(l, r, p))
             /\ ProcessForward' = TRUE /\ call' = Null
  BY Zenon DEF OpenForward
<1>2. l = v.forward[Addr.user]
  BY DEF Midway, View
<1> HIDE DEF l
<1> DEFINE f == OpenedFrame(l, r, p)
<1>3. /\ ~Bad(a) /\ ~AliasLoop(r, Addr.user)
      /\ FrameOrder(v, f) /\ FrameSums(f) /\ f.old = ProcessForward
      /\ CallDue(v, call, stack) = FrameDue(v, f)
  BY <1>0, <1>1, <1>2, FileOpened
<1>4. stack' = Append(stack, f) /\ ProcessForward' = TRUE /\ call' = Null
  BY <1>1, <1>3
<1> HIDE DEF f
<1>5. /\ StackOrder(v, stack) /\ ProcessForward = (IF stack = <<>> THEN FALSE ELSE TRUE)
      /\ StackSums(stack) /\ Proper(stack) /\ Asked(v)
  BY MidwayIs DEF Midway, Orderly, StackSums
<1>6. f.old = IF stack = <<>> THEN FALSE ELSE TRUE
  BY <1>3, <1>5, Zenon
<1>7. StackOrder(v, stack') /\ stack' # <<>>
  BY <1>3, <1>4, <1>5, <1>6, StackOn
<1>8. Orderly(v)'
  <2>1. ProcessForward' = IF stack' = <<>> THEN FALSE ELSE TRUE
    BY <1>4, <1>7, Zenon
  <2> QED BY <1>0, <1>4, <1>7, <2>1 DEF Midway, Orderly
<1>9. /\ StackDue(v, stack') = StackDue(v, stack) + FrameDue(v, f) /\ StackDue(v, stack) \in Nat
      /\ FrameDue(v, f) \in Nat
  BY <1>3, <1>4, <1>5, StackMore
<1>10. CallDue(v, call', stack') = 0
  BY <1>4 DEF CallDue
<1>11. CallDue(v, call', stack') \in Nat /\ StackDue(v, stack') \in Nat
       /\ CallDue(v, call', stack') + StackDue(v, stack') = CallDue(v, call, stack) + StackDue(v, stack)
  BY <1>3, <1>9, <1>10
<1>12. Weight(v, out, call', stack', remotes.addrs, case.hops) = DueBefore(v, next)
  <2> DEFINE c == call'
             s == stack'
  <2>1. CallDue(v, c, s) \in Nat /\ StackDue(v, s) \in Nat
        /\ CallDue(v, c, s) + StackDue(v, s) = CallDue(v, call, stack) + StackDue(v, stack)
    BY <1>11
  <2> HIDE DEF c, s
  <2>2. Weight(v, out, c, s, remotes.addrs, case.hops) = DueBefore(v, next)
    BY <2>1, SameWeight
  <2> QED BY <2>2 DEF c, s
<1>13. Balanced(v)'
  BY <1>0, <1>12 DEF Balanced
<1> QED BY <1>8, <1>13

LEMMA TopIs ==
    ASSUME NEW v, Midway(v), stack # <<>>
    PROVE  /\ FrameOrder(v, Top) /\ FrameSums(Top) /\ FrameWay(v.fresh, Top)
           /\ Top.old = IF Front(stack) = <<>> THEN FALSE ELSE TRUE
           /\ StackSums(Front(stack)) /\ StackOrder(v, Front(stack)) /\ Proper(Front(stack))
           /\ StackDue(v, stack) = StackDue(v, Front(stack)) + FrameDue(v, Top)
           /\ StackDue(v, Front(stack)) \in Nat /\ FrameDue(v, Top) \in Nat
<1>1. Asked(v) /\ StackSums(stack) /\ Proper(stack) /\ StackOrder(v, stack) /\ StackWay(v.fresh, stack)
  BY MidwayIs DEF StackSums, Midway, Orderly, WayInv
<1>2. FrameWay(v.fresh, Top)
  BY <1>1, LastOfStack
<1>3. Top = Last(stack)
  BY DEF Top
<1> QED BY <1>1, <1>2, <1>3, StackOff, StackTop

\* The work of a frame is partly done, or handed on to a call.
LEMMA FramePut ==
    ASSUME NEW v, Midway(v), stack # <<>>, call = Null,
           NEW g, Put(g), FrameOrder(v, g), FrameSums(g), g.old = Top.old,
           UNCHANGED <<case, next, stage, remotes, ProcessForward, out>>,
           \/ call' = Null /\ FrameDue(v, g) = FrameDue(v, Top)
           \/ /\ call' # Null /\ call'.hop \in Nat /\ AloneOrRemote(call'.kind, call'.addrs)
              /\ ListDue(v, call'.kind, call'.addrs, call'.hop) \in Nat
              /\ ListDue(v, call'.kind, call'.addrs, call'.hop) + FrameDue(v, g) = FrameDue(v, Top)
    PROVE  Orderly(v)' /\ Balanced(v)'
<1> DEFINE s == Front(stack)
           f == Top
<1>1. /\ stack' = Append(s, g)
      /\ f.old = IF s = <<>> THEN FALSE ELSE TRUE
      /\ StackSums(s) /\ StackOrder(v, s) /\ Proper(s) /\ Asked(v)
      /\ StackDue(v, stack) = StackDue(v, s) + FrameDue(v, f)
      /\ StackDue(v, s) \in Nat /\ FrameDue(v, f) \in Nat
  BY TopIs, MidwayIs DEF Put
<1> HIDE DEF s, f
<1>2. g.old = IF s = <<>> THEN FALSE ELSE TRUE
  BY <1>1, Zenon DEF f
<1>3. StackOrder(v, stack') /\ stack' # <<>>
  BY <1>1, <1>2, StackOn
<1>4. /\ StackDue(v, stack') = StackDue(v, s) + FrameDue(v, g) /\ FrameDue(v, g) \in Nat
  BY <1>1, StackMore
<1>5. Orderly(v)'
  <2>1. ProcessForward' = IF stack' = <<>> THEN FALSE ELSE TRUE
    BY <1>3, Zenon DEF Midway, Orderly
  <2> QED BY <1>3, <2>1 DEF Midway, Orderly
<1>6. CallDue(v, call, stack) = 0
  BY DEF CallDue
<1>7. CallDue(v, call', stack') \in Nat /\ CallDue(v, call', stack') + FrameDue(v, g) = FrameDue(v, f)
  <2>1. CASE call' = Null /\ FrameDue(v, g) = FrameDue(v, Top)
    BY <1>4, <2>1 DEF CallDue, f
  <2>2. CASE call' # Null
    <3>1. CallDue(v, call', stack') = ListDue(v, call'.kind, call'.addrs, call'.hop)
      BY <1>3, <2>2 DEF CallDue, FileCall
    <3> QED BY <2>2, <3>1 DEF f
  <2> QED BY <2>1, <2>2
<1>8. /\ CallDue(v, call', stack') \in Nat /\ StackDue(v, stack') \in Nat
      /\ CallDue(v, call', stack') + StackDue(v, stack') = CallDue(v, call, stack) + StackDue(v, stack)
  <2> DEFINE k == CallDue(v, call', stack')
             m == StackDue(v, s)
             n == FrameDue(v, g)
             l == FrameDue(v, f)
  <2>1. k \in Nat /\ m \in Nat /\ n \in Nat /\ l \in Nat /\ k + n = l
    BY <1>1, <1>4, <1>7
  <2>2. /\ StackDue(v, stack') = m + n /\ StackDue(v, stack) = m + l /\ CallDue(v, call, stack) = 0
    BY <1>1, <1>4, <1>6
  <2> HIDE DEF k, m, n, l
  <2>3. k + (m + n) = 0 + (m + l) /\ m + n \in Nat
    BY <2>1
  <2>4. k \in Nat /\ StackDue(v, stack') \in Nat
        /\ k + StackDue(v, stack') = CallDue(v, call, stack) + StackDue(v, stack)
    BY <2>1, <2>2, <2>3
  <2> QED BY <2>4 DEF k
<1>9. Weight(v, out, call', stack', remotes.addrs, case.hops) = DueBefore(v, next)
  <2> DEFINE c == call'
             t == stack'
  <2>1. CallDue(v, c, t) \in Nat /\ StackDue(v, t) \in Nat
        /\ CallDue(v, c, t) + StackDue(v, t) = CallDue(v, call, stack) + StackDue(v, stack)
    BY <1>8
  <2> HIDE DEF c, t
  <2>2. Weight(v, out, c, t, remotes.addrs, case.hops) = DueBefore(v, next)
    BY <2>1, SameWeight
  <2> QED BY <2>2 DEF c, t
<1>10. Balanced(v)'
  BY <1>9 DEF Balanced
<1> QED BY <1>5, <1>10

LEMMA DueForwardLast ==
    ASSUME NEW v, Midway(v), NullIsNoCall, ForwardLast
    PROVE  Orderly(v)' /\ Balanced(v)'
<1> DEFINE f == Top
           g == [f EXCEPT !.pcoll = <<>>]
<1>0. /\ stack # <<>> /\ f.rest = <<>> /\ f.pcoll # <<>> /\ call = Null
      /\ call' = Call(f.pcoll, f.kind, f.hop, f.for) /\ Put(g)
      /\ UNCHANGED <<case, next, stage, remotes, ProcessForward, out>>
  BY DEF ForwardLast, InForward, Pending, lmailvars
<1>1. FrameOrder(v, f) /\ FrameSums(f) /\ FrameWay(v.fresh, f) /\ Asked(v)
  BY <1>0, TopIs, MidwayIs
<1> HIDE DEF f
<1>2. {"rest", "pcoll", "kind", "path", "user", "hop", "old"} \subseteq DOMAIN f
  BY <1>1 DEF FrameWay, FrameOrder
<1>3. /\ g.rest = <<>> /\ g.pcoll = <<>> /\ g.kind = f.kind /\ g.user = f.user /\ g.hop = f.hop
      /\ g.old = f.old
      /\ DOMAIN g = DOMAIN f
  BY <1>0, <1>2
<1> HIDE DEF g
<1>4. /\ <<>> \in Seq(Addresses) /\ AloneOrRemote(g.kind, <<>>) /\ f.hop \in Nat
      /\ f.pcoll \in Seq(Addresses)
  <2>1. Len(<<>>) <= 1 /\ DOMAIN <<>> = {}
    OBVIOUS
  <2>2. AloneOrRemote(g.kind, <<>>)
    BY <2>1 DEF AloneOrRemote
  <2> QED BY <1>1, <2>2, EmptySeq DEF FrameSums
<1>5. FrameOrder(v, g) /\ FrameSums(g)
  BY <1>1, <1>2, <1>3, <1>4 DEF FrameOrder, FrameSums
<1>6. FrameDue(v, g) = 0
  <2>1. ListDue(v, g.kind, <<>>, g.hop) = 0 /\ RestDue(Meant(v), <<>>, g.hop) = 0
    BY ListEmpty, RestEmpty
  <2> QED BY <1>3, <2>1 DEF FrameDue
<1>7. FrameDue(v, f) = ListDue(v, f.kind, f.pcoll, f.hop)
  <2>1. RestDue(Meant(v), <<>>, f.hop) = 0
    BY RestEmpty
  <2>2. ListDue(v, f.kind, f.pcoll, f.hop) \in Nat
    BY <1>1, FrameCounts
  <2> QED BY <1>0, <2>1, <2>2 DEF FrameDue
<1>8. /\ call' # Null /\ call'.hop = f.hop /\ call'.kind = f.kind /\ call'.addrs = f.pcoll
  BY <1>0 DEF NullIsNoCall, Call
<1>9. /\ call'.hop \in Nat /\ AloneOrRemote(call'.kind, call'.addrs)
      /\ ListDue(v, call'.kind, call'.addrs, call'.hop) \in Nat
      /\ ListDue(v, call'.kind, call'.addrs, call'.hop) + FrameDue(v, g) = FrameDue(v, f)
  <2>1. ListDue(v, f.kind, f.pcoll, f.hop) \in Nat
    BY <1>1, FrameCounts
  <2> QED BY <1>1, <1>4, <1>6, <1>7, <1>8, <2>1 DEF FrameOrder
<1> QED BY <1>0, <1>3, <1>5, <1>8, <1>9, FramePut DEF f

LEMMA DueForwardReturned ==
    ASSUME NEW v, Midway(v), ForwardReturned
    PROVE  Orderly(v)' /\ Balanced(v)'
<1> DEFINE f == Top
           w == IF ret # 0 THEN ret ELSE f.status
           g == [f EXCEPT !.status = w]
<1>0. /\ stack # <<>> /\ call = Null /\ call' = Null
      /\ UNCHANGED <<case, next, stage, remotes, ProcessForward, out>>
      /\ stack' = Append(Front(stack), [Top EXCEPT !.status = IF ret # 0 THEN ret ELSE @])
  BY DEF ForwardReturned, Put, lmailvars
<1>1. FrameOrder(v, f) /\ FrameSums(f) /\ FrameWay(v.fresh, f) /\ Asked(v)
  BY <1>0, TopIs, MidwayIs
<1>2. stack' = Append(Front(stack), g)
  BY <1>0
<1> HIDE DEF f, w
<1>3. {"rest", "pcoll", "kind", "path", "user", "hop", "old"} \subseteq DOMAIN f
  BY <1>1 DEF FrameWay, FrameOrder
<1>4. /\ g.rest = f.rest /\ g.pcoll = f.pcoll /\ g.kind = f.kind /\ g.user = f.user /\ g.hop = f.hop
      /\ g.old = f.old /\ DOMAIN g = DOMAIN f
  BY <1>3
<1> HIDE DEF g
<1>5. FrameOrder(v, g) /\ FrameSums(g) /\ FrameDue(v, g) = FrameDue(v, f)
  BY <1>1, <1>4 DEF FrameOrder, FrameSums, FrameDue
<1> QED BY <1>0, <1>2, <1>4, <1>5, FramePut DEF f, Put

LEMMA DueForwardEnd ==
    ASSUME NEW v, Midway(v), ForwardEnd
    PROVE  Orderly(v)' /\ Balanced(v)'
<1>0. /\ stack # <<>> /\ Top.rest = <<>> /\ Top.pcoll = <<>> /\ call = Null /\ call' = Null
      /\ ProcessForward' = Top.old /\ stack' = Front(stack)
      /\ UNCHANGED <<case, next, stage, remotes, out>>
  BY DEF ForwardEnd, InForward, ReturnForward, Pending, lmailvars
<1>1. /\ Top.old = (IF Front(stack) = <<>> THEN FALSE ELSE TRUE) /\ StackOrder(v, Front(stack))
      /\ StackDue(v, stack) = StackDue(v, Front(stack)) + FrameDue(v, Top)
      /\ StackDue(v, Front(stack)) \in Nat
  BY <1>0, TopIs
<1>2. Orderly(v)'
  <2>1. ProcessForward' = IF stack' = <<>> THEN FALSE ELSE TRUE
    BY <1>0, <1>1, Zenon
  <2> QED BY <1>0, <1>1, <2>1 DEF Midway, Orderly
<1>3. FrameDue(v, Top) = 0
  <2> DEFINE f == Top
  <2>1. ListDue(v, f.kind, <<>>, f.hop) = 0 /\ RestDue(Meant(v), <<>>, f.hop) = 0
    BY ListEmpty, RestEmpty
  <2>2. f.rest = <<>> /\ f.pcoll = <<>>
    BY <1>0
  <2> HIDE DEF f
  <2>3. FrameDue(v, f) = 0
    BY <2>1, <2>2 DEF FrameDue
  <2> QED BY <2>3 DEF f
<1> DEFINE s == Front(stack)
<1>4. CallDue(v, Null, s) = 0 /\ CallDue(v, call, stack) = 0
  BY <1>0 DEF CallDue
<1>5. StackDue(v, stack) = StackDue(v, s) /\ StackDue(v, s) \in Nat
  BY <1>1, <1>3
<1>6. Weight(v, out, Null, s, remotes.addrs, case.hops) = DueBefore(v, next)
  <2> HIDE DEF s
  <2>1. /\ CallDue(v, Null, s) \in Nat /\ StackDue(v, s) \in Nat
        /\ CallDue(v, Null, s) + StackDue(v, s) = CallDue(v, call, stack) + StackDue(v, stack)
    BY <1>4, <1>5
  <2> QED BY <2>1, SameWeight
<1>7. Balanced(v)'
  BY <1>0, <1>6 DEF Balanced
<1> QED BY <1>2, <1>7

\* The next address of a frame, which joins those gathered or is taken anew.
GatherFields == {"rest", "pcoll", "kind", "path", "user", "hop", "old"}

LEMMA GatheredIs ==
    ASSUME NEW f, GatherFields \subseteq DOMAIN f, NEW r
    PROVE  /\ Gathered(f, r).rest = Tail(f.rest) /\ Gathered(f, r).pcoll = Append(f.pcoll, r.addr)
           /\ Gathered(f, r).kind = f.kind /\ Gathered(f, r).user = f.user
           /\ Gathered(f, r).hop = f.hop /\ Gathered(f, r).old = f.old
           /\ DOMAIN Gathered(f, r) = DOMAIN f
<1> DEFINE g == Gathered(f, r)
           x == Append(f.pcoll, r.addr)
           y == Tail(f.rest)
           h == [f EXCEPT !.rest = y]
<1>1. g = [h EXCEPT !.pcoll = x]
  <2>1. g = [f EXCEPT !.rest = Tail(f.rest), !.pcoll = Append(f.pcoll, r.addr)]
    BY DEF Gathered
  <2> QED BY <2>1, Zenon
<1> HIDE DEF g, x, y, h
<1>2. /\ DOMAIN h = DOMAIN f /\ h.rest = y /\ h.kind = f.kind /\ h.user = f.user /\ h.hop = f.hop
      /\ h.old = f.old
  BY DEF h, GatherFields
<1>3. /\ DOMAIN g = DOMAIN f /\ g.rest = y /\ g.pcoll = x /\ g.kind = f.kind /\ g.user = f.user
      /\ g.hop = f.hop /\ g.old = f.old
  BY <1>1, <1>2 DEF GatherFields
<1> QED BY <1>3 DEF g, x, y

LEMMA AnewIs ==
    ASSUME NEW f, GatherFields \subseteq DOMAIN f, NEW r, NEW p
    PROVE  /\ Anew(f, r, p).rest = Tail(f.rest) /\ Anew(f, r, p).pcoll = <<r.addr>>
           /\ Anew(f, r, p).kind = r.kind /\ Anew(f, r, p).user = f.user
           /\ Anew(f, r, p).hop = f.hop /\ Anew(f, r, p).old = f.old
           /\ DOMAIN Anew(f, r, p) = DOMAIN f
<1> DEFINE g == Anew(f, r, p)
           x == <<r.addr>>
           y == Tail(f.rest)
           z == ListPath(r, p)
           w == r.kind
           h == [f EXCEPT !.rest = y]
           i == [h EXCEPT !.pcoll = x]
           j == [i EXCEPT !.kind = w]
<1>1. g = [j EXCEPT !.path = z]
  <2>1. g = [f EXCEPT !.rest = Tail(f.rest), !.pcoll = <<r.addr>>, !.kind = r.kind,
                      !.path = ListPath(r, p)]
    BY DEF Anew
  <2> QED BY <2>1, Zenon
<1> HIDE DEF g, x, y, z, w, h, i, j
<1>2. DOMAIN h = DOMAIN f /\ h.rest = y /\ h.user = f.user /\ h.hop = f.hop /\ h.old = f.old
  BY DEF h, GatherFields
<1>3. /\ DOMAIN i = DOMAIN f /\ i.rest = y /\ i.pcoll = x /\ i.user = f.user /\ i.hop = f.hop
      /\ i.old = f.old
  BY <1>2 DEF i, GatherFields
<1>4. /\ DOMAIN j = DOMAIN f /\ j.rest = y /\ j.pcoll = x /\ j.kind = w /\ j.user = f.user
      /\ j.hop = f.hop /\ j.old = f.old
  BY <1>3 DEF j, GatherFields
<1>5. /\ DOMAIN g = DOMAIN f /\ g.rest = y /\ g.pcoll = x /\ g.kind = w /\ g.user = f.user
      /\ g.hop = f.hop /\ g.old = f.old
  BY <1>1, <1>4 DEF GatherFields
<1> QED BY <1>5 DEF g, x, y, w

LEMMA OneAlone ==
    ASSUME NEW b \in Addresses, NEW kind, kind = "local" => ~Delimited(b)
    PROVE  AloneOrRemote(kind, <<b>>) /\ <<b>> \in Seq(Addresses)
<1>1. <<b>> \in Seq(Addresses) /\ Len(<<b>>) = 1 /\ \A i \in DOMAIN <<b>> : <<b>>[i] = b
  OBVIOUS
<1> QED BY <1>1 DEF AloneOrRemote

\* What is due by the next address.
LEMMA NextLead ==
    ASSUME NEW v, Midway(v), stack # <<>>, NEW f, f = Top, f.rest # <<>>,
           NEW r, r = remote_address(rt, AfterOwn(Head(f.rest)))
    PROVE  /\ ~Bad(AfterOwn(Head(f.rest))) /\ ~AliasLoop(r, f.user)
           /\ r.addr \in Addresses /\ (r.kind = "local" => ~Delimited(r.addr))
           /\ Tail(f.rest) \in Seq(Addresses)
           /\ \A i \in DOMAIN Tail(f.rest) : Tail(f.rest)[i] \in ToSet(v.forward[f.user])
           /\ RestDue(Meant(v), f.rest, f.hop)
                = One(v, r.kind, r.addr, f.hop) + RestDue(Meant(v), Tail(f.rest), f.hop)
           /\ One(v, r.kind, r.addr, f.hop) \in Nat /\ RestDue(Meant(v), Tail(f.rest), f.hop) \in Nat
<1> DEFINE l == f.rest
           a == AfterOwn(Head(l))
           m == Meant(v)
           w == v.forward[f.user]
           hop == f.hop
<1>1. /\ Asked(v) /\ Good(v.fresh) /\ rt \in Ready(v.fresh)
      /\ FrameOrder(v, f) /\ FrameSums(f)
  BY MidwayIs, TopIs
<1>2. /\ l \in Seq(Addresses) /\ hop \in Nat /\ f.user \in DOMAIN v.forward
      /\ \A i \in DOMAIN l : l[i] \in ToSet(w)
  BY <1>1 DEF FrameOrder, FrameSums
<1>3. Head(l) \in Addresses /\ Head(l) \in ToSet(w) /\ Tail(l) \in Seq(Addresses)
      /\ \A i \in DOMAIN Tail(l) : Tail(l)[i] \in ToSet(w)
  <2> HIDE DEF l, w
  <2>0. l # <<>>
    BY DEF l
  <2> DEFINE t == Tail(l)
  <2>1. /\ t \in Seq(Addresses) /\ 1 \in DOMAIN l /\ Head(l) = l[1] /\ l[1] \in Addresses
        /\ \A i \in DOMAIN t : i + 1 \in DOMAIN l /\ t[i] = l[i + 1]
    BY <1>2, <2>0
  <2> HIDE DEF t
  <2>2. \A i \in DOMAIN t : t[i] \in ToSet(w)
    BY <1>2, <2>1
  <2>3. Head(l) \in ToSet(w)
    BY <1>2, <2>1
  <2> QED BY <2>1, <2>2, <2>3 DEF t
<1>4. a \in Addresses
  BY <1>3, AfterOwnIs
<1>5. ~Bad(a) /\ ~AliasLoop(remote_address(v.fresh, a), f.user)
  BY <1>2, <1>3 DEF Midway, View, ListsGood
<1>6. m \in MentionFcns
  BY <1>1, MeantIs
<1> HIDE DEF m, w
<1>7. /\ RestDue(m, l, hop) = m[<<a, hop>>] + RestDue(m, Tail(l), hop)
      /\ RestDue(m, Tail(l), hop) \in Nat /\ m[<<a, hop>>] \in Nat
  <2> HIDE DEF l, hop
  <2>1. l # <<>>
    BY DEF l
  <2> QED BY <1>2, <1>6, <2>1, RestHead DEF a
<1>8. r = remote_address(rt, a)
  OBVIOUS
<1> HIDE DEF a
<1>9. /\ SameLead(r, remote_address(v.fresh, a)) /\ (r.kind = "local" => ~Delimited(r.addr))
      /\ r.addr \in Addresses
  BY <1>1, <1>4, <1>8, LeadsAgree, LeadsAnswer
<1>10. ~AliasLoop(r, f.user)
  BY <1>5, <1>9 DEF AliasLoop, SameLead
<1>11. m[<<a, hop>>] = One(v, r.kind, r.addr, hop)
  BY <1>1, <1>2, <1>4, <1>8, OneLead DEF m
<1> QED BY <1>3, <1>5, <1>7, <1>9, <1>10, <1>11 DEF a, m, w

LEMMA DueForwardNext ==
    ASSUME NEW v, Midway(v), NullIsNoCall, ForwardNext
    PROVE  Orderly(v)' /\ Balanced(v)'
<1> DEFINE f == Top
           a == AfterOwn(Head(f.rest))
           hop == f.hop
           m == Meant(v)
<1>0. /\ stack # <<>> /\ call = Null /\ f.rest # <<>>
      /\ UNCHANGED <<case, next, stage, remotes, out>>
  BY DEF ForwardNext, InForward, lmailvars
<1>1. PICK r, p :
        /\ r = remote_address(rt, a)
        /\ ~Bad(a) /\ ~AliasLoop(r, f.user) =>
              /\ \/ Joins(f, r.kind, ListPath(r, p)) /\ Put(Gathered(f, r)) /\ UNCHANGED call
                 \/ Put(Anew(f, r, p)) /\ call' = Call(f.pcoll, f.kind, f.hop, f.for)
              /\ UNCHANGED ProcessForward
  <2>1. \E g \in {Top} : \E b \in {AfterOwn(Head(g.rest))} :
        \E r \in {remote_address(rt, b)} : \E p \in {user_at_node(r.rt, r.addr)} :
        \/ Bad(b)
        \/ AliasLoop(r, g.user)
        \/ /\ \/ Joins(g, r.kind, ListPath(r, p)) /\ Put(Gathered(g, r)) /\ UNCHANGED call
              \/ Put(Anew(g, r, p)) /\ call' = Call(g.pcoll, g.kind, g.hop, g.for)
           /\ UNCHANGED ProcessForward
    BY DEF ForwardNext
  <2> QED BY <2>1, Zenon
<1>2. /\ FrameOrder(v, f) /\ FrameSums(f) /\ FrameWay(v.fresh, f) /\ Asked(v)
  BY <1>0, TopIs, MidwayIs
<1>3. /\ ~Bad(a) /\ ~AliasLoop(r, f.user)
      /\ r.addr \in Addresses /\ (r.kind = "local" => ~Delimited(r.addr))
      /\ Tail(f.rest) \in Seq(Addresses)
      /\ \A i \in DOMAIN Tail(f.rest) : Tail(f.rest)[i] \in ToSet(v.forward[f.user])
      /\ RestDue(m, f.rest, hop) = One(v, r.kind, r.addr, hop) + RestDue(m, Tail(f.rest), hop)
      /\ One(v, r.kind, r.addr, hop) \in Nat /\ RestDue(m, Tail(f.rest), hop) \in Nat
  BY <1>0, <1>1, NextLead
<1> HIDE DEF f
<1>4. /\ GatherFields \subseteq DOMAIN f /\ f.pcoll \in Seq(Addresses) /\ f.pcoll # <<>>
      /\ hop \in Nat /\ AloneOrRemote(f.kind, f.pcoll) /\ f.user \in DOMAIN v.forward
  BY <1>0, <1>2 DEF FrameWay, FrameOrder, FrameSums, GatherFields
<1>5. /\ ListDue(v, f.kind, f.pcoll, hop) \in Nat
      /\ FrameDue(v, f) = ListDue(v, f.kind, f.pcoll, hop) + RestDue(m, f.rest, hop)
  BY <1>2, FrameCounts DEF FrameDue
<1> HIDE DEF a, m, hop
<1>6. CASE Joins(f, r.kind, ListPath(r, p)) /\ Put(Gathered(f, r)) /\ UNCHANGED <<call, ProcessForward>>
  <2> DEFINE g == Gathered(f, r)
             b == r.addr
             s == f.pcoll
             t == Tail(f.rest)
  <2>1. /\ g.rest = t /\ g.pcoll = Append(s, b) /\ g.kind = f.kind
        /\ g.user = f.user /\ g.hop = hop /\ g.old = f.old /\ DOMAIN g = DOMAIN f
    BY <1>4, GatheredIs DEF hop
  <2>2. f.kind = "remote" /\ r.kind = "remote"
    BY <1>6 DEF Joins
  <2>a. b \in Addresses /\ s \in Seq(Addresses) /\ t \in Seq(Addresses)
        /\ \A i \in DOMAIN t : t[i] \in ToSet(v.forward[f.user])
    BY <1>3, <1>4
  <2> HIDE DEF g, b, s, t
  <2>3. /\ ListDue(v, "remote", Append(s, b), hop) = ListDue(v, "remote", s, hop) + One(v, "remote", b, hop)
        /\ Append(s, b) \in Seq(Addresses)
    BY <1>2, <1>4, <2>a, ListMore
  <2>4. FrameSums(g)
    BY <1>4, <2>1, <2>3, <2>a DEF FrameSums
  <2>5. FrameOrder(v, g)
    <3>1. AloneOrRemote(g.kind, g.pcoll)
      BY <2>1, <2>2 DEF AloneOrRemote
    <3> QED BY <1>4, <2>1, <2>a, <3>1 DEF FrameOrder, GatherFields
  <2>6. FrameDue(v, g) = FrameDue(v, f)
    <3> DEFINE x == ListDue(v, "remote", s, hop)
               y == One(v, "remote", b, hop)
               z == RestDue(m, t, hop)
    <3>1. x \in Nat /\ y \in Nat /\ z \in Nat
      BY <1>3, <1>5, <2>2 DEF b, s, t
    <3>2. FrameDue(v, g) = (x + y) + z
      BY <2>1, <2>2, <2>3 DEF FrameDue, m
    <3>3. FrameDue(v, f) = x + (y + z)
      BY <1>3, <1>5, <2>2 DEF b, s, t
    <3> HIDE DEF x, y, z
    <3> QED BY <3>1, <3>2, <3>3
  <2>7. Put(g)
    BY <1>6 DEF g
  <2> QED BY <1>0, <1>6, <2>1, <2>4, <2>5, <2>6, <2>7, FramePut DEF f
<1>7. CASE /\ Put(Anew(f, r, p)) /\ call' = Call(f.pcoll, f.kind, f.hop, f.for)
           /\ UNCHANGED ProcessForward
  <2> DEFINE g == Anew(f, r, p)
             b == r.addr
             q == <<b>>
             s == f.pcoll
             t == Tail(f.rest)
  <2>1. /\ g.rest = t /\ g.pcoll = q /\ g.kind = r.kind
        /\ g.user = f.user /\ g.hop = hop /\ g.old = f.old /\ DOMAIN g = DOMAIN f
    BY <1>4, AnewIs DEF hop
  <2>a. b \in Addresses /\ s \in Seq(Addresses) /\ t \in Seq(Addresses)
        /\ (\A i \in DOMAIN t : t[i] \in ToSet(v.forward[f.user]))
        /\ (r.kind = "local" => ~Delimited(b))
    BY <1>3, <1>4
  <2> HIDE DEF b
  <2>b. AloneOrRemote(r.kind, q) /\ q \in Seq(Addresses)
    BY <2>a, OneAlone
  <2>c. ListDue(v, r.kind, q, hop) = One(v, r.kind, b, hop)
    BY <1>2, <1>4, <2>a, ListOne
  <2> HIDE DEF g, q, s, t
  <2>4. FrameSums(g)
    BY <1>4, <2>1, <2>b, <2>a DEF FrameSums
  <2>5. FrameOrder(v, g)
    BY <1>4, <2>1, <2>a, <2>b DEF FrameOrder, GatherFields
  <2>6. /\ call' # Null /\ call'.hop = hop /\ call'.kind = f.kind /\ call'.addrs = s
    BY <1>7 DEF NullIsNoCall, Call, hop, s
  <2>7. ListDue(v, f.kind, s, hop) + FrameDue(v, g) = FrameDue(v, f)
    <3> DEFINE x == ListDue(v, f.kind, s, hop)
               y == One(v, r.kind, b, hop)
               z == RestDue(m, t, hop)
    <3>1. x \in Nat /\ y \in Nat /\ z \in Nat
      BY <1>3, <1>5 DEF b, s, t
    <3>2. FrameDue(v, g) = y + z
      BY <2>1, <2>c DEF FrameDue, m
    <3>3. FrameDue(v, f) = x + (y + z)
      BY <1>3, <1>5 DEF b, s, t
    <3> HIDE DEF x, y, z
    <3>4. x + FrameDue(v, g) = FrameDue(v, f)
      BY <3>1, <3>2, <3>3
    <3> QED BY <3>4 DEF x
  <2>8. /\ call'.hop \in Nat /\ AloneOrRemote(call'.kind, call'.addrs)
        /\ ListDue(v, call'.kind, call'.addrs, call'.hop) \in Nat
        /\ ListDue(v, call'.kind, call'.addrs, call'.hop) + FrameDue(v, g) = FrameDue(v, f)
    BY <1>4, <1>5, <2>6, <2>7 DEF s
  <2>9. Put(g)
    BY <1>7 DEF g
  <2> QED BY <1>0, <1>7, <2>1, <2>4, <2>5, <2>6, <2>8, <2>9, FramePut DEF f
<1> QED BY <1>0, <1>1, <1>3, <1>6, <1>7 DEF a

-----------------------------------------------------------------------------
\* lmail takes an argument: what it is due is gathered, or in a call.
LEMMA ArgumentTaken ==
    ASSUME NEW v, Midway(v), stage = "args", stack = <<>>, call = Null, next <= Len(case.args),
           next' = next + 1, UNCHANGED <<case, stage, stack, ProcessForward, out>>,
           call' # Null => call'.hop \in Nat /\ AloneOrRemote(call'.kind, call'.addrs),
           NEW k \in Nat, k = CallDue(v, call', <<>>),
           NEW w \in Nat, w = ListDue(v, "remote", remotes.addrs, case.hops)',
           k + w = ListDue(v, "remote", remotes.addrs, case.hops) + v.due[next]
    PROVE  Orderly(v)' /\ Balanced(v)'
<1>1. /\ case \in Cases /\ next \in Nat \ {0} /\ View(v)
      /\ GotOf(v, out) \in Nat /\ ListDue(v, "remote", remotes.addrs, case.hops) \in Nat
  BY MidwayIs DEF Midway
<1>2. Len(case.args) \in Nat
  BY <1>1, DueIs
<1>3. /\ DueBefore(v, next + 1) = DueBefore(v, next) + v.due[next]
      /\ DueBefore(v, next) \in Nat /\ v.due[next] \in Nat
  BY <1>1, DueStep
<1>4. Orderly(v)'
  <2>1. next' <= Len(case.args) + 1
    BY <1>1, <1>2
  <2> QED BY <2>1 DEF Midway, Orderly
<1>5. StackDue(v, <<>>) = 0 /\ CallDue(v, call, stack) = 0
  BY StackEmpty DEF CallDue
<1>6. Balanced(v)'
  <2> DEFINE g == GotOf(v, out)
             l == ListDue(v, "remote", remotes.addrs, case.hops)
             d == v.due[next]
             b == DueBefore(v, next)
  <2>1. g \in Nat /\ l \in Nat /\ d \in Nat /\ b \in Nat /\ k + w = l + d
    BY <1>1, <1>3
  <2>2. g + 0 + 0 + l = b
    BY <1>5 DEF Midway, Balanced, Weight
  <2>3. DueBefore(v, next') = b + d
    BY <1>3
  <2>4. Weight(v, out', call', stack', remotes'.addrs, case'.hops) = g + k + 0 + w
    BY <1>5 DEF Weight
  <2> HIDE DEF g, l, d, b
  <2>5. g + k + 0 + w = b + d
    BY <2>1, <2>2
  <2> QED BY <2>3, <2>4, <2>5 DEF Balanced
<1> QED BY <1>4, <1>6

LEMMA DueSkipMe ==
    ASSUME NEW v, Midway(v), SkipMe
    PROVE  Orderly(v)' /\ Balanced(v)'
<1>1. /\ stage = "args" /\ stack = <<>> /\ call = Null /\ next <= Len(case.args)
      /\ Argument \in case.skip /\ next' = next + 1
      /\ UNCHANGED <<case, stage, remotes, call, stack, ProcessForward, out>>
  BY DEF SkipMe, InLmail
<1>2. case \in Cases /\ next \in Nat \ {0} /\ ListDue(v, "remote", remotes.addrs, case.hops) \in Nat
  BY MidwayIs
<1>3. v.due[next] = 0
  <2>1. Len(case.args) \in Nat
    BY <1>2, DueIs DEF Midway
  <2>2. next \in 1..Len(case.args)
    BY <1>1, <1>2, <2>1
  <2> QED BY <1>1, <1>2, <2>2, DueIs DEF Argument, Midway
<1>4. CallDue(v, call', <<>>) = 0
  BY <1>1 DEF CallDue
<1>5. ListDue(v, "remote", remotes.addrs, case.hops)' = ListDue(v, "remote", remotes.addrs, case.hops)
  BY <1>1
<1> DEFINE w == ListDue(v, "remote", remotes.addrs, case.hops)
<1>6. w \in Nat /\ 0 + w = w + v.due[next]
  BY <1>2, <1>3
<1> QED BY <1>1, <1>4, <1>5, <1>6, ArgumentTaken

LEMMA DueTakeLocal ==
    ASSUME NEW v, Midway(v), NullIsNoCall, TakeLocal
    PROVE  Orderly(v)' /\ Balanced(v)'
<1>1. /\ stage = "args" /\ stack = <<>> /\ call = Null /\ next <= Len(case.args)
      /\ Argument \notin case.skip /\ next' = next + 1
      /\ UNCHANGED <<case, stage, remotes, stack, ProcessForward, out>>
  BY DEF TakeLocal, InLmail
<1>2. PICK r : /\ r = remote_address(rt, Argument) /\ r.kind \in {"local", "gateway"}
               /\ call' = Call(<<r.addr>>, r.kind, case.hops, {next})
  BY DEF TakeLocal
<1>3. /\ case \in Cases /\ ListDue(v, "remote", remotes.addrs, case.hops) \in Nat
      /\ Asked(v) /\ Good(v.fresh) /\ rt \in Ready(v.fresh) /\ case.hops \in Nat
  BY MidwayIs
<1>4. Argument \in Addresses
  BY <1>1, ArgumentIs DEF Midway
<1>5. r.addr \in Addresses /\ (r.kind = "local" => ~Delimited(r.addr))
  <2> DEFINE a == Argument
  <2>1. a \in Addresses /\ r = remote_address(rt, a)
    BY <1>2, <1>4
  <2> HIDE DEF a
  <2> QED BY <1>3, <2>1, LeadsAgree, LeadsAnswer
<1>6. v.due[next] = IF FileNamed(r) THEN 0 ELSE One(v, r.kind, r.addr, case.hops)
  BY <1>1, <1>2, DueLead DEF Midway
<1> DEFINE b == r.addr
           q == <<b>>
           n == One(v, r.kind, b, case.hops)
<1>7. Head(q) = b
  OBVIOUS
<1>8. b \in Addresses
  BY <1>5
<1> HIDE DEF b
<1>9. AloneOrRemote(r.kind, q) /\ ListDue(v, r.kind, q, case.hops) = n /\ n \in Nat
  BY <1>3, <1>5, <1>8, OneAlone, ListOne, OneCounts DEF b
<1> HIDE DEF q
<1>10. call' # Null /\ call'.hop = case.hops /\ call'.kind = r.kind /\ call'.addrs = q
  BY <1>2 DEF NullIsNoCall, Call, q, b
<1> DEFINE k == IF FileNamed(r) THEN 0 ELSE n
<1>11. CallDue(v, call', <<>>) = k
  <2>1. FileCall(call', <<>>) <=> FileNamed(r)
    BY <1>7, <1>10 DEF FileCall, FileNamed, b
  <2>2. ListDue(v, call'.kind, call'.addrs, call'.hop) = n
    BY <1>9, <1>10
  <2> HIDE DEF n
  <2> QED BY <1>10, <2>1, <2>2, Zenon DEF CallDue
<1>12. v.due[next] = k
  BY <1>6 DEF b
<1>13. k \in Nat
  BY <1>9
<1> DEFINE w == ListDue(v, "remote", remotes.addrs, case.hops)
<1>14. ListDue(v, "remote", remotes.addrs, case.hops)' = w
  BY <1>1
<1> HIDE DEF k
<1>15. w \in Nat /\ k + w = w + v.due[next]
  BY <1>3, <1>12, <1>13
<1>16. call'.hop \in Nat /\ AloneOrRemote(call'.kind, call'.addrs)
  BY <1>3, <1>9, <1>10
<1> QED BY <1>1, <1>11, <1>13, <1>14, <1>15, <1>16, ArgumentTaken

LEMMA DueTakeRemote ==
    ASSUME NEW v, Midway(v), NullIsNoCall, TakeRemote
    PROVE  Orderly(v)' /\ Balanced(v)'
<1>1. /\ stage = "args" /\ stack = <<>> /\ call = Null /\ next <= Len(case.args)
      /\ Argument \notin case.skip /\ next' = next + 1
      /\ UNCHANGED <<case, stage, stack, ProcessForward, out>>
  BY DEF TakeRemote, InLmail
<1>2. PICK r, p :
        /\ r = remote_address(rt, Argument) /\ r.kind = "remote"
        /\ \/ /\ remotes' = [addrs |-> Append(remotes.addrs, r.addr), path |-> p.path,
                             for |-> remotes.for \cup {next}]
              /\ UNCHANGED call
           \/ /\ remotes' = [addrs |-> <<r.addr>>, path |-> p.path, for |-> {next}]
              /\ call' = Call(remotes.addrs, "remote", case.hops, remotes.for)
  BY DEF TakeRemote
<1>3. /\ case \in Cases /\ ListDue(v, "remote", remotes.addrs, case.hops) \in Nat
      /\ Asked(v) /\ Good(v.fresh) /\ rt \in Ready(v.fresh) /\ case.hops \in Nat
      /\ remotes.addrs \in Seq(Addresses)
  BY MidwayIs
<1>4. Argument \in Addresses
  BY <1>1, ArgumentIs DEF Midway
<1>5. r.addr \in Addresses
  <2> DEFINE a == Argument
  <2>1. a \in Addresses /\ r = remote_address(rt, a)
    BY <1>2, <1>4
  <2> HIDE DEF a
  <2> QED BY <1>3, <2>1, LeadsAnswer
<1>6. v.due[next] = IF FileNamed(r) THEN 0 ELSE One(v, r.kind, r.addr, case.hops)
  BY <1>1, <1>2, DueLead DEF Midway
<1> DEFINE b == r.addr
           s == remotes.addrs
           h == case.hops
           n == One(v, "remote", b, h)
           l == ListDue(v, "remote", s, h)
<1>7. v.due[next] = n
  BY <1>2, <1>6 DEF FileNamed
<1>8. b \in Addresses /\ s \in Seq(Addresses) /\ h \in Nat /\ case'.hops = h
  BY <1>1, <1>3, <1>5
<1> HIDE DEF b, s, h
<1>9. /\ ListDue(v, "remote", Append(s, b), h) = l + n
      /\ ListDue(v, "remote", <<b>>, h) = n /\ n \in Nat /\ l \in Nat
  BY <1>3, <1>8, ListMore, ListOne, OneCounts, ListCounts
<1> HIDE DEF n, l
<1>10. CASE remotes'.addrs = Append(s, b) /\ UNCHANGED call
  <2>1. ListDue(v, "remote", remotes.addrs, case.hops)' = l + n
    BY <1>8, <1>9, <1>10
  <2>2. CallDue(v, call', <<>>) = 0 /\ call' = Null
    BY <1>1, <1>10 DEF CallDue
  <2>3. l + n \in Nat /\ 0 + (l + n) = l + n
    BY <1>9
  <2> DEFINE w == l + n
  <2>4. /\ w \in Nat /\ w = ListDue(v, "remote", remotes.addrs, case.hops)'
        /\ 0 + w = ListDue(v, "remote", remotes.addrs, case.hops) + v.due[next]
    BY <1>7, <2>1, <2>3 DEF l, s, h
  <2> HIDE DEF w
  <2> QED BY <1>1, <2>2, <2>4, ArgumentTaken
<1>11. CASE remotes'.addrs = <<b>> /\ call' = Call(s, "remote", h, remotes.for)
  <2>1. ListDue(v, "remote", remotes.addrs, case.hops)' = n
    BY <1>8, <1>9, <1>11
  <2>2. call' # Null /\ call'.hop = h /\ call'.kind = "remote" /\ call'.addrs = s
    BY <1>11 DEF NullIsNoCall, Call
  <2>3. CallDue(v, call', <<>>) = l
    BY <2>2 DEF CallDue, FileCall, l
  <2>4. call'.hop \in Nat /\ AloneOrRemote(call'.kind, call'.addrs)
    BY <1>8, <2>2 DEF AloneOrRemote
  <2>5. l + n = ListDue(v, "remote", remotes.addrs, case.hops) + v.due[next]
    BY <1>7 DEF l, s, h
  <2> QED BY <1>1, <1>9, <2>1, <2>3, <2>4, <2>5, ArgumentTaken
<1>12. \/ remotes'.addrs = Append(s, b) /\ UNCHANGED call
       \/ remotes'.addrs = <<b>> /\ call' = Call(s, "remote", h, remotes.for)
  BY <1>2 DEF s, b, h
<1> QED BY <1>10, <1>11, <1>12

LEMMA DueFlush ==
    ASSUME NEW v, Midway(v), NullIsNoCall, Flush
    PROVE  Orderly(v)' /\ Balanced(v)'
<1>1. /\ stage = "args" /\ stack = <<>> /\ call = Null /\ next > Len(case.args)
      /\ stage' = "flush" /\ remotes' = Nobody
      /\ UNCHANGED <<case, next, stack, ProcessForward, out>>
      /\ \/ remotes.addrs = <<>> /\ UNCHANGED call
         \/ call' = Call(remotes.addrs, "remote", case.hops, remotes.for)
  BY DEF Flush, InLmail
<1>2. /\ case \in Cases /\ ListDue(v, "remote", remotes.addrs, case.hops) \in Nat
      /\ case.hops \in Nat /\ next \in Nat \ {0} /\ GotOf(v, out) \in Nat
  BY MidwayIs
<1>3. next = Len(case.args) + 1
  <2>1. Len(case.args) \in Nat /\ next <= Len(case.args) + 1
    BY <1>2, DueIs DEF Midway, Orderly
  <2> QED BY <1>1, <1>2, <2>1
<1> DEFINE l == ListDue(v, "remote", remotes.addrs, case.hops)
<1>4. /\ call' # Null => call'.hop \in Nat /\ AloneOrRemote(call'.kind, call'.addrs)
      /\ CallDue(v, call', <<>>) = l
  <2>1. CASE remotes.addrs = <<>> /\ UNCHANGED call
    <3>1. l = 0
      BY <2>1, ListEmpty
    <3>2. call' = Null
      BY <1>1, <2>1
    <3> QED BY <3>1, <3>2 DEF CallDue
  <2>2. CASE call' = Call(remotes.addrs, "remote", case.hops, remotes.for)
    <3>1. /\ call' # Null /\ call'.hop = case.hops /\ call'.kind = "remote"
          /\ call'.addrs = remotes.addrs
      BY <2>2 DEF NullIsNoCall, Call
    <3> QED BY <1>2, <3>1 DEF CallDue, FileCall, AloneOrRemote
  <2> QED BY <1>1, <2>1, <2>2
<1>5. ListDue(v, "remote", Nobody.addrs, case.hops) = 0
  BY ListEmpty DEF Nobody
<1>6. Orderly(v)'
  BY <1>1, <1>3, <1>4 DEF Midway, Orderly
<1>7. StackDue(v, <<>>) = 0 /\ CallDue(v, call, stack) = 0
  BY <1>1, StackEmpty DEF CallDue
<1>8. Balanced(v)'
  <2> DEFINE g == GotOf(v, out)
  <2>1. g \in Nat /\ l \in Nat
    BY <1>2
  <2>2. g + 0 + 0 + l = DueBefore(v, next)
    BY <1>1, <1>7 DEF Midway, Balanced, Weight
  <2>3. Weight(v, out, call', <<>>, Nobody.addrs, case.hops) = g + l + 0 + 0
    BY <1>4, <1>5, <1>7 DEF Weight
  <2> HIDE DEF g, l
  <2>4. g + l + 0 + 0 = g + 0 + 0 + l
    BY <2>1
  <2> QED BY <1>1, <2>2, <2>3, <2>4 DEF Balanced
<1> QED BY <1>6, <1>8

LEMMA DueReturned ==
    ASSUME NEW v, Midway(v), Returned
    PROVE  Orderly(v)' /\ Balanced(v)'
<1>1. UNCHANGED <<case, stage, next, remotes, call, stack, ProcessForward, out>>
  BY DEF Returned
<1> QED BY <1>1 DEF Midway, Orderly, Balanced

\* All arguments are settled when lmail has nothing in hand after them.
LEMMA AllDue ==
    ASSUME NEW v, Midway(v), stage = "flush", InLmail
    PROVE  GotOf(v, out) = Total[v.due]
<1>1. /\ case \in Cases /\ GotOf(v, out) \in Nat
  BY MidwayIs
<1>2. /\ stack = <<>> /\ call = Null /\ next = Len(case.args) + 1 /\ remotes = Nobody
  BY DEF InLmail, Midway, Orderly
<1>3. /\ StackDue(v, <<>>) = 0 /\ CallDue(v, call, stack) = 0
      /\ ListDue(v, "remote", remotes.addrs, case.hops) = 0
  BY <1>2, StackEmpty, ListEmpty DEF CallDue, Nobody
<1>4. GotOf(v, out) + 0 + 0 + 0 = DueBefore(v, next)
  BY <1>2, <1>3 DEF Midway, Balanced, Weight
<1>5. DueBefore(v, next) = Total[v.due]
  BY <1>1, <1>2, DueFirstLast DEF Midway
<1> QED BY <1>1, <1>4, <1>5

-----------------------------------------------------------------------------
\* The steps that take up, hand on or give up work, and write nothing.
Works ==
    \/ TooManyHops \/ NoSuchUser \/ OpenForward \/ ForwardNext \/ ForwardLast \/ ForwardEnd
    \/ ForwardReturned \/ SkipMe \/ TakeRemote \/ TakeLocal \/ Flush \/ Returned

LEMMA WorksKeep ==
    ASSUME Works
    PROVE  UNCHANGED <<case, out, mishaps>> /\ (AtWork' <=> AtWork)
<1>1. UNCHANGED <<case, out, mishaps>> /\ (stage' = stage \/ (stage = "args" /\ stage' = "flush"))
  BY DEF Works, TooManyHops, NoSuchUser, OpenForward, ForwardNext, ForwardLast, ForwardEnd,
         ForwardReturned, SkipMe, TakeRemote, TakeLocal, Flush, Returned, lmailvars
<1> QED BY <1>1 DEF AtWork

LEMMA DueWorks ==
    ASSUME NEW v, Midway(v), NullIsNoCall, Works
    PROVE  Orderly(v)' /\ Balanced(v)'
BY DueTooManyHops, DueNoSuchUser, DueOpened, DueForwardNext, DueForwardLast, DueForwardEnd,
   DueForwardReturned, DueSkipMe, DueTakeRemote, DueTakeLocal, DueFlush, DueReturned DEF Works

\* After the arguments only reports and notices are written.
LEMMA ReportWritten ==
    ASSUME NEW v, WayInv(v.fresh), MailInv, OutSums(out), NEW n, Written(n)
    PROVE  OutSums(out') /\ (~AtWork => GotOf(v, out') = GotOf(v, out))
<1>1. call # Null
  BY DEF Written, Delivers, Within
<1>2. PICK r : out' = Append(out, [what |-> What, kind |-> call.kind, addrs |-> call.addrs,
                                   path |-> r.path, for |-> call.for, forwarded |-> stack # <<>>])
  BY DEF Written
<1> DEFINE e == [what |-> What, kind |-> call.kind, addrs |-> call.addrs,
                 path |-> r.path, for |-> call.for, forwarded |-> stack # <<>>]
<1>3. e.what = What /\ e.addrs = call.addrs
  OBVIOUS
<1>4. out' = Append(out, e)
  BY <1>2
<1> HIDE DEF e
<1>5. e.addrs \in Seq(Addresses)
  BY <1>1, <1>3 DEF WayInv, CallWay
<1>6. OutSums(out') /\ GotOf(v, out') = GotOf(v, out) + OfOut(v, e) /\ GotOf(v, out) \in Nat
  BY <1>4, <1>5, OutMore
<1>7. ~AtWork => What # "mail"
  BY <1>1 DEF MailInv, MailTypes, Ended, InLmail, AtWork, What
<1>8. ~AtWork => OfOut(v, e) = 0
  BY <1>3, <1>7 DEF OfOut
<1> QED BY <1>6, <1>8

LEMMA LostWritten ==
    ASSUME NEW v, WayInv(v.fresh), OutSums(out), UuxUnseen
    PROVE  OutSums(out')
<1>1. call # Null
  BY DEF UuxUnseen
<1>2. PICK r : out' = Append(out, [what |-> "lost", kind |-> call.kind, addrs |-> call.addrs,
                                   path |-> r.path, for |-> call.for, forwarded |-> stack # <<>>])
  BY DEF UuxUnseen
<1> DEFINE e == [what |-> "lost", kind |-> call.kind, addrs |-> call.addrs,
                 path |-> r.path, for |-> call.for, forwarded |-> stack # <<>>]
<1>3. out' = Append(out, e) /\ e.addrs = call.addrs
  BY <1>2
<1> HIDE DEF e
<1>4. e.addrs \in Seq(Addresses)
  BY <1>1, <1>3 DEF WayInv, CallWay
<1> QED BY <1>3, <1>4, OutMore

LEMMA MentionStep ==
    ASSUME NEW v, View(v), WayInv(v.fresh), MailInv, NullIsNoCall, MentionInv(v),
           [MailNext]_mailVars
    PROVE  MentionInv(v)'
<1>1. OutSums(out) /\ mishaps \in Nat
  BY DEF MentionInv
<1>2. mishaps = 0 /\ AtWork => Midway(v)
  BY DEF MentionInv, Midway
<1>3. mishaps = 0 /\ ~AtWork => GotOf(v, out) = Total[v.due]
  BY DEF MentionInv
<1>4. CASE Works
  <2>1. UNCHANGED <<case, out, mishaps>> /\ (AtWork' <=> AtWork)
    BY <1>4, WorksKeep
  <2>2. mishaps = 0 /\ AtWork => Orderly(v)' /\ Balanced(v)'
    BY <1>2, <1>4, DueWorks
  <2> QED BY <1>1, <1>3, <2>1, <2>2 DEF MentionInv
<1>5. CASE \E n : Written(n)
  <2>1. PICK n : Written(n)
    BY <1>5
  <2>2. UNCHANGED <<stage, mishaps>>
    BY <2>1 DEF Written, lmailvars
  <2>3. OutSums(out') /\ (~AtWork => GotOf(v, out') = GotOf(v, out))
    BY <1>1, <2>1, ReportWritten
  <2>4. mishaps = 0 /\ AtWork => Orderly(v)' /\ Balanced(v)'
    BY <1>2, <2>1, DueWritten
  <2>5. AtWork' <=> AtWork
    BY <2>2 DEF AtWork
  <2> QED BY <1>1, <1>3, <2>2, <2>3, <2>4, <2>5 DEF MentionInv
<1>6. CASE DeliverFails \/ UuxUnseen \/ ProgramRefuses \/ NoTempFile
  <2>1. OutSums(out') /\ mishaps' = mishaps + 1
    <3>1. CASE UuxUnseen
      BY <1>1, <3>1, LostWritten DEF UuxUnseen
    <3>2. CASE DeliverFails \/ ProgramRefuses \/ NoTempFile
      BY <1>1, <3>2 DEF DeliverFails, ProgramRefuses, NotWritten, NoTempFile
    <3> QED BY <1>6, <3>1, <3>2
  <2>2. mishaps' \in Nat /\ mishaps' # 0
    BY <1>1, <2>1
  <2> QED BY <1>1, <2>1, <2>2 DEF MentionInv
<1>7. CASE Report \/ ToReturn \/ ToMaster \/ Exit
  <2>1. /\ UNCHANGED <<out, mishaps>> /\ InLmail /\ stage' \in {"bounce", "master", "done"}
        /\ stage \in {"flush", "bounce", "master"}
    BY <1>7 DEF Report, ToReturn, ToMaster, Exit
  <2>2. mishaps = 0 => GotOf(v, out) = Total[v.due]
    <3>1. CASE stage = "flush"
      BY <1>2, <2>1, <3>1, AllDue DEF AtWork
    <3>2. CASE stage # "flush"
      BY <1>3, <2>1, <3>2 DEF AtWork
    <3> QED BY <3>1, <3>2
  <2>3. ~AtWork'
    BY <2>1 DEF AtWork
  <2> QED BY <1>1, <2>1, <2>2, <2>3 DEF MentionInv
<1>8. CASE UNCHANGED mailVars
  BY <1>8 DEF mailVars, MentionInv, Orderly, Balanced, AtWork
<1>9. CASE sendone
  <2>1. Works \/ (\E n : Written(n)) \/ DeliverFails \/ UuxUnseen \/ ProgramRefuses
    BY <1>9 DEF sendone, Works, ToMailbox, ToUux, ToProgram
  <2> QED BY <1>4, <1>5, <1>6, <2>1
<1>10. CASE lmail
  <2>1. Works \/ Report \/ ToReturn \/ ToMaster \/ Exit \/ NoTempFile
    BY <1>10 DEF lmail, Works
  <2> QED BY <1>4, <1>6, <1>7, <2>1
<1> QED BY <1>8, <1>9, <1>10 DEF MailNext

\* Of everyone, whether named or not.
AllMentions == \A v : View(v) => MentionInv(v)

LEMMA MentionInit == MailInit => AllMentions
<1> SUFFICES ASSUME MailInit, NEW v, View(v) PROVE MentionInv(v)
  BY DEF AllMentions
<1>1. /\ case \in Cases /\ stage = "args" /\ next = 1 /\ remotes = Nobody /\ call = Null
      /\ stack = <<>> /\ ProcessForward = FALSE /\ out = <<>> /\ mishaps = 0
  BY DEF MailInit
<1>2. Len(case.args) \in Nat /\ DueBefore(v, 1) = 0
  BY <1>1, DueIs, DueFirstLast
<1>3. /\ GotOf(v, <<>>) = 0 /\ OutSums(<<>>) /\ StackDue(v, <<>>) = 0 /\ CallDue(v, Null, <<>>) = 0
      /\ ListDue(v, "remote", Nobody.addrs, case.hops) = 0
  BY OutEmpty, StackEmpty, ListEmpty DEF CallDue, Nobody
<1>4. Orderly(v)
  <2>1. DOMAIN <<>> = {}
    OBVIOUS
  <2>2. StackOrder(v, stack)
    BY <1>1, <2>1 DEF StackOrder
  <2>3. next <= Len(case.args) + 1
    BY <1>1, <1>2
  <2>4. /\ ProcessForward = IF stack = <<>> THEN FALSE ELSE TRUE
        /\ call = Null /\ stage # "flush"
    BY <1>1, Zenon
  <2> QED BY <2>2, <2>3, <2>4, Zenon DEF Orderly
<1>5. Balanced(v)
  BY <1>1, <1>2, <1>3 DEF Balanced, Weight
<1>6. AtWork
  BY <1>1 DEF AtWork
<1> QED BY <1>1, <1>3, <1>4, <1>5, <1>6 DEF MentionInv

LEMMA MentionNext ==
    ASSUME NullIsNoCall
    PROVE  AllMentions /\ MailInv /\ PathInv /\ [MailNext]_mailVars => AllMentions'
<1> SUFFICES ASSUME AllMentions, MailInv, PathInv, [MailNext]_mailVars, NEW v, View(v)'
             PROVE  MentionInv(v)'
  BY DEF AllMentions
<1>1. case' = case
  BY CaseStays
<1>2. View(v)
  BY <1>1 DEF View, DueTo
<1>3. WayInv(v.fresh)
  BY <1>2 DEF PathInv, View
<1>4. MentionInv(v)
  BY <1>2 DEF AllMentions
<1> QED BY <1>2, <1>3, <1>4, MentionStep

\* The table of this case leads somewhere.
TableLeads == Leads(loadhost(case.systems, case.paths))

LEMMA MentionsAreMet == AllMentions /\ MailInv => (TableLeads => EveryMention)
<1> SUFFICES ASSUME AllMentions, TableLeads, NEW fresh, fresh = loadhost(case.systems, case.paths),
                    stage = "done", mishaps = 0, ListsAreGood(fresh), NEW x
             PROVE  Total[GotBy(x)] = Total[DueTo(fresh, x)]
  BY DEF EveryMention
<1> DEFINE v == [forward |-> case.forward, fresh |-> fresh, x |-> x, due |-> DueTo(fresh, x)]
<1>1. /\ v.forward = case.forward /\ v.fresh = fresh /\ v.x = x /\ v.due = DueTo(fresh, x)
  OBVIOUS
<1> HIDE DEF v
<1>2. View(v)
  BY <1>1 DEF View, TableLeads, ListsGood, ListsAreGood, Users
<1>3. MentionInv(v)
  BY <1>2 DEF AllMentions
<1>4. GotOf(v, out) = Total[v.due]
  BY <1>3 DEF MentionInv, AtWork
<1>5. GotOf(v, out) = Total[GotBy(x)]
  BY <1>1 DEF GotOf, OfOut, GotBy
<1> QED BY <1>1, <1>4, <1>5

(***************************************************************************)
(* Nobody is forgotten and nobody is written to twice: when rmail ends     *)
(* without a mishap, everyone has got the message exactly as often as the  *)
(* arguments and the forward files name him, whatever they are and however *)
(* the addresses were gathered, provided that the host table leads         *)
(* somewhere and no forward file ends early at an address of its own.      *)
(***************************************************************************)
THEOREM MailToEveryMention ==
    ASSUME NullIsNoCall
    PROVE  MailSpec => [](TableLeads => EveryMention)
<1>1. AllMentions /\ MailInv /\ PathInv /\ [MailNext]_mailVars => AllMentions'
  BY MentionNext
<1>2. MailSpec => []MailInv
  BY MailInvAlways
<1> QED BY <1>1, <1>2, MentionInit, MentionsAreMet, PathInit, PathNext, PTL DEF MailSpec

=============================================================================
