-------------------------------- MODULE Names --------------------------------
(***************************************************************************)
(* How the name of a file becomes a name MS-DOS accepts (import.c) and how  *)
(* uustat gets a job's name back from its file (export.c).                 *)
(*                                                                         *)
(* A spool file C.kremvaxNQ1aB is kept in directory kremvax\c under a      *)
(* number: how much of the name is the remote's or the local host's name,  *)
(* then the rest of it in base UnixRange, all written in base              *)
(* Len(DosChars).  Characters are their ASCII codes, strings sequences of  *)
(* them, and the numbers the byte arrays of arbmath.c.                     *)
(***************************************************************************)
EXTENDS Integers, Sequences, FiniteSets, SequencesExt

CONSTANTS
    HostLen,    \* HOSTLEN: 7
    NameLen,    \* 8, of a DOS name
    ExtLen,     \* 3, of its extension
    MaxDigits,  \* MAX_DIGITS: 20
    UnixStart, UnixEnd,  \* '#' and 'z'
    DosChars,   \* E_charset, a sequence: DOSCHARS unless configured
    Nodes,      \* names this host may have
    Remotes,    \* names the remote host may have
    Tails,      \* what a spool name has after the host: grade and number
    Starts,     \* names given by users, and what they go on with
    Letters, MaxMore,
    MaxMade     \* bound: files in the directory

NamesAssumption ==
    /\ {HostLen, NameLen, ExtLen, MaxDigits} \subseteq Nat \ {0}
    /\ UnixStart \in Nat /\ UnixEnd \in UnixStart..127
    /\ DosChars \in Seq(0..127) /\ Len(DosChars) > 1
    /\ Nodes \cup Remotes \cup Tails \cup Starts \subseteq Seq(0..127)
    /\ Letters \subseteq 0..127 /\ {MaxMore, MaxMade} \subseteq Nat

VARIABLES
    node, remote,  \* the two hosts' names
    made,    \* names the two hosts' programs have given to files for remote
    dir,     \* dir[<<letter, local>>]: the name of the file kept there
    typed,   \* a user's file name
    more     \* characters typed since Starts

vars == <<node, remote, made, dir, typed, more>>

-----------------------------------------------------------------------------
(***************************************************************************)
(* arbmath.c: a number is MaxDigits bytes, the highest first.              *)
(***************************************************************************)
UnixRange == UnixEnd - UnixStart + 1
Zero == [i \in 1..MaxDigits |-> 0]

\* From the lowest byte up, with what is carried; mult and add panic when
\* something is carried out of the highest, which Pack's loop keeps clear.
Carry(n, range, x) ==
    FoldRight(LAMBDA byte, r :
                [carry  |-> (byte * range + r.carry) \div 256,
                 number |-> <<(byte * range + r.carry) % 256>> \o r.number],
              n, [carry |-> x, number |-> <<>>]).number

mult(n, range) == Carry(n, range, 0)
add(n, x) == Carry(n, 1, x)

adiv(n, divisor) ==
    FoldLeft(LAMBDA r, byte :
               [remain |-> (r.remain * 256 + byte) % divisor,
                number |-> Append(r.number, (r.remain * 256 + byte) \div divisor)],
             [remain |-> 0, number |-> <<>>], n)

\* The loops around them: shift a digit in until the highest byte is in use,
\* and take digits off until nothing is left.
Pack(n0, digits, base) ==
    FoldLeft(LAMBDA n, d : IF n[1] = 0 THEN add(mult(n, base), d) ELSE n,
             n0, digits)

RECURSIVE Unpack(_, _)
Unpack(n, base) ==
    IF n = Zero THEN <<>>
    ELSE LET q == adiv(n, base) IN Append(Unpack(q.number, base), q.remain)

-----------------------------------------------------------------------------
(***************************************************************************)
(* ValidDOSName and ImportName.                                            *)
(***************************************************************************)
Period == 46
lower(c) == IF c \in 65..90 THEN c + 32 ELSE c
strlwr(s) == [i \in DOMAIN s |-> lower(s[i])]
InCharset(c) == \E i \in DOMAIN DosChars : DosChars[i] = c
Periods(s) == {i \in DOMAIN s : s[i] = Period}
First(S) == CHOOSE i \in S : \A j \in S : i <= j
Last1(S) == CHOOSE i \in S : \A j \in S : i >= j

\* One period at most, in the second to ninth place, an extension of up to
\* three characters, and nothing else out of the character set.
ValidDOSName(s) ==
    /\ Len(s) <= NameLen + 1 + ExtLen
    /\ IF Periods(s) = {} THEN Len(s) <= NameLen
       ELSE /\ Last1(Periods(s)) \in 2..(NameLen + 1)
            /\ Len(s) - Last1(Periods(s)) <= ExtLen
            /\ Cardinality(Periods(s)) = 1
    /\ \A i \in DOMAIN s \ Periods(s) : InCharset(lower(s[i]))

\* An early period is kept with the last three characters; else the last one
\* is, with the three after it; else a long name gets one.
Squeeze(in) ==
    LET early == {i \in Periods(in) : i \in 2..(NameLen + 1)}
        late  == Periods(in) \ {1}
        col   == First(early)
    IN  IF early # {}
        THEN IF Len(in) > col + ExtLen
             THEN SubSeq(in, 1, col) \o SubSeq(in, Len(in) - ExtLen + 1, Len(in))
             ELSE in
        ELSE IF late # {} /\ Last1(late) < Len(in)
        THEN SubSeq(in, 1, NameLen)
               \o SubSeq(in, Last1(late),
                         First({Len(in), Last1(late) + ExtLen}))
        ELSE IF Len(in) > NameLen
        THEN SubSeq(in, 1, NameLen) \o <<Period>>
               \o SubSeq(in, Last1({NameLen, Len(in) - ExtLen}) + 1, Len(in))
        ELSE in

\* The period that stays one.
BestPeriod(in) ==
    LET early == {i \in Periods(in) : i \in 2..(NameLen + 1)}
    IN  IF early # {} THEN First(early) ELSE NameLen + 1

\* strncpy leaves no end of string: exactly three characters after a late
\* period, or a short name that is not valid and fills its eight places.
Unterminated(in) ==
    LET late == Periods(in) \ {1}
    IN  /\ ~ValidDOSName(in)
        /\ late \cap (2..(NameLen + 1)) = {}
        /\ \/ late # {} /\ Last1(late) + ExtLen = Len(in)
           \/ late = {} /\ Len(in) = NameLen

\* A character that DOS does not take: another one in its place.
Clean(ch) ==
    LET c == lower(ch)
        d == IF c > 122 THEN c - 62 ELSE IF c > 90 THEN c - 36
             ELSE IF c > 57 THEN c - 10 ELSE c
    IN  IF InCharset(c) THEN ch
        ELSE DosChars[((d - UnixStart) % Len(DosChars)) + 1]

ImportName(in) ==
    IF ValidDOSName(in) THEN in
    ELSE LET s == Squeeze(in)
             out == IF s[Len(s)] = Period THEN SubSeq(s, 1, Len(s) - 1) ELSE s
         IN  [i \in DOMAIN out |->
                IF i = BestPeriod(in) THEN out[i] ELSE Clean(out[i])]

-----------------------------------------------------------------------------
(***************************************************************************)
(* importpath and exportpath, for spool names.                             *)
(***************************************************************************)

\* Characters of host at the start of s.
Matched(host, s) ==
    Last1({k \in 0..First({HostLen, Len(host), Len(s)}) :
              SubSeq(host, 1, k) = SubSeq(s, 1, k)})

\* Mutant: the two hosts' names are not told apart.
HostCode_Same(r, n) == IF n > r THEN n ELSE r

\* Which host's name the file name starts with, and how much of it.
HostCode(r, n) == IF n > r THEN n ELSE r * HostLen

\* <<directory, name in it>> of spool name canon of host rem.
importpath(canon, rem) ==
    LET s    == SubSeq(canon, 3, Len(canon))
        r    == Matched(rem, s)
        n    == Matched(node, s)
        rest == SubSeq(s, Last1({r, n}) + 1, Len(s))
        num  == Pack(add(Zero, HostCode(r, n)),
                     [i \in DOMAIN rest |-> rest[i] - UnixStart], UnixRange)
        dos  == Unpack(num, Len(DosChars))
    IN  IF ValidDOSName(canon) THEN <<0, strlwr(canon)>>
        ELSE <<canon[1],
               strlwr(ImportName([i \in DOMAIN dos |-> DosChars[dos[i] + 1]]))>>

\* What the code says of the host; strcat copies no more than there is.
HostPart(code, rem) ==
    IF code > HostLen
    THEN SubSeq(rem, 1, First({Len(rem), code \div HostLen}))
    ELSE SubSeq(node, 1, First({Len(node), code}))

exportpath(local, rem) ==
    LET digits == SelectSeq(local[2], LAMBDA c : c # Period)
        value(c) == First({i \in DOMAIN DosChars : DosChars[i] = c}) - 1
        num  == Pack(Zero, [i \in DOMAIN digits |-> value(digits[i])],
                     Len(DosChars))
        out  == Unpack(num, UnixRange)
    IN  <<local[1], Period>> \o HostPart(out[1], rem)
          \o [i \in 1..(Len(out) - 1) |-> out[i + 1] + UnixStart]

-----------------------------------------------------------------------------
\* SPOOLFMT "%c.%.7s%c%4.4s"
SpoolName(letter, host, tail) ==
    <<letter, Period>> \o SubSeq(host, 1, First({HostLen, Len(host)})) \o tail

\* Names of files in the directory of the remote: our jobs for it, our data,
\* and the data and jobs it has sent here.
SpoolNames ==
    {SpoolName(67, remote, t) : t \in Tails}
      \cup {SpoolName(68, h, t) : h \in {node, remote}, t \in Tails}
      \cup {SpoolName(88, remote, t) : t \in Tails}

TypeOK ==
    /\ node \in Nodes \cup {<<>>} /\ remote \in Remotes \cup {<<>>}
    /\ (remote # <<>> => made \subseteq SpoolNames)
    /\ \A l \in DOMAIN dir : dir[l] \in made
    /\ more \in 0..MaxMore

Init ==
    /\ \/ node \in Nodes /\ remote \in Remotes /\ node # remote /\ typed = <<>>
       \/ node = <<>> /\ remote = <<>> /\ typed \in Starts
    /\ made = {} /\ dir = <<>> /\ more = 0

\* A program makes a file of that name, or receives one: FOPEN "w" and rename
\* replace the file that has the name already.
Store ==
    /\ remote # <<>> /\ Cardinality(made) < MaxMade
    /\ \E name \in SpoolNames \ made :
          \E l \in {importpath(name, remote)} :
             /\ made' = made \cup {name}
             /\ dir' = [k \in DOMAIN dir \cup {l} |-> IF k = l THEN name ELSE dir[k]]
    /\ UNCHANGED <<node, remote, typed, more>>

Type ==
    /\ remote = <<>> /\ more < MaxMore
    /\ \E c \in Letters : typed' = Append(typed, c)
    /\ more' = more + 1
    /\ UNCHANGED <<node, remote, made, dir>>

Next == Store \/ Type
Spec == Init /\ [][Next]_vars

-----------------------------------------------------------------------------
(***************************************************************************)
(* Properties                                                              *)
(***************************************************************************)

\* No spool file takes the place of another one: "Avoiding collisions in the
\* spool directory is important" (import.c:180).
NoCollision == \A name \in made : \E l \in DOMAIN dir : dir[l] = name

\* The remote's name is one letter, which HostCode cannot tell from a local
\* name of full length.
OneLetter == Len(remote) = 1

\* With a remote of two letters or more, no two spool files collide.
NoCollisionUsual == OneLetter \/ NoCollision

\* uustat finds the name a job was queued by in that of its file: exportpath's
\* "mapping error" panic does not occur (export.c:212).
JobsNamed ==
    \A l \in DOMAIN dir :
       l[1] = 67 /\ ~OneLetter => exportpath(l, remote) = dir[l]

\* What a user's file name becomes is a name DOS takes, unless ImportName has
\* left the end of it open.
UserNameValid ==
    typed # <<>> /\ ~Unterminated(typed) => ValidDOSName(ImportName(typed))

\* The three mappings of names together: none takes another file's name, none
\* is lost on the way back, none is refused by DOS.
NamesSafe == TypeOK /\ NoCollisionUsual /\ JobsNamed /\ UserNameValid
=============================================================================
