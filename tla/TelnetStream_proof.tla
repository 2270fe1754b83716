-------------------------- MODULE TelnetStream_proof --------------------------
(***************************************************************************)
(* The Telnet side of main/tcp_bridge.c for every stream of bytes: the      *)
(* parser finds what a reading of the whole stream finds, what the bridge    *)
(* escapes and sends comes out of such a parser as it went in, and answers   *)
(* ask for what is in force.                                                *)
(*                                                                         *)
(* The definitions are recursive functions over the positions of a text.    *)
(* What they compute is proved by induction over sequences, which comes from *)
(* the sets of natural numbers: a set that holds 0, and n + 1 with every n,  *)
(* holds every number.                                                      *)
(***************************************************************************)
EXTENDS TelnetStream, SequenceTheorems, WellFoundedInduction, TLAPS

-----------------------------------------------------------------------------
(* The parser's state, and what it makes of one byte.                       *)

\* Sequences that fit in a buffer of n bytes.
SeqUpTo(n) == {s \in Seq(Nat) : Len(s) <= n}

\* The subnegotiation kept never outgrows its buffer.
Parsers ==
    [state : {"data", "iac", "negotiate", "sb", "sb_iac"}, negotiate_cmd : Nat,
     subneg : SeqUpTo(SubnegMax)]

CommandRecords == [kind : {"none", "option", "subneg"}, frame : Seq(Nat)]

\* Any part of a sequence, an empty one included.
LEMMA SubSeqType ==
    ASSUME NEW S, NEW s \in Seq(S), NEW m \in Int, NEW n \in Int, m >= 1, n <= Len(s)
    PROVE  SubSeq(s, m, n) \in Seq(S)
           /\ Len(SubSeq(s, m, n)) = IF m <= n THEN n - m + 1 ELSE 0
<1>1. \A i \in m..n : i \in 1..Len(s) BY SMT
<1>2. \A i \in m..n : s[i] \in S BY <1>1, ElementOfSeq
<1> QED BY <1>2, SubSeqProperties

LEMMA NewParserType == NewParser \in Parsers
<1>1. <<>> \in Seq(Nat) /\ Len(<<>>) = 0 BY EmptySeq
<1>2. <<>> \in SeqUpTo(SubnegMax) BY <1>1, TelnetAssumption DEF SeqUpTo
<1> QED BY <1>2 DEF NewParser, Parsers

\* A byte too many is not kept.
LEMMA CollectedType ==
    ASSUME NEW subneg \in SeqUpTo(SubnegMax), NEW byte \in Nat
    PROVE  Collected(subneg, byte) \in SeqUpTo(SubnegMax)
<1>1. subneg \in Seq(Nat) /\ Len(subneg) \in Nat /\ Len(subneg) <= SubnegMax BY DEF SeqUpTo
<1>2. CASE Len(subneg) < SubnegMax
  <2>1. Append(subneg, byte) \in Seq(Nat) /\ Len(Append(subneg, byte)) = Len(subneg) + 1
    BY <1>1, AppendProperties
  <2>2. Len(subneg) + 1 <= SubnegMax BY <1>1, <1>2, TelnetAssumption, SMT
  <2> QED BY <1>2, <2>1, <2>2 DEF Collected, SeqUpTo
<1>3. CASE ~(Len(subneg) < SubnegMax)
  BY <1>3 DEF Collected
<1> QED BY <1>2, <1>3

LEMMA StepType ==
    ASSUME NEW parser \in Parsers, NEW byte \in Nat
    PROVE  Step(parser, byte) \in Parsers
<1>1. /\ parser.subneg \in SeqUpTo(SubnegMax)
      /\ Collected(parser.subneg, byte) \in SeqUpTo(SubnegMax)
      /\ NewParser.subneg = <<>> /\ <<>> \in SeqUpTo(SubnegMax)
  BY CollectedType, NewParserType DEF Parsers, NewParser
<1>2. /\ [parser EXCEPT !.state = "iac"] \in Parsers
      /\ [parser EXCEPT !.state = "negotiate", !.negotiate_cmd = byte] \in Parsers
      /\ [parser EXCEPT !.state = "sb", !.subneg = <<>>] \in Parsers
      /\ [parser EXCEPT !.state = "sb_iac"] \in Parsers
      /\ [parser EXCEPT !.state = "sb", !.subneg = Collected(@, byte)] \in Parsers
      /\ [parser EXCEPT !.state = "data", !.subneg = <<>>] \in Parsers
      /\ [parser EXCEPT !.state = "data"] \in Parsers
  BY <1>1 DEF Parsers
<1> QED BY <1>2 DEF Step

LEMMA ParsedType ==
    ASSUME NEW parser \in Parsers, NEW byte \in Nat
    PROVE  /\ Serial(parser, byte) \in Seq(Nat)
           /\ Commands(parser, byte) \in Seq(CommandRecords)
           /\ Commands(parser, byte) # <<>> =>
                 /\ Len(Commands(parser, byte)) = 1
                 /\ Head(Commands(parser, byte)) \in CommandRecords
                 /\ Head(Commands(parser, byte)).kind # "none"
<1>1. parser.negotiate_cmd \in Nat /\ parser.subneg \in Seq(Nat) BY DEF Parsers, SeqUpTo
<1>2. <<byte>> \in Seq(Nat) /\ <<>> \in Seq(Nat) /\ <<parser.negotiate_cmd, byte>> \in Seq(Nat)
  BY <1>1
<1>3. Serial(parser, byte) \in Seq(Nat) BY <1>2 DEF Serial
<1>4. PICK c1 : c1 = [kind |-> "option", frame |-> <<parser.negotiate_cmd, byte>>] OBVIOUS
<1>5. PICK c2 : c2 = [kind |-> "subneg", frame |-> parser.subneg] OBVIOUS
<1>6. /\ c1 \in CommandRecords /\ c1.kind # "none" /\ c2 \in CommandRecords /\ c2.kind # "none"
  BY <1>1, <1>2, <1>4, <1>5 DEF CommandRecords
<1>7. Commands(parser, byte) \in {<<c1>>, <<c2>>, <<>>} BY <1>4, <1>5 DEF Commands
<1>8. <<c1>> \in Seq(CommandRecords) /\ <<c2>> \in Seq(CommandRecords) /\ <<>> \in Seq(CommandRecords)
      /\ Len(<<c1>>) = 1 /\ Len(<<c2>>) = 1 /\ Head(<<c1>>) = c1 /\ Head(<<c2>>) = c2
  BY <1>6
<1> QED BY <1>3, <1>6, <1>7, <1>8

-----------------------------------------------------------------------------
(* Induction, over numbers and over sequences.                              *)

\* Every set of numbers that is not empty has a least one.
LEMMA LeastNumber ==
    ASSUME NEW T \in SUBSET Nat, T # {}
    PROVE  \E m \in T : \A k \in T : m <= k
<1>1. PICK m \in T : \A k \in T : ~(<<k, m>> \in OpToRel(<, Nat))
  BY NatLessThanWellFounded, WFMin
<1>2. \A k \in T : m <= k
  <2> TAKE k \in T
  <2>1. m \in Nat /\ k \in Nat OBVIOUS
  <2>2. ~(k < m) BY <1>1, <2>1 DEF OpToRel
  <2> QED BY <2>1, <2>2, SMT
<1> QED BY <1>2

\* Induction, for sets of numbers ...
LEMMA NumberInduction ==
    ASSUME NEW T \in SUBSET Nat, 0 \in T, \A n \in T : n + 1 \in T
    PROVE  T = Nat
<1> SUFFICES ASSUME NEW x \in Nat, x \notin T PROVE FALSE OBVIOUS
<1>1. PICK m \in Nat \ T : \A k \in Nat \ T : m <= k BY LeastNumber
<1>2. m # 0 /\ m - 1 \in Nat /\ m - 1 < m BY SMT
<1>3. m - 1 \in T BY <1>1, <1>2, SMT
<1>4. (m - 1) + 1 \in T BY <1>2, <1>3
<1> QED BY <1>4, SMT

LEMMA LastElement ==
    ASSUME NEW S, NEW s \in Seq(S), s # <<>>
    PROVE  \E t \in Seq(S), e \in S : s = Append(t, e) /\ Len(s) = Len(t) + 1
<1>1. Len(s) \in Nat /\ Len(s) >= 1 BY EmptySeq
<1> DEFINE n == Len(s)
           t == SubSeq(s, 1, n - 1)
<1>2. SubSeq(s, 1, n) = t \o <<s[n]>>
  <2>1. 1 \in 1..Len(s) /\ n \in 1..Len(s) BY <1>1
  <2> QED BY <2>1, SubSeqRecursiveSecond
<1>3. s = t \o <<s[n]>> BY <1>2, SubSeqFull
<1>4. s[n] \in S BY <1>1, ElementOfSeq
<1>5. t \in Seq(S) /\ Len(t) = n - 1
  <2>1. \A i \in 1..n - 1 : s[i] \in S BY <1>1, ElementOfSeq
  <2>2. t \in Seq(S) /\ Len(t) = IF 1 <= n - 1 THEN n - 1 - 1 + 1 ELSE 0
    BY <2>1, <1>1, SubSeqProperties
  <2>3. \A k \in Nat : k >= 1 => (IF 1 <= k - 1 THEN k - 1 - 1 + 1 ELSE 0) = k - 1 BY SMT
  <2> QED BY <2>2, <2>3, <1>1
<1>6. s = Append(t, s[n]) BY <1>3, <1>4, <1>5, AppendIsConcat
<1>7. n = Len(t) + 1 BY <1>1, <1>5
<1> QED BY <1>4, <1>5, <1>6, <1>7

\* ... and for sets of sequences, which grow at the end.
LEMMA SequenceInduction ==
    ASSUME NEW S, NEW T \in SUBSET Seq(S), <<>> \in T,
           \A s \in T, e \in S : Append(s, e) \in T
    PROVE  T = Seq(S)
<1> DEFINE Lengths == {n \in Nat : \A s \in Seq(S) : Len(s) = n => s \in T}
<1>1. 0 \in Lengths BY EmptySeq
<1>2. ASSUME NEW n \in Lengths PROVE n + 1 \in Lengths
  <2>1. n \in Nat /\ \A s \in Seq(S) : Len(s) = n => s \in T OBVIOUS
  <2>2. ASSUME NEW s \in Seq(S), Len(s) = n + 1 PROVE s \in T
    <3>1. s # <<>> BY <2>1, <2>2, EmptySeq
    <3>2. PICK t \in Seq(S), e \in S : s = Append(t, e) /\ Len(s) = Len(t) + 1
      BY <3>1, LastElement
    <3>3. Len(t) = n BY <2>1, <2>2, <3>2, LenProperties
    <3> QED BY <2>1, <3>2, <3>3
  <2> QED BY <2>1, <2>2
<1> HIDE DEF Lengths
<1>3. Lengths = Nat BY <1>1, <1>2, NumberInduction DEF Lengths
<1>4. ASSUME NEW s \in Seq(S) PROVE s \in T
  <2>1. Len(s) \in Lengths BY <1>3, LenProperties
  <2> QED BY <2>1 DEF Lengths
<1> QED BY <1>4

-----------------------------------------------------------------------------
(* What the parser makes of a text.                                         *)

\* The parser's recursion, as an equation.
Upto(f, text, n) ==
    f = [m \in 0..n |-> IF m = 0 THEN NothingParsed ELSE WithByte(f[m - 1], text[m])]

LEMMA UptoExists ==
    ASSUME NEW text, NEW n \in Nat
    PROVE  \E f : Upto(f, text, n)
<1> DEFINE T == {k \in Nat : \E f : Upto(f, text, k)}
<1>1. 0 \in T
  <2> DEFINE f == [m \in 0..0 |-> NothingParsed]
  <2>1. f = [m \in 0..0 |-> IF m = 0 THEN NothingParsed ELSE WithByte(f[m - 1], text[m])]
    OBVIOUS
  <2> HIDE DEF f
  <2>2. Upto(f, text, 0) BY <2>1 DEF Upto
  <2> QED BY <2>2
<1>2. ASSUME NEW k \in T PROVE k + 1 \in T
  <2>1. k \in Nat /\ \E f : Upto(f, text, k) OBVIOUS
  <2>2. PICK f : Upto(f, text, k) BY <2>1
  <2>3. /\ DOMAIN f = 0..k
        /\ \A m \in 0..k : f[m] = IF m = 0 THEN NothingParsed ELSE WithByte(f[m - 1], text[m])
    BY <2>2 DEF Upto
  <2> DEFINE g == [m \in 0..k + 1 |-> IF m <= k THEN f[m] ELSE WithByte(f[k], text[k + 1])]
             NewValue(m) == IF m = 0 THEN NothingParsed ELSE WithByte(g[m - 1], text[m])
  <2>4. ASSUME NEW m \in 0..k + 1 PROVE g[m] = NewValue(m)
    <3>1. CASE m = 0
      <4>1. m \in 0..k /\ m <= k BY <2>1, <3>1, SMT
      <4> QED BY <4>1, <2>3, <3>1
    <3>2. CASE m # 0 /\ m <= k
      <4>1. m \in 0..k /\ m - 1 \in 0..k + 1 /\ m - 1 <= k BY <2>1, <3>2, SMT
      <4>2. g[m] = f[m] /\ g[m - 1] = f[m - 1] BY <4>1, <3>2
      <4> HIDE DEF g
      <4> QED BY <4>1, <4>2, <2>3, <3>2
    <3>3. CASE ~(m <= k)
      <4>1. m = k + 1 /\ m - 1 = k /\ k \in 0..k + 1 /\ k <= k /\ m # 0 BY <2>1, <3>3, SMT
      <4>2. g[m] = WithByte(f[k], text[k + 1]) /\ g[k] = f[k] BY <4>1, <3>3
      <4> HIDE DEF g
      <4> QED BY <4>1, <4>2
    <3> QED BY <3>1, <3>2, <3>3
  <2>5. g = [m \in 0..k + 1 |-> g[m]] OBVIOUS
  <2> HIDE DEF g
  <2>6. Upto(g, text, k + 1) BY <2>4, <2>5 DEF Upto
  <2> QED BY <2>1, <2>6
<1> HIDE DEF T
<1>3. n \in T BY <1>1, <1>2, NumberInduction DEF T
<1> QED BY <1>3 DEF T

LEMMA ParsedIsUpto ==
    ASSUME NEW text
    PROVE  Len(text) \in Nat => \E f : Upto(f, text, Len(text)) /\ Parsed(text) = f[Len(text)]
<1> SUFFICES ASSUME Len(text) \in Nat
             PROVE  \E f : Upto(f, text, Len(text)) /\ Parsed(text) = f[Len(text)]
  OBVIOUS
<1> DEFINE g == CHOOSE f : Upto(f, text, Len(text))
<1>1. Upto(g, text, Len(text)) BY UptoExists
<1>2. Parsed(text) = g[Len(text)] BY DEF Parsed, Upto
<1> QED BY <1>1, <1>2

\* Two texts with the same first n bytes.
Agree(a, b, n) == \A i \in 1..n : a[i] = b[i]

\* What the parser makes of a text hangs on its first bytes, one after the other.
LEMMA UptoSame ==
    ASSUME NEW a, NEW b, NEW f, NEW g, NEW m \in Nat, NEW n \in Nat, m <= n,
           Upto(f, a, m), Upto(g, b, n), Agree(a, b, m)
    PROVE  f[m] = g[m]
<1> DEFINE T == {k \in Nat : k <= m => f[k] = g[k]}
<1>1. /\ \A k \in 0..m : f[k] = IF k = 0 THEN NothingParsed ELSE WithByte(f[k - 1], a[k])
      /\ \A k \in 0..n : g[k] = IF k = 0 THEN NothingParsed ELSE WithByte(g[k - 1], b[k])
  BY DEF Upto
<1>0. \A i \in 1..m : a[i] = b[i] BY DEF Agree
<1>2. 0 \in T
  <2>1. 0 \in 0..m /\ 0 \in 0..n BY SMT
  <2> QED BY <1>1, <2>1
<1>3. ASSUME NEW k \in T PROVE k + 1 \in T
  <2>1. k \in Nat /\ (k <= m => f[k] = g[k]) OBVIOUS
  <2> SUFFICES ASSUME k + 1 <= m PROVE f[k + 1] = g[k + 1] BY <2>1
  <2>2. k + 1 \in 0..m /\ k + 1 \in 0..n /\ k + 1 \in 1..m /\ k + 1 # 0 /\ (k + 1) - 1 = k /\ k <= m
    BY <2>1, SMT
  <2>3. f[k + 1] = WithByte(f[k], a[k + 1]) /\ g[k + 1] = WithByte(g[k], b[k + 1])
    BY <1>1, <2>2
  <2>4. a[k + 1] = b[k + 1] BY <1>0, <2>2
  <2> QED BY <2>1, <2>2, <2>3, <2>4
<1> HIDE DEF T
<1>4. m \in T BY <1>2, <1>3, NumberInduction DEF T
<1> QED BY <1>4 DEF T

LEMMA ParsedEmpty == Parsed(<<>>) = NothingParsed
<1>1. Len(<<>>) = 0 BY EmptySeq
<1>2. PICK f : Upto(f, <<>>, Len(<<>>)) /\ Parsed(<<>>) = f[Len(<<>>)] BY <1>1, ParsedIsUpto
<1>3. 0 \in 0..0 BY SMT
<1> QED BY <1>1, <1>2, <1>3 DEF Upto

LEMMA ParsedAppend ==
    ASSUME NEW text \in Seq(Nat), NEW byte \in Nat
    PROVE  Parsed(Append(text, byte)) = WithByte(Parsed(text), byte)
<1>1. PICK longer \in Seq(Nat) :
          /\ longer = Append(text, byte) /\ Len(longer) = Len(text) + 1
          /\ \A i \in 1..Len(text) : longer[i] = text[i]
          /\ longer[Len(text) + 1] = byte
  BY AppendProperties
<1>2. PICK n \in Nat : n = Len(text) BY LenProperties
<1>3. /\ n + 1 \in 0..n + 1 /\ n + 1 # 0 /\ (n + 1) - 1 = n /\ n <= n + 1 /\ n + 1 \in Nat
      /\ Len(longer) \in Nat
  BY <1>1, <1>2, SMT
<1>4. PICK f : Upto(f, text, n) /\ Parsed(text) = f[n] BY <1>2, ParsedIsUpto
<1>5. PICK g : Upto(g, longer, n + 1) /\ Parsed(longer) = g[n + 1]
  BY <1>1, <1>2, <1>3, ParsedIsUpto
<1>6. g[n + 1] = WithByte(g[n], longer[n + 1]) BY <1>3, <1>5 DEF Upto
<1>7. Agree(text, longer, n) BY <1>1, <1>2 DEF Agree
<1>8. f[n] = g[n] BY <1>3, <1>4, <1>5, <1>7, UptoSame
<1> QED BY <1>1, <1>2, <1>4, <1>5, <1>6, <1>8

\* What is kept of a sequence as it grows.
LEMMA FirstOfMore ==
    ASSUME NEW s \in Seq(Nat), NEW byte \in Nat
    PROVE  /\ FirstOf(s, SubnegMax) \in Seq(Nat)
           /\ FirstOf(Append(s, byte), SubnegMax) = Collected(FirstOf(s, SubnegMax), byte)
<1> DEFINE t == Append(s, byte)
           n == Len(s)
           m == SubnegMax
<1>1. /\ t \in Seq(Nat) /\ n \in Nat /\ m \in Nat /\ Len(t) = n + 1
      /\ (\A i \in 1..n : t[i] = s[i]) /\ t[n + 1] = byte
  BY AppendProperties, LenProperties, TelnetAssumption
<1>2. CASE n < m
  <2>1. n <= m /\ Len(t) <= m BY <1>1, <1>2
  <2> QED BY <2>1, <1>1, <1>2 DEF FirstOf, Collected
<1>3. CASE n >= m
  <2>1. ~(Len(t) <= m) /\ m \in 1..Len(t) \cup {0} BY <1>1, <1>3
  <2>2. FirstOf(t, m) = SubSeq(t, 1, m) BY <2>1 DEF FirstOf
  <2> HIDE DEF t, n, m
  <2>3. /\ SubSeq(s, 1, m) \in Seq(Nat) /\ SubSeq(t, 1, m) \in Seq(Nat)
        /\ Len(SubSeq(s, 1, m)) = m /\ Len(SubSeq(t, 1, m)) = m
        /\ \A i \in 1..m : SubSeq(s, 1, m)[i] = s[i] /\ SubSeq(t, 1, m)[i] = t[i]
    <3>1. \A i \in 1..m : i \in 1..n /\ i \in 1..n + 1 BY <1>1, <1>3, SMT
    <3>2. \A i \in 1..m : s[i] \in Nat BY <3>1, ElementOfSeq DEF n
    <3>3. \A i \in 1..m : t[i] \in Nat BY <3>1, <1>1, ElementOfSeq
    <3>4. (m - 1) + 1 = m /\ 1 \in Int /\ m \in Int /\ (\A i \in 1..m : 1 + i - 1 = i)
          /\ (IF 1 <= m THEN m - 1 + 1 ELSE 0) = m
      BY <1>1, SMT
    <3>5. /\ SubSeq(s, 1, m) \in Seq(Nat) /\ Len(SubSeq(s, 1, m)) = m
          /\ \A i \in 1..m : SubSeq(s, 1, m)[i] = s[i]
      <4>1. /\ SubSeq(s, 1, m) \in Seq(Nat) /\ Len(SubSeq(s, 1, m)) = IF 1 <= m THEN m - 1 + 1 ELSE 0
            /\ \A i \in 1..m - 1 + 1 : SubSeq(s, 1, m)[i] = s[1 + i - 1]
        BY <3>2, <3>4, SubSeqProperties
      <4> QED BY <3>4, <4>1
    <3>6. /\ SubSeq(t, 1, m) \in Seq(Nat) /\ Len(SubSeq(t, 1, m)) = m
          /\ \A i \in 1..m : SubSeq(t, 1, m)[i] = t[i]
      <4>1. /\ SubSeq(t, 1, m) \in Seq(Nat) /\ Len(SubSeq(t, 1, m)) = IF 1 <= m THEN m - 1 + 1 ELSE 0
            /\ \A i \in 1..m - 1 + 1 : SubSeq(t, 1, m)[i] = t[1 + i - 1]
        BY <3>3, <3>4, SubSeqProperties
      <4> QED BY <3>4, <4>1
    <3> QED BY <3>5, <3>6
  <2>4. \A i \in 1..m : SubSeq(s, 1, m)[i] = SubSeq(t, 1, m)[i]
    <3>1. \A i \in 1..m : i \in 1..n BY <1>1, <1>3, SMT
    <3> QED BY <3>1, <2>3, <1>1
  <2>5. SubSeq(s, 1, m) = SubSeq(t, 1, m) BY <2>3, <2>4, SeqEqual
  <2>6. FirstOf(s, m) = SubSeq(s, 1, m)
    <3>1. CASE n = m
      <4>1. SubSeq(s, 1, m) = s BY <3>1, SubSeqFull DEF n
      <4> QED BY <4>1 DEF FirstOf
    <3>2. CASE n > m
      BY <3>2, <1>1 DEF FirstOf, n
    <3> QED BY <3>1, <3>2, <1>1, <1>3
  <2>7. Collected(SubSeq(s, 1, m), byte) = SubSeq(s, 1, m) BY <2>3, <1>1 DEF Collected, m
  <2> QED BY <2>2, <2>3, <2>5, <2>6, <2>7 DEF t, m
<1>4. FirstOf(s, m) \in Seq(Nat)
  <2>1. CASE n <= m BY <2>1 DEF FirstOf
  <2>2. CASE ~(n <= m)
    <3>1. m \in Int /\ 1 \in Int /\ 1 >= 1 /\ m <= Len(s) BY <1>1, <2>2
    <3>2. SubSeq(s, 1, m) \in Seq(Nat) BY <3>1, SubSeqType
    <3> QED BY <3>2, <2>2 DEF FirstOf
  <2> QED BY <2>1, <2>2
<1> HIDE DEF t, n
<1>5. n < m \/ n >= m BY <1>1, SMT
<1> QED BY <1>2, <1>3, <1>4, <1>5 DEF t, n

\* What the parser makes of a byte, state by state.
LEMMA StepCases ==
    ASSUME NEW p \in Parsers, NEW byte \in Nat
    PROVE  LET q == Step(p, byte)
           IN  /\ p.state = "data" /\ byte # IAC =>
                     q = p /\ Serial(p, byte) = <<byte>> /\ Commands(p, byte) = <<>>
               /\ p.state = "data" /\ byte = IAC =>
                     /\ q.state = "iac" /\ q.subneg = p.subneg /\ q.negotiate_cmd = p.negotiate_cmd
                     /\ Serial(p, byte) = <<>> /\ Commands(p, byte) = <<>>
               /\ p.state = "iac" /\ byte = IAC =>
                     /\ q.state = "data" /\ q.subneg = p.subneg /\ q.negotiate_cmd = p.negotiate_cmd
                     /\ Serial(p, byte) = <<byte>> /\ Commands(p, byte) = <<>>
               /\ p.state = "iac" /\ byte \in Negotiations =>
                     /\ q.state = "negotiate" /\ q.negotiate_cmd = byte
                     /\ Serial(p, byte) = <<>> /\ Commands(p, byte) = <<>>
               /\ p.state = "iac" /\ byte = SB =>
                     /\ q.state = "sb" /\ q.subneg = <<>>
                     /\ Serial(p, byte) = <<>> /\ Commands(p, byte) = <<>>
               /\ p.state = "iac" /\ byte \notin Negotiations \cup {IAC, SB} =>
                     q.state = "data" /\ Serial(p, byte) = <<>> /\ Commands(p, byte) = <<>>
               /\ p.state = "negotiate" =>
                     /\ q.state = "data" /\ Serial(p, byte) = <<>>
                     /\ Commands(p, byte) = <<[kind |-> "option", frame |-> <<p.negotiate_cmd, byte>>]>>
               /\ p.state = "sb" /\ byte # IAC =>
                     /\ q.state = "sb" /\ q.subneg = Collected(p.subneg, byte)
                     /\ q.negotiate_cmd = p.negotiate_cmd
                     /\ Serial(p, byte) = <<>> /\ Commands(p, byte) = <<>>
               /\ p.state = "sb" /\ byte = IAC =>
                     /\ q.state = "sb_iac" /\ q.subneg = p.subneg /\ q.negotiate_cmd = p.negotiate_cmd
                     /\ Serial(p, byte) = <<>> /\ Commands(p, byte) = <<>>
               /\ p.state = "sb_iac" /\ byte = IAC =>
                     /\ q.state = "sb" /\ q.subneg = Collected(p.subneg, byte)
                     /\ q.negotiate_cmd = p.negotiate_cmd
                     /\ Serial(p, byte) = <<>> /\ Commands(p, byte) = <<>>
               /\ p.state = "sb_iac" /\ byte # IAC =>
                     /\ q.state = "data" /\ q.subneg = <<>> /\ q.negotiate_cmd = p.negotiate_cmd
                     /\ Serial(p, byte) = <<>>
                     /\ Commands(p, byte) =
                           IF byte = SE THEN <<[kind |-> "subneg", frame |-> p.subneg]>> ELSE <<>>
<1> DEFINE q == Step(p, byte)
<1>0. /\ p.state \in {"data", "iac", "negotiate", "sb", "sb_iac"}
      /\ p = [state |-> p.state, negotiate_cmd |-> p.negotiate_cmd, subneg |-> p.subneg]
      /\ SE # IAC /\ SB # IAC /\ IAC \notin Negotiations /\ SB \notin Negotiations
  BY DEF Parsers, SE, SB, IAC, Negotiations, WILL, WONT, DO, DONT
<1> HIDE DEF q
<1>1. CASE p.state = "data"
  <2>1. CASE byte # IAC
    BY <1>1, <2>1 DEF q, Step, Serial, Commands
  <2>2. CASE byte = IAC
    <3>1. q = [p EXCEPT !.state = "iac"] BY <1>1, <2>2 DEF q, Step
    <3>2. q.state = "iac" /\ q.subneg = p.subneg /\ q.negotiate_cmd = p.negotiate_cmd
      BY <3>1 DEF Parsers
    <3> QED BY <1>1, <2>2, <3>2 DEF q, Serial, Commands
  <2> QED BY <1>1, <2>1, <2>2 DEF q
<1>2. CASE p.state = "iac"
  <2>0. Commands(p, byte) = <<>> BY <1>2 DEF Commands
  <2>1. CASE byte = IAC
    <3>1. q = [p EXCEPT !.state = "data"] BY <1>0, <1>2, <2>1 DEF q, Step
    <3>2. q.state = "data" /\ q.subneg = p.subneg /\ q.negotiate_cmd = p.negotiate_cmd
      BY <3>1 DEF Parsers
    <3>3. Serial(p, byte) = <<byte>> BY <1>2, <2>1 DEF Serial
    <3> QED BY <1>0, <1>2, <2>0, <2>1, <3>2, <3>3 DEF q
  <2>2. CASE byte \in Negotiations
    <3>1. q = [p EXCEPT !.state = "negotiate", !.negotiate_cmd = byte]
      BY <1>0, <1>2, <2>2 DEF q, Step
    <3>2. q.state = "negotiate" /\ q.negotiate_cmd = byte BY <3>1 DEF Parsers
    <3>3. byte # IAC /\ byte # SB /\ Serial(p, byte) = <<>> BY <1>0, <1>2, <2>2 DEF Serial
    <3> QED BY <1>2, <2>0, <2>2, <3>2, <3>3 DEF q
  <2>3. CASE byte = SB
    <3>1. q = [p EXCEPT !.state = "sb", !.subneg = <<>>] BY <1>0, <1>2, <2>3 DEF q, Step
    <3>2. q.state = "sb" /\ q.subneg = <<>> BY <3>1 DEF Parsers
    <3>3. Serial(p, byte) = <<>> BY <1>0, <1>2, <2>3 DEF Serial
    <3> QED BY <1>0, <1>2, <2>0, <2>3, <3>2, <3>3 DEF q
  <2>4. CASE byte \notin Negotiations \cup {IAC, SB}
    <3>1. q = [p EXCEPT !.state = "data"] BY <1>2, <2>4 DEF q, Step
    <3>2. q.state = "data" BY <3>1 DEF Parsers
    <3>3. Serial(p, byte) = <<>> BY <1>2, <2>4 DEF Serial
    <3> QED BY <1>2, <2>0, <2>4, <3>2, <3>3 DEF q
  <2> QED BY <2>1, <2>2, <2>3, <2>4
<1>3. CASE p.state = "negotiate"
  <2>1. q = [p EXCEPT !.state = "data"] BY <1>3 DEF q, Step
  <2>2. q.state = "data" BY <2>1 DEF Parsers
  <2> QED BY <1>3, <2>2 DEF q, Serial, Commands
<1>4. CASE p.state = "sb"
  <2>1. CASE byte = IAC
    <3>1. q = [p EXCEPT !.state = "sb_iac"] BY <1>4, <2>1 DEF q, Step
    <3>2. q.state = "sb_iac" /\ q.subneg = p.subneg /\ q.negotiate_cmd = p.negotiate_cmd
      BY <3>1 DEF Parsers
    <3> QED BY <1>4, <2>1, <3>2 DEF q, Serial, Commands
  <2>2. CASE byte # IAC
    <3>1. PICK c : c = Collected(p.subneg, byte) OBVIOUS
    <3>2. q = [p EXCEPT !.state = "sb", !.subneg = c] BY <1>4, <2>2, <3>1 DEF q, Step
    <3>3. q.state = "sb" /\ q.subneg = c /\ q.negotiate_cmd = p.negotiate_cmd
      BY <3>2 DEF Parsers
    <3> QED BY <1>4, <2>2, <3>1, <3>3 DEF q, Serial, Commands
  <2> QED BY <2>1, <2>2
<1>5. CASE p.state = "sb_iac"
  <2>1. CASE byte = IAC
    <3>1. PICK c : c = Collected(p.subneg, byte) OBVIOUS
    <3>2. q = [p EXCEPT !.state = "sb", !.subneg = c] BY <1>5, <2>1, <3>1 DEF q, Step
    <3>3. q.state = "sb" /\ q.subneg = c /\ q.negotiate_cmd = p.negotiate_cmd
      BY <3>2 DEF Parsers
    <3>4. Serial(p, byte) = <<>> /\ Commands(p, byte) = <<>>
      BY <1>0, <1>5, <2>1 DEF Serial, Commands
    <3> QED BY <1>5, <2>1, <3>1, <3>3, <3>4 DEF q
  <2>2. CASE byte # IAC
    <3>1. q = [p EXCEPT !.state = "data", !.subneg = <<>>] BY <1>5, <2>2 DEF q, Step
    <3>2. q.state = "data" /\ q.subneg = <<>> /\ q.negotiate_cmd = p.negotiate_cmd
      BY <3>1 DEF Parsers
    <3> QED BY <1>5, <2>2, <3>2 DEF q, Serial, Commands
  <2> QED BY <2>1, <2>2
<1> QED BY <1>0, <1>1, <1>2, <1>3, <1>4, <1>5

\* What parsing gives is typed, and the last byte counts last.
Results == [parser : Parsers, serial : Seq(Nat), commands : Seq(CommandRecords)]

LEMMA WithByteIs ==
    ASSUME NEW r \in Results, NEW byte \in Nat
    PROVE  LET n == WithByte(r, byte)
           IN  /\ n \in Results
               /\ n.parser = Step(r.parser, byte)
               /\ n.serial = r.serial \o Serial(r.parser, byte)
               /\ n.commands = r.commands \o Commands(r.parser, byte)
<1>1. r.parser \in Parsers /\ r.serial \in Seq(Nat) /\ r.commands \in Seq(CommandRecords)
  BY DEF Results
<1>2. /\ Step(r.parser, byte) \in Parsers
      /\ Serial(r.parser, byte) \in Seq(Nat)
      /\ Commands(r.parser, byte) \in Seq(CommandRecords)
  BY <1>1, StepType, ParsedType
<1>3. /\ r.serial \o Serial(r.parser, byte) \in Seq(Nat)
      /\ r.commands \o Commands(r.parser, byte) \in Seq(CommandRecords)
  BY <1>1, <1>2, ConcatProperties
<1> QED BY <1>2, <1>3 DEF WithByte, Results

LEMMA NothingIsResult == NothingParsed \in Results
<1>1. NewParser \in Parsers /\ <<>> \in Seq(Nat) /\ <<>> \in Seq(CommandRecords)
  BY NewParserType, EmptySeq
<1> QED BY <1>1 DEF NothingParsed, Results

LEMMA ParsedResult ==
    ASSUME NEW text \in Seq(Nat)
    PROVE  Parsed(text) \in Results
<1> DEFINE T == {t \in Seq(Nat) : Parsed(t) \in Results}
<1>1. <<>> \in T BY ParsedEmpty, NothingIsResult, EmptySeq
<1>2. ASSUME NEW t \in T, NEW byte \in Nat PROVE Append(t, byte) \in T
  BY ParsedAppend, WithByteIs, AppendProperties
<1> HIDE DEF T
<1>3. T = Seq(Nat) BY <1>1, <1>2, SequenceInduction DEF T
<1> QED BY <1>3 DEF T

\* What the parser, started afresh, makes of the bytes from b to j.
Part(s, b, j) == Parsed(SubSeq(s, b, j))

LEMMA PartIs ==
    ASSUME NEW s \in Seq(Nat), NEW b \in 1 .. Len(s) + 1
    PROVE  /\ Part(s, b, b - 1) = NothingParsed
           /\ \A j \in b - 1 .. Len(s) : Part(s, b, j) \in Results
           /\ \A j \in b .. Len(s) : Part(s, b, j) = WithByte(Part(s, b, j - 1), s[j]) /\ s[j] \in Nat
           /\ Part(s, 1, Len(s)) = Parsed(s)
<1>1. Len(s) \in Nat BY LenProperties
<1>2. Part(s, b, b - 1) = NothingParsed
  <2>1. b - 1 < b /\ b \in Int /\ b - 1 \in Int BY <1>1, SMT
  <2> QED BY <2>1, SubSeqEmpty, ParsedEmpty DEF Part
<1>3. ASSUME NEW j \in b - 1 .. Len(s) PROVE SubSeq(s, b, j) \in Seq(Nat) /\ Part(s, b, j) \in Results
  <2>1. b \in Int /\ j \in Int /\ b >= 1 /\ j <= Len(s) BY <1>1, SMT
  <2>2. SubSeq(s, b, j) \in Seq(Nat) BY <2>1, SubSeqType
  <2> QED BY <2>2, ParsedResult DEF Part
<1>4. ASSUME NEW j \in b .. Len(s)
      PROVE  Part(s, b, j) = WithByte(Part(s, b, j - 1), s[j]) /\ s[j] \in Nat
  <2>1. b \in 1..Len(s) /\ j \in 1..Len(s) /\ j - 1 \in b - 1 .. Len(s) BY <1>1, SMT
  <2>2. SubSeq(s, b, j) = SubSeq(s, b, j - 1) \o <<s[j]>> BY <2>1, SubSeqRecursiveSecond
  <2>3. s[j] \in Nat BY <2>1, ElementOfSeq
  <2>4. SubSeq(s, b, j - 1) \in Seq(Nat) BY <2>1, <1>3
  <2>5. SubSeq(s, b, j) = Append(SubSeq(s, b, j - 1), s[j]) BY <2>2, <2>3, <2>4, AppendIsConcat
  <2> QED BY <2>3, <2>4, <2>5, ParsedAppend DEF Part
<1>5. Part(s, 1, Len(s)) = Parsed(s) BY SubSeqFull DEF Part
<1> QED BY <1>2, <1>3, <1>4, <1>5

-----------------------------------------------------------------------------
\* Where a subnegotiation ends.

\* From k to j there are only 255s, and from b on these are all before the byte after j.
Run(s, b, k, j) ==
    /\ \A l \in k..j : s[l] = IAC
    /\ k = b \/ s[k - 1] # IAC

LEMMA RunIsOne ==
    ASSUME NEW s, NEW b \in Nat, NEW j \in Nat, NEW k \in b .. j + 1, NEW l \in b .. j + 1,
           Run(s, b, k, j), Run(s, b, l, j)
    PROVE  k = l
<1>1. ~(k < l)
  <2> SUFFICES ASSUME k < l PROVE FALSE OBVIOUS
  <2>1. l # b /\ l - 1 \in k..j BY SMT
  <2> QED BY <2>1 DEF Run
<1>2. ~(l < k)
  <2> SUFFICES ASSUME l < k PROVE FALSE OBVIOUS
  <2>1. k # b /\ k - 1 \in l..j BY SMT
  <2> QED BY <2>1 DEF Run
<1> QED BY <1>1, <1>2, SMT

\* No subnegotiation from b on has ended up to j.
Unended(s, b, j) == \A d \in b + 1 .. j : ~EndsAt(s, b, d)

\* Inside of one, the parser tells an odd number of 255s from an even one, and keeps what a
\* parser of data would make of the inside.
InsideAt(s, b, j) ==
    LET start == Part(s, 1, b - 1)
        now == Part(s, 1, j)
        inside == Part(s, b, j)
    IN  /\ now.serial = start.serial /\ now.commands = start.commands
        /\ now.parser.subneg = FirstOf(inside.serial, SubnegMax)
        /\ \E k \in b .. j + 1 :
              /\ Run(s, b, k, j)
              /\ \/ /\ (j + 1 - k) % 2 = 0
                    /\ now.parser.state = "sb" /\ inside.parser.state = "data"
                 \/ /\ (j + 1 - k) % 2 = 1
                    /\ now.parser.state = "sb_iac" /\ inside.parser.state = "iac"

LEMMA FirstOfNothing == FirstOf(<<>>, SubnegMax) = <<>>
BY EmptySeq, TelnetAssumption DEF FirstOf

LEMMA Parity ==
    ASSUME NEW x \in Nat
    PROVE  x % 2 \in {0, 1} /\ (x + 1) % 2 = 1 - (x % 2)
<1> DEFINE q == x \div 2
           r == x % 2
           y == x + 1
           p == y \div 2
           t == y % 2
<1>1. x = 2 * q + r /\ q \in Int /\ r \in 0..1 BY SMT
<1>2. y = 2 * p + t /\ p \in Int /\ t \in 0..1 BY SMT
<1>3. y = x + 1 OBVIOUS
<1> HIDE DEF q, r, p, t, y
<1>4. r \in {0, 1} /\ t = 1 - r BY <1>1, <1>2, <1>3, SMT
<1> QED BY <1>4 DEF r, t, y

LEMMA InsideStep ==
    ASSUME NEW s \in Seq(Nat), NEW b \in 1 .. Len(s) + 1, NEW j \in b .. Len(s),
           InsideAt(s, b, j - 1), ~EndsAt(s, b, j)
    PROVE  InsideAt(s, b, j)
<1>1. Len(s) \in Nat BY LenProperties
<1>2. b \in Nat /\ j \in Nat /\ j - 1 \in Nat /\ 1 \in 1 .. Len(s) + 1 /\ (j - 1) + 1 = j /\ b >= 1
  BY <1>1, SMT
<1> DEFINE was == Part(s, 1, j - 1)
           now == Part(s, 1, j)
           inWas == Part(s, b, j - 1)
           inNow == Part(s, b, j)
<1>3. was \in Results /\ now = WithByte(was, s[j]) /\ s[j] \in Nat /\ now \in Results
  <2>1. j - 1 \in 1 - 1 .. Len(s) /\ j \in 1 .. Len(s) /\ j \in 1 - 1 .. Len(s) BY <1>1, SMT
  <2> QED BY <1>2, <2>1, PartIs
<1>4. inWas \in Results /\ inNow = WithByte(inWas, s[j]) /\ inNow \in Results
  <2>1. j - 1 \in b - 1 .. Len(s) /\ j \in b - 1 .. Len(s) BY <1>1, SMT
  <2> QED BY <2>1, PartIs
<1>5. PICK byte \in Nat : byte = s[j] BY <1>3
<1>13. was \in Results /\ inWas \in Results /\ now = WithByte(was, byte) /\ inNow = WithByte(inWas, byte)
  BY <1>3, <1>4, <1>5
<1>6. /\ was.parser \in Parsers /\ inWas.parser \in Parsers
      /\ was.serial \in Seq(Nat) /\ was.commands \in Seq(CommandRecords) /\ inWas.serial \in Seq(Nat)
  BY <1>3, <1>4 DEF Results
<1>7. /\ now.parser = Step(was.parser, byte)
      /\ now.serial = was.serial \o Serial(was.parser, byte)
      /\ now.commands = was.commands \o Commands(was.parser, byte)
      /\ inNow.parser = Step(inWas.parser, byte)
      /\ inNow.serial = inWas.serial \o Serial(inWas.parser, byte)
  <2> HIDE DEF was, now, inWas, inNow
  <2> QED BY <1>13, WithByteIs
<1>8. /\ was.serial = Part(s, 1, b - 1).serial /\ was.commands = Part(s, 1, b - 1).commands
      /\ was.parser.subneg = FirstOf(inWas.serial, SubnegMax)
  BY DEF InsideAt
<1>9. PICK k \in b..j :
          /\ Run(s, b, k, j - 1)
          /\ \/ /\ (j - k) % 2 = 0
                /\ was.parser.state = "sb" /\ inWas.parser.state = "data"
             \/ /\ (j - k) % 2 = 1
                /\ was.parser.state = "sb_iac" /\ inWas.parser.state = "iac"
  BY <1>2 DEF InsideAt
<1>10. k \in Nat /\ k <= j /\ b <= k BY <1>2, SMT
<1>14. /\ (j - k) % 2 = 0 => (j + 1 - k) % 2 = 1
       /\ (j - k) % 2 = 1 => (j + 1 - k) % 2 = 0 /\ (j - k) % 2 # 0
  <2>1. j - k \in Nat /\ j + 1 - k = (j - k) + 1 BY <1>2, <1>10, SMT
  <2> QED BY <2>1, Parity
<1> HIDE DEF was, now, inWas, inNow
<1>11. CASE byte = IAC
  <2>1. Run(s, b, k, j)
    <3>1. \A l \in k..j : l \in k .. j - 1 \/ l = j BY <1>2, <1>10, SMT
    <3> QED BY <1>5, <1>9, <1>11, <3>1 DEF Run
  <2>2. k \in b .. j + 1 BY <1>2, <1>10, SMT
  <2>3. CASE (j - k) % 2 = 0 /\ was.parser.state = "sb" /\ inWas.parser.state = "data"
    <3>1. (j + 1 - k) % 2 = 1 BY <1>14, <2>3
    <3>2. /\ now.parser.state = "sb_iac" /\ now.parser.subneg = was.parser.subneg
          /\ Serial(was.parser, byte) = <<>> /\ Commands(was.parser, byte) = <<>>
          /\ inNow.parser.state = "iac" /\ Serial(inWas.parser, byte) = <<>>
      BY <1>6, <1>7, <1>11, <2>3, StepCases
    <3>3. now.serial = was.serial /\ now.commands = was.commands /\ inNow.serial = inWas.serial
      BY <1>6, <1>7, <3>2, ConcatEmptySeq
    <3> QED BY <1>8, <2>1, <2>2, <3>1, <3>2, <3>3 DEF InsideAt, now, inNow
  <2>4. CASE (j - k) % 2 = 1 /\ was.parser.state = "sb_iac" /\ inWas.parser.state = "iac"
    <3>1. (j + 1 - k) % 2 = 0 BY <1>14, <2>4
    <3>2. /\ now.parser.state = "sb" /\ now.parser.subneg = Collected(was.parser.subneg, byte)
          /\ Serial(was.parser, byte) = <<>> /\ Commands(was.parser, byte) = <<>>
          /\ inNow.parser.state = "data" /\ Serial(inWas.parser, byte) = <<byte>>
      <4>1. /\ now.parser.state = "sb" /\ now.parser.subneg = Collected(was.parser.subneg, byte)
            /\ Serial(was.parser, byte) = <<>> /\ Commands(was.parser, byte) = <<>>
        BY <1>6, <1>7, <1>11, <2>4, StepCases, SMTT(30)
      <4>2. inNow.parser.state = "data" /\ Serial(inWas.parser, byte) = <<byte>>
        BY <1>6, <1>7, <1>11, <2>4, StepCases, SMTT(30)
      <4> QED BY <4>1, <4>2
    <3>3. now.serial = was.serial /\ now.commands = was.commands
      BY <1>6, <1>7, <3>2, ConcatEmptySeq
    <3>4. inNow.serial = Append(inWas.serial, byte) BY <1>6, <1>7, <3>2, AppendIsConcat
    <3>5. now.parser.subneg = FirstOf(inNow.serial, SubnegMax)
      BY <1>6, <1>8, <3>2, <3>4, FirstOfMore
    <3> QED BY <1>8, <2>1, <2>2, <3>1, <3>2, <3>3, <3>5 DEF InsideAt, now, inNow
  <2> QED BY <1>9, <2>3, <2>4
<1>12. CASE byte # IAC
  <2>1. (j - k) % 2 = 0 /\ was.parser.state = "sb" /\ inWas.parser.state = "data"
    <3> SUFFICES ASSUME (j - k) % 2 = 1 PROVE FALSE BY <1>9
    <3>1. k \in b .. j - 1 BY <1>2, <1>10, SMT
    <3>2. EndsAt(s, b, j) BY <1>5, <1>9, <1>12, <3>1 DEF EndsAt, Run
    <3> QED BY <3>2
  <2>2. Run(s, b, j + 1, j)
    <3>1. (j + 1) - 1 = j /\ \A l \in j + 1 .. j : FALSE BY <1>2, SMT
    <3> QED BY <1>5, <1>12, <3>1 DEF Run
  <2>3. j + 1 \in b .. j + 1 /\ (j + 1 - (j + 1)) % 2 = 0 BY <1>2, <1>10, SMT
  <2>4. /\ now.parser.state = "sb" /\ now.parser.subneg = Collected(was.parser.subneg, byte)
        /\ Serial(was.parser, byte) = <<>> /\ Commands(was.parser, byte) = <<>>
        /\ inNow.parser.state = "data" /\ Serial(inWas.parser, byte) = <<byte>>
    BY <1>6, <1>7, <1>12, <2>1, StepCases
  <2>5. now.serial = was.serial /\ now.commands = was.commands
    BY <1>6, <1>7, <2>4, ConcatEmptySeq
  <2>6. inNow.serial = Append(inWas.serial, byte) BY <1>6, <1>7, <2>4, AppendIsConcat
  <2>7. now.parser.subneg = FirstOf(inNow.serial, SubnegMax)
    BY <1>6, <1>8, <2>4, <2>6, FirstOfMore
  <2> QED BY <1>8, <2>2, <2>3, <2>4, <2>5, <2>7 DEF InsideAt, now, inNow
<1> QED BY <1>11, <1>12

LEMMA InsideAlways ==
    ASSUME NEW s \in Seq(Nat), NEW b \in 1 .. Len(s) + 1, NEW j \in b - 1 .. Len(s),
           Part(s, 1, b - 1).parser.state = "sb", Part(s, 1, b - 1).parser.subneg = <<>>,
           Unended(s, b, j)
    PROVE  InsideAt(s, b, j)
<1>1. Len(s) \in Nat BY LenProperties
<1> DEFINE T == {n \in Nat : b - 1 + n <= j => InsideAt(s, b, b - 1 + n)}
<1>2. 0 \in T
  <2>1. b - 1 + 0 = b - 1 /\ 0 \in Nat BY <1>1, SMT
  <2>2. InsideAt(s, b, b - 1)
    <3>1. Part(s, b, b - 1) = NothingParsed BY PartIs
    <3>2. /\ NothingParsed.serial = <<>> /\ NothingParsed.parser.state = "data"
      BY DEF NothingParsed, NewParser
    <3>3. b \in b .. (b - 1) + 1 /\ ((b - 1) + 1 - b) % 2 = 0 /\ \A l \in b .. b - 1 : FALSE
      BY <1>1, SMT
    <3>4. Run(s, b, b, b - 1) BY <3>3 DEF Run
    <3> QED BY <3>1, <3>2, <3>3, <3>4, FirstOfNothing DEF InsideAt
  <2> QED BY <2>1, <2>2
<1>3. ASSUME NEW n \in T PROVE n + 1 \in T
  <2>1. n \in Nat /\ (b - 1 + n <= j => InsideAt(s, b, b - 1 + n)) OBVIOUS
  <2> SUFFICES ASSUME b - 1 + (n + 1) <= j PROVE InsideAt(s, b, b - 1 + (n + 1))
    BY <2>1
  <2> DEFINE k == b - 1 + (n + 1)
  <2>2. k \in b .. Len(s) /\ k - 1 = b - 1 + n /\ k - 1 <= j /\ k <= j
    <3>1. n \in Nat /\ b \in Int /\ j \in Int /\ j <= Len(s) /\ b - 1 + (n + 1) <= j
      BY <1>1, <2>1, SMT
    <3> QED BY <1>1, <3>1, SMT
  <2>3. InsideAt(s, b, k - 1) BY <2>1, <2>2
  <2> HIDE DEF k
  <2>4. ~EndsAt(s, b, k)
    <3>1. CASE k = b
      <4>1. \A l \in b .. k - 1 : FALSE BY <3>1, <1>1, SMT
      <4> QED BY <4>1 DEF EndsAt
    <3>2. CASE k # b
      <4>1. k \in b + 1 .. j BY <3>2, <2>2, <1>1, SMT
      <4> QED BY <4>1 DEF Unended
    <3> QED BY <3>1, <3>2
  <2>5. InsideAt(s, b, k) BY <2>2, <2>3, <2>4, InsideStep
  <2> QED BY <2>5 DEF k
<1> HIDE DEF T
<1>4. T = Nat BY <1>2, <1>3, NumberInduction DEF T
<1>5. PICK n \in Nat : b - 1 + n = j
  <2>1. j - b + 1 \in Nat /\ b - 1 + (j - b + 1) = j BY <1>1, SMT
  <2> QED BY <2>1
<1>6. n \in T /\ b - 1 + n <= j BY <1>1, <1>4, <1>5, SMT
<1>7. InsideAt(s, b, b - 1 + n) BY <1>6 DEF T
<1> QED BY <1>5, <1>7

\* A subnegotiation that does not end leaves nothing, and one that ends, with SE, its inside.
LEMMA NoFrameEnd ==
    ASSUME NEW s \in Seq(Nat), NEW b \in 1 .. Len(s) + 1,
           Part(s, 1, b - 1).parser.state = "sb", Part(s, 1, b - 1).parser.subneg = <<>>,
           FrameEnds(s, b) = {}
    PROVE  /\ Part(s, 1, Len(s)).serial = Part(s, 1, b - 1).serial
           /\ Part(s, 1, Len(s)).commands = Part(s, 1, b - 1).commands
<1>1. Len(s) \in Nat /\ b \in Nat BY LenProperties
<1>2. Unended(s, b, Len(s))
  <2> SUFFICES ASSUME NEW x \in b + 1 .. Len(s), EndsAt(s, b, x) PROVE FALSE BY DEF Unended
  <2> DEFINE T == {d \in b + 1 .. Len(s) : EndsAt(s, b, d)}
  <2>1. T \in SUBSET Nat /\ x \in T BY <1>1, SMT
  <2>2. PICK e \in T : \A d \in T : e <= d
    <3> HIDE DEF T
    <3> QED BY <2>1, LeastNumber
  <2>3. \A d \in b + 1 .. e - 1 : d \in b + 1 .. Len(s) /\ ~(e <= d) BY <1>1, SMT
  <2>4. e \in FrameEnds(s, b) BY <2>2, <2>3 DEF FrameEnds
  <2> QED BY <2>4
<1>3. Len(s) \in b - 1 .. Len(s) BY <1>1, SMT
<1>4. InsideAt(s, b, Len(s)) BY <1>2, <1>3, InsideAlways
<1> QED BY <1>4 DEF InsideAt

LEMMA OneFrameEnd ==
    ASSUME NEW s \in Seq(Nat), NEW b \in 1 .. Len(s) + 1,
           NEW d \in FrameEnds(s, b), NEW e \in FrameEnds(s, b)
    PROVE  d = e
<1>1. Len(s) \in Nat BY LenProperties
<1>2. /\ d \in b + 1 .. Len(s) /\ EndsAt(s, b, d) /\ \A x \in b + 1 .. d - 1 : ~EndsAt(s, b, x)
      /\ e \in b + 1 .. Len(s) /\ EndsAt(s, b, e) /\ \A x \in b + 1 .. e - 1 : ~EndsAt(s, b, x)
  BY DEF FrameEnds
<1>3. d \notin b + 1 .. e - 1 /\ e \notin b + 1 .. d - 1 BY <1>2
<1> QED BY <1>1, <1>2, <1>3, SMT

LEMMA FrameEnd ==
    ASSUME NEW s \in Seq(Nat), NEW b \in 1 .. Len(s) + 1, NEW e \in FrameEnds(s, b),
           Part(s, 1, b - 1).parser.state = "sb", Part(s, 1, b - 1).parser.subneg = <<>>
    PROVE  /\ Part(s, 1, e).parser.state = "data"
           /\ Part(s, 1, e).serial = Part(s, 1, b - 1).serial
           /\ Part(s, 1, e).commands = Part(s, 1, b - 1).commands \o
                 (IF s[e] = SE
                  THEN <<[kind  |-> "subneg",
                          frame |-> FirstOf(Part(s, b, e - 2).serial, SubnegMax)]>>
                  ELSE <<>>)
<1>1. Len(s) \in Nat BY LenProperties
<1>2. e \in b + 1 .. Len(s) /\ EndsAt(s, b, e) /\ \A d \in b + 1 .. e - 1 : ~EndsAt(s, b, d)
  BY DEF FrameEnds
<1>3. /\ b \in Nat /\ e \in Nat /\ e - 1 \in Nat /\ e - 2 \in Nat /\ (e - 1) - 1 = e - 2 /\ (e - 1) + 1 = e
      /\ e - 1 \in b - 1 .. Len(s) /\ e - 2 \in b - 1 .. Len(s) /\ 1 \in 1 .. Len(s) + 1
      /\ e - 1 \in 1 .. Len(s) /\ e \in 1 .. Len(s) /\ e - 1 \in b .. Len(s)
      /\ e - 1 \in 1 - 1 .. Len(s) /\ e - 2 \in 1 - 1 .. Len(s)
  BY <1>1, <1>2, SMT
<1>4. Unended(s, b, e - 1) /\ Unended(s, b, e - 2)
  <2>1. \A d \in b + 1 .. e - 2 : d \in b + 1 .. e - 1 BY <1>3, SMT
  <2> QED BY <1>2, <2>1 DEF Unended
<1>5. InsideAt(s, b, e - 1) /\ InsideAt(s, b, e - 2) BY <1>3, <1>4, InsideAlways
<1> DEFINE last == Part(s, 1, e - 1)
           before == Part(s, 1, e - 2)
           inLast == Part(s, b, e - 1)
           inBefore == Part(s, b, e - 2)
<1>6. /\ last \in Results /\ before \in Results /\ inLast \in Results /\ inBefore \in Results
      /\ last = WithByte(before, s[e - 1]) /\ inLast = WithByte(inBefore, s[e - 1])
      /\ s[e - 1] \in Nat /\ s[e] \in Nat /\ Part(s, 1, e) = WithByte(last, s[e])
  BY <1>3, PartIs
<1>7. last.serial = Part(s, 1, b - 1).serial /\ last.commands = Part(s, 1, b - 1).commands
      /\ last.parser.subneg = FirstOf(inLast.serial, SubnegMax)
  BY <1>5 DEF InsideAt
<1>8. last.parser.state = "sb_iac" /\ s[e - 1] = IAC
  <2>1. PICK k \in b .. e - 1 : Run(s, b, k, e - 1) /\ (e - k) % 2 = 1
    BY <1>2 DEF EndsAt, Run
  <2>2. PICK l \in b .. e :
            /\ Run(s, b, l, e - 1)
            /\ (e - l) % 2 = 0 \/ last.parser.state = "sb_iac"
    BY <1>3, <1>5 DEF InsideAt
  <2>3. k = l
    <3>1. k \in b .. (e - 1) + 1 /\ l \in b .. (e - 1) + 1 BY <1>3, SMT
    <3> QED BY <1>3, <2>1, <2>2, <3>1, RunIsOne
  <2>4. 1 # 0 /\ e - 1 \in k .. e - 1 BY <1>3, SMT
  <2> QED BY <2>1, <2>2, <2>3, <2>4 DEF Run
<1>9. inLast.serial = inBefore.serial
  <2>1. \/ before.parser.state = "sb" /\ inBefore.parser.state = "data"
        \/ before.parser.state = "sb_iac" /\ inBefore.parser.state = "iac"
    BY <1>5 DEF InsideAt
  <2> HIDE DEF last, before, inLast, inBefore
  <2>2. last.parser = Step(before.parser, IAC) /\ before.parser \in Parsers /\ IAC \in Nat
    BY <1>6, <1>8, WithByteIs DEF Results
  <2>3. before.parser.state # "sb_iac"
    <3> SUFFICES ASSUME before.parser.state = "sb_iac" PROVE FALSE OBVIOUS
    <3>1. last.parser.state = "sb" BY <2>2, StepCases
    <3> QED BY <3>1, <1>8
  <2>4. inBefore.parser.state = "data" /\ inBefore.parser \in Parsers /\ inBefore.serial \in Seq(Nat)
    BY <1>6, <2>1, <2>3 DEF Results
  <2>5. Serial(inBefore.parser, IAC) = <<>> BY <2>2, <2>4, StepCases
  <2>6. inLast = WithByte(inBefore, IAC) /\ inBefore \in Results BY <1>6, <1>8
  <2>7. inLast.serial = inBefore.serial \o Serial(inBefore.parser, IAC) BY <2>2, <2>6, WithByteIs
  <2> QED BY <2>4, <2>5, <2>7, ConcatEmptySeq
<1>10. PICK byte \in Nat : byte = s[e] BY <1>6
<1>11. byte # IAC BY <1>2, <1>10 DEF EndsAt
<1> DEFINE end == Part(s, 1, e)
<1>12. end = WithByte(last, byte) BY <1>6, <1>10
<1>13. last \in Results BY <1>6
<1> HIDE DEF end, last, inLast, inBefore
<1>14. last.parser \in Parsers /\ last.serial \in Seq(Nat) BY <1>13 DEF Results
<1>15. /\ end.parser = Step(last.parser, byte)
       /\ end.serial = last.serial \o Serial(last.parser, byte)
       /\ end.commands = last.commands \o Commands(last.parser, byte)
  BY <1>12, <1>13, WithByteIs
<1>16. /\ end.parser.state = "data" /\ Serial(last.parser, byte) = <<>>
       /\ Commands(last.parser, byte) =
             IF byte = SE THEN <<[kind |-> "subneg", frame |-> last.parser.subneg]>> ELSE <<>>
  BY <1>8, <1>11, <1>14, <1>15, StepCases
<1>17. end.serial = last.serial BY <1>14, <1>15, <1>16, ConcatEmptySeq
<1> QED BY <1>7, <1>9, <1>10, <1>15, <1>16, <1>17 DEF end, inBefore

-----------------------------------------------------------------------------
\* Item by item: what the items of a text are worth, and what the parser makes of one.

FirstEnd(s, i) == CHOOSE e \in ItemEnds(s, i) : TRUE

\* The recursion of Joined from its item m on, as an equation.
JoinedFrom(f, s, worth, m) ==
    f = [i \in m .. Len(s) + 1 |->
            IF i > Len(s) THEN <<>>
            ELSE IF ItemEnds(s, i) = {} THEN <<>>
            ELSE worth[i] \o f[FirstEnd(s, i) + 1]]

LEMMA ItemEndsAhead ==
    ASSUME NEW s \in Seq(Nat), NEW i \in 1 .. Len(s)
    PROVE  /\ ItemEnds(s, i) \subseteq i .. Len(s)
           /\ ItemEnds(s, i) # {} => FirstEnd(s, i) \in ItemEnds(s, i) /\ FirstEnd(s, i) \in i .. Len(s)
<1>1. Len(s) \in Nat BY LenProperties
<1>2. FrameEnds(s, i + 2) \subseteq i .. Len(s)
  <2>1. \A e \in i + 2 + 1 .. Len(s) : e \in i .. Len(s) BY <1>1, SMT
  <2> QED BY <2>1 DEF FrameEnds
<1>3. /\ {i} \subseteq i .. Len(s) /\ {i + 2} \cap 1 .. Len(s) \subseteq i .. Len(s)
      /\ (i # Len(s) => {i + 1} \subseteq i .. Len(s))
  BY <1>1, SMT
<1>4. ItemEnds(s, i) \subseteq i .. Len(s) BY <1>2, <1>3, Zenon DEF ItemEnds
<1> QED BY <1>4 DEF FirstEnd

LEMMA JoinedExists ==
    ASSUME NEW s \in Seq(Nat), NEW worth
    PROVE  \E f : JoinedFrom(f, s, worth, 1) /\ Joined(s, worth) = f[1]
<1>1. Len(s) \in Nat BY LenProperties
<1> DEFINE T == {n \in Nat : n <= Len(s) => \E f : JoinedFrom(f, s, worth, Len(s) + 1 - n)}
<1>2. 0 \in T
  <2> DEFINE f == [i \in Len(s) + 1 .. Len(s) + 1 |-> <<>>]
  <2>1. \A i \in Len(s) + 1 .. Len(s) + 1 : i > Len(s) BY <1>1, SMT
  <2>2. Len(s) + 1 - 0 = Len(s) + 1 BY <1>1, SMT
  <2>3. f = [i \in Len(s) + 1 .. Len(s) + 1 |->
                IF i > Len(s) THEN <<>>
                ELSE IF ItemEnds(s, i) = {} THEN <<>>
                ELSE worth[i] \o f[FirstEnd(s, i) + 1]]
    BY <2>1
  <2> HIDE DEF f
  <2>4. JoinedFrom(f, s, worth, Len(s) + 1) BY <2>3 DEF JoinedFrom
  <2> QED BY <2>2, <2>4
<1>3. ASSUME NEW n \in T PROVE n + 1 \in T
  <2>1. n \in Nat /\ (n <= Len(s) => \E f : JoinedFrom(f, s, worth, Len(s) + 1 - n)) OBVIOUS
  <2> SUFFICES ASSUME n + 1 <= Len(s) PROVE \E g : JoinedFrom(g, s, worth, Len(s) + 1 - (n + 1))
    BY <2>1
  <2>2. PICK m \in 1 .. Len(s) : m = Len(s) + 1 - (n + 1) /\ m + 1 = Len(s) + 1 - n /\ n <= Len(s)
    <3>1. n \in Nat BY <2>1
    <3> DEFINE m == Len(s) + 1 - (n + 1)
    <3>2. m \in 1 .. Len(s) /\ m + 1 = Len(s) + 1 - n /\ n <= Len(s) BY <1>1, <3>1, SMT
    <3> QED BY <3>2
  <2>3. PICK f : JoinedFrom(f, s, worth, m + 1) BY <2>1, <2>2
  <2> DEFINE Item(h, i) == IF i > Len(s) THEN <<>>
                           ELSE IF ItemEnds(s, i) = {} THEN <<>>
                           ELSE worth[i] \o h[FirstEnd(s, i) + 1]
             g == [i \in m .. Len(s) + 1 |-> IF i = m THEN Item(f, m) ELSE f[i]]
  <2>4. \A i \in m + 1 .. Len(s) + 1 : f[i] = Item(f, i) BY <2>3 DEF JoinedFrom
  <2>5. \A i \in m + 1 .. Len(s) + 1 : i \in m .. Len(s) + 1 /\ i # m BY <1>1, SMT
  <2>6. \A i \in m + 1 .. Len(s) + 1 : g[i] = f[i] BY <2>5
  <2>7. m \in m .. Len(s) + 1 /\ \A i \in m .. Len(s) + 1 : i = m \/ i \in m + 1 .. Len(s) + 1
    BY <1>1, SMT
  <2>8. g[m] = Item(f, m) BY <2>7
  <2>9. \A i \in m .. Len(s) :
           ItemEnds(s, i) # {} => FirstEnd(s, i) + 1 \in m + 1 .. Len(s) + 1
    <3> TAKE i \in m .. Len(s)
    <3>1. i \in 1 .. Len(s) /\ i >= m BY <1>1, SMT
    <3>2. ItemEnds(s, i) # {} => FirstEnd(s, i) \in i .. Len(s) BY <3>1, ItemEndsAhead
    <3> DEFINE e == FirstEnd(s, i)
    <3>3. e \in i .. Len(s) => e + 1 \in m + 1 .. Len(s) + 1
      <4> HIDE DEF e
      <4> QED BY <1>1, <3>1, SMT
    <3> QED BY <3>2, <3>3
  <2>10. g = [i \in m .. Len(s) + 1 |-> g[i]] OBVIOUS
  <2> HIDE DEF g
  <2>11. \A i \in m .. Len(s) + 1 : Item(g, i) = Item(f, i)
    <3> TAKE i \in m .. Len(s) + 1
    <3>1. CASE i > Len(s) BY <3>1
    <3>2. CASE ~(i > Len(s))
      <4>1. i \in m .. Len(s) BY <1>1, <3>2, SMT
      <4>2. ItemEnds(s, i) # {} => g[FirstEnd(s, i) + 1] = f[FirstEnd(s, i) + 1]
        BY <4>1, <2>6, <2>9
      <4> QED BY <3>2, <4>2
    <3> QED BY <3>1, <3>2
  <2>12. \A i \in m .. Len(s) + 1 : g[i] = Item(g, i)
    <3> HIDE DEF Item
    <3> QED BY <2>4, <2>6, <2>7, <2>8, <2>11
  <2>13. JoinedFrom(g, s, worth, m) BY <2>10, <2>12 DEF JoinedFrom
  <2> QED BY <2>2, <2>13
<1> HIDE DEF T
<1>4. T = Nat BY <1>2, <1>3, NumberInduction DEF T
<1>5. Len(s) \in T /\ Len(s) <= Len(s) /\ Len(s) + 1 - Len(s) = 1 BY <1>1, <1>4, SMT
<1>6. \E f : JoinedFrom(f, s, worth, 1) BY <1>5 DEF T
<1> DEFINE g == CHOOSE f : JoinedFrom(f, s, worth, 1)
<1>7. JoinedFrom(g, s, worth, 1) BY <1>6
<1>8. Joined(s, worth) = g[1] BY DEF Joined, JoinedFrom, FirstEnd
<1> QED BY <1>7, <1>8

\* acc holds something that grows with every item by what it is worth, read where an item
\* may begin: after the bytes counted by data.
Adds(s, worth, acc, data) ==
    \A i \in 1 .. Len(s) : i - 1 \in data =>
        IF ItemEnds(s, i) = {} THEN acc[Len(s)] = acc[i - 1]
        ELSE FirstEnd(s, i) \in data /\ acc[FirstEnd(s, i)] = acc[i - 1] \o worth[i]

LEMMA Associative ==
    ASSUME NEW S, NEW u \in Seq(S), NEW w \in Seq(S), NEW r \in Seq(S)
    PROVE  (u \o w) \o r = u \o (w \o r)
BY ConcatAssociative

LEMMA JoinedSum ==
    ASSUME NEW S, NEW s \in Seq(Nat), NEW worth \in [1 .. Len(s) -> Seq(S)],
           NEW acc \in [0 .. Len(s) -> Seq(S)], NEW data \in SUBSET (0 .. Len(s)),
           0 \in data, Adds(s, worth, acc, data)
    PROVE  acc[Len(s)] = acc[0] \o Joined(s, worth) /\ Joined(s, worth) \in Seq(S)
<1>1. Len(s) \in Nat BY LenProperties
<1>2. PICK f : JoinedFrom(f, s, worth, 1) /\ Joined(s, worth) = f[1] BY JoinedExists
<1>3. \A i \in 1 .. Len(s) + 1 :
         f[i] = IF i > Len(s) THEN <<>>
                ELSE IF ItemEnds(s, i) = {} THEN <<>>
                ELSE worth[i] \o f[FirstEnd(s, i) + 1]
  BY <1>2 DEF JoinedFrom
<1> DEFINE Sums(i) == f[i] \in Seq(S) /\ acc[Len(s)] = acc[i - 1] \o f[i]
           T == {n \in Nat : \A i \in 1 .. Len(s) + 1 :
                    Len(s) + 1 - i <= n /\ i - 1 \in data => Sums(i)}
<1>4. 0 \in T
  <2> SUFFICES ASSUME NEW i \in 1 .. Len(s) + 1, Len(s) + 1 - i <= 0 PROVE Sums(i)
    OBVIOUS
  <2>1. i > Len(s) /\ i - 1 = Len(s) /\ Len(s) \in 0 .. Len(s) BY <1>1, SMT
  <2>2. f[i] = <<>> /\ acc[Len(s)] \in Seq(S) BY <1>3, <2>1
  <2>3. acc[Len(s)] = acc[Len(s)] \o <<>> BY <2>2, ConcatEmptySeq
  <2> QED BY <2>1, <2>2, <2>3, EmptySeq
<1>5. ASSUME NEW n \in T PROVE n + 1 \in T
  <2>1. n \in Nat /\ \A i \in 1 .. Len(s) + 1 :
                        Len(s) + 1 - i <= n /\ i - 1 \in data => Sums(i)
    OBVIOUS
  <2> SUFFICES ASSUME NEW i \in 1 .. Len(s) + 1, Len(s) + 1 - i <= n + 1, i - 1 \in data
               PROVE  Sums(i)
    <3>1. n + 1 \in Nat BY <2>1
    <3> HIDE DEF Sums
    <3> QED BY <3>1
  <2>2. CASE i > Len(s)
    <3>1. Len(s) + 1 - i <= n BY <1>1, <2>1, <2>2, SMT
    <3> QED BY <2>1, <3>1
  <2>3. CASE ~(i > Len(s)) /\ ItemEnds(s, i) = {}
    <3>1. i \in 1 .. Len(s) /\ i - 1 \in 0 .. Len(s) BY <1>1, <2>3, SMT
    <3>2. f[i] = <<>> /\ acc[Len(s)] = acc[i - 1] /\ acc[i - 1] \in Seq(S)
      BY <1>3, <2>3, <3>1 DEF Adds
    <3>3. acc[i - 1] = acc[i - 1] \o <<>> BY <3>2, ConcatEmptySeq
    <3> QED BY <3>2, <3>3, EmptySeq
  <2>4. CASE ~(i > Len(s)) /\ ItemEnds(s, i) # {}
    <3>1. i \in 1 .. Len(s) /\ i - 1 \in 0 .. Len(s) BY <1>1, <2>4, SMT
    <3>2. PICK e : e = FirstEnd(s, i) OBVIOUS
    <3>3. /\ e \in i .. Len(s) /\ e \in data /\ acc[e] = acc[i - 1] \o worth[i]
          /\ f[i] = worth[i] \o f[e + 1] /\ worth[i] \in Seq(S) /\ acc[i - 1] \in Seq(S)
      BY <1>3, <2>4, <3>1, <3>2, ItemEndsAhead DEF Adds
    <3>4. e + 1 \in 1 .. Len(s) + 1 /\ Len(s) + 1 - (e + 1) <= n /\ (e + 1) - 1 = e
      <4>1. n \in Nat BY <2>1
      <4>2. e \in i .. Len(s) BY <3>3
      <4> QED BY <1>1, <4>1, <4>2, <3>1, SMT
    <3>5. Sums(e + 1) BY <2>1, <3>3, <3>4
    <3>6. PICK w \in Seq(S), r \in Seq(S), u \in Seq(S) :
              w = worth[i] /\ r = f[e + 1] /\ u = acc[i - 1]
      BY <3>3, <3>5
    <3>9. w \o r \in Seq(S) BY ConcatProperties, Zenon
    <3>7. f[i] \in Seq(S) /\ acc[Len(s)] = (u \o w) \o r /\ f[i] = w \o r
      BY <3>3, <3>4, <3>5, <3>6, <3>9
    <3>8. (u \o w) \o r = u \o (w \o r)
      <4> HIDE DEF Sums, T
      <4> QED BY Associative, SMTT(30)
    <3> QED BY <3>6, <3>7, <3>8
  <2> QED BY <2>2, <2>3, <2>4
<1> HIDE DEF T
<1>6. T = Nat BY <1>4, <1>5, NumberInduction DEF T
<1>7. /\ Len(s) \in T /\ 1 \in 1 .. Len(s) + 1 /\ Len(s) + 1 - 1 <= Len(s) /\ 1 - 1 = 0
  BY <1>1, <1>6, SMT
<1>8. Sums(1)
  <2>1. 1 - 1 \in data BY <1>7
  <2> QED BY <1>7, <2>1 DEF T
<1> QED BY <1>2, <1>7, <1>8

\* What an item of a text makes of the parser, and what it yields.
DataWorth(s) ==
    [i \in 1..Len(s) |->
        IF s[i] # IAC THEN <<s[i]>>
        ELSE IF i < Len(s) /\ s[i + 1] = IAC THEN <<IAC>>
        ELSE <<>>]

CommandWorth(s) ==
    [i \in 1..Len(s) |->
        IF s[i] # IAC \/ i = Len(s) THEN <<>>
        ELSE IF s[i + 1] \in Negotiations /\ i + 2 <= Len(s)
        THEN <<[kind |-> "option", frame |-> <<s[i + 1], s[i + 2]>>]>>
        ELSE IF s[i + 1] = SB /\ \E e \in FrameEnds(s, i + 2) : s[e] = SE
        THEN LET inside == SubSeq(s, i + 2, (CHOOSE e \in FrameEnds(s, i + 2) : TRUE) - 2)
             IN  <<[kind |-> "subneg", frame |-> FirstOf(DataIn(inside), SubnegMax)]>>
        ELSE <<>>]

\* The same with what the parser makes of the inside.
Framed(s, b) ==
    IF \E e \in FrameEnds(s, b) : s[e] = SE
    THEN LET inside == SubSeq(s, b, (CHOOSE e \in FrameEnds(s, b) : TRUE) - 2)
         IN  <<[kind |-> "subneg", frame |-> FirstOf(Parsed(inside).serial, SubnegMax)]>>
    ELSE <<>>

ParsedWorth(s) ==
    [i \in 1..Len(s) |->
        IF s[i] # IAC \/ i = Len(s) THEN <<>>
        ELSE IF s[i + 1] \in Negotiations /\ i + 2 <= Len(s)
        THEN <<[kind |-> "option", frame |-> <<s[i + 1], s[i + 2]>>]>>
        ELSE IF s[i + 1] = SB THEN Framed(s, i + 2)
        ELSE <<>>]

\* What a byte outside of a subnegotiation does.
LEMMA PartStep ==
    ASSUME NEW s \in Seq(Nat), NEW i \in 1 .. Len(s)
    PROVE  LET p == Part(s, 1, i - 1)
               q == Part(s, 1, i)
               state == p.parser.state
           IN  /\ s[i] \in Nat
               /\ p.serial \o <<>> = p.serial /\ p.commands \o <<>> = p.commands
               /\ state = "data" /\ s[i] # IAC =>
                     /\ q.parser.state = "data"
                     /\ q.serial = p.serial \o <<s[i]>> /\ q.commands = p.commands
               /\ state = "data" /\ s[i] = IAC =>
                     q.parser.state = "iac" /\ q.serial = p.serial /\ q.commands = p.commands
               /\ state = "iac" /\ s[i] = IAC =>
                     /\ q.parser.state = "data"
                     /\ q.serial = p.serial \o <<IAC>> /\ q.commands = p.commands
               /\ state = "iac" /\ s[i] \in Negotiations =>
                     /\ q.parser.state = "negotiate" /\ q.parser.negotiate_cmd = s[i]
                     /\ q.serial = p.serial /\ q.commands = p.commands
               /\ state = "iac" /\ s[i] = SB =>
                     /\ q.parser.state = "sb" /\ q.parser.subneg = <<>>
                     /\ q.serial = p.serial /\ q.commands = p.commands
               /\ state = "iac" /\ s[i] \notin Negotiations \cup {IAC, SB} =>
                     q.parser.state = "data" /\ q.serial = p.serial /\ q.commands = p.commands
               /\ state = "negotiate" =>
                     /\ q.parser.state = "data" /\ q.serial = p.serial
                     /\ q.commands = p.commands \o
                           <<[kind |-> "option", frame |-> <<p.parser.negotiate_cmd, s[i]>>]>>
<1> DEFINE p == Part(s, 1, i - 1)
           q == Part(s, 1, i)
<1>1. Len(s) \in Nat BY LenProperties
<1>2. 1 \in 1 .. Len(s) + 1 /\ i - 1 \in 1 - 1 .. Len(s) BY <1>1, SMT
<1>3. p \in Results /\ q = WithByte(p, s[i]) /\ s[i] \in Nat BY <1>2, PartIs
<1> HIDE DEF p, q
<1>4. PICK byte \in Nat : byte = s[i] BY <1>3
<1>5. PICK was \in Parsers : was = p.parser BY <1>3 DEF Results
<1>6. PICK serial \in Seq(Nat) : serial = p.serial BY <1>3 DEF Results
<1>7. PICK commands \in Seq(CommandRecords) : commands = p.commands BY <1>3 DEF Results
<1>8. serial \o <<>> = serial /\ commands \o <<>> = commands BY ConcatEmptySeq
<1>9. /\ q.parser = Step(was, byte) /\ q.serial = serial \o Serial(was, byte)
      /\ q.commands = commands \o Commands(was, byte)
  <2>1. q = WithByte(p, byte) BY <1>3, <1>4
  <2>2. /\ q.parser = Step(p.parser, byte) /\ q.serial = p.serial \o Serial(p.parser, byte)
        /\ q.commands = p.commands \o Commands(p.parser, byte)
    BY <1>3, <2>1, WithByteIs
  <2> QED BY <2>2, <1>5, <1>6, <1>7
<1>11. was.state = "data" /\ byte # IAC =>
          q.parser.state = "data" /\ q.serial = serial \o <<byte>> /\ q.commands = commands
  <2> SUFFICES ASSUME was.state = "data", byte # IAC
               PROVE  q.parser.state = "data" /\ q.serial = serial \o <<byte>> /\ q.commands = commands
    OBVIOUS
  <2>1. Step(was, byte) = was /\ Serial(was, byte) = <<byte>> /\ Commands(was, byte) = <<>>
    BY StepCases
  <2> QED BY <2>1, <1>8, <1>9
<1>12. was.state = "data" /\ byte = IAC =>
          q.parser.state = "iac" /\ q.serial = serial /\ q.commands = commands
  <2> SUFFICES ASSUME was.state = "data", byte = IAC
               PROVE  q.parser.state = "iac" /\ q.serial = serial /\ q.commands = commands
    OBVIOUS
  <2>1. Step(was, byte).state = "iac" /\ Serial(was, byte) = <<>> /\ Commands(was, byte) = <<>>
    BY StepCases
  <2> QED BY <2>1, <1>8, <1>9
<1>13. was.state = "iac" /\ byte = IAC =>
          q.parser.state = "data" /\ q.serial = serial \o <<IAC>> /\ q.commands = commands
  <2> SUFFICES ASSUME was.state = "iac", byte = IAC
               PROVE  q.parser.state = "data" /\ q.serial = serial \o <<IAC>> /\ q.commands = commands
    OBVIOUS
  <2>1. Step(was, byte).state = "data" /\ Serial(was, byte) = <<IAC>> /\ Commands(was, byte) = <<>>
    BY StepCases
  <2> QED BY <2>1, <1>8, <1>9
<1>14. was.state = "iac" /\ byte \in Negotiations =>
          /\ q.parser.state = "negotiate" /\ q.parser.negotiate_cmd = byte
          /\ q.serial = serial /\ q.commands = commands
  <2> SUFFICES ASSUME was.state = "iac", byte \in Negotiations
               PROVE  /\ q.parser.state = "negotiate" /\ q.parser.negotiate_cmd = byte
                      /\ q.serial = serial /\ q.commands = commands
    OBVIOUS
  <2>1. /\ Step(was, byte).state = "negotiate" /\ Step(was, byte).negotiate_cmd = byte
        /\ Serial(was, byte) = <<>> /\ Commands(was, byte) = <<>>
    BY StepCases
  <2> QED BY <2>1, <1>8, <1>9
<1>15. was.state = "iac" /\ byte = SB =>
          /\ q.parser.state = "sb" /\ q.parser.subneg = <<>>
          /\ q.serial = serial /\ q.commands = commands
  <2> SUFFICES ASSUME was.state = "iac", byte = SB
               PROVE  /\ q.parser.state = "sb" /\ q.parser.subneg = <<>>
                      /\ q.serial = serial /\ q.commands = commands
    OBVIOUS
  <2>1. /\ Step(was, byte).state = "sb" /\ Step(was, byte).subneg = <<>>
        /\ Serial(was, byte) = <<>> /\ Commands(was, byte) = <<>>
    BY StepCases
  <2> QED BY <2>1, <1>8, <1>9
<1>16. was.state = "iac" /\ byte \notin Negotiations \cup {IAC, SB} =>
          q.parser.state = "data" /\ q.serial = serial /\ q.commands = commands
  <2> SUFFICES ASSUME was.state = "iac", byte \notin Negotiations \cup {IAC, SB}
               PROVE  q.parser.state = "data" /\ q.serial = serial /\ q.commands = commands
    OBVIOUS
  <2>1. Step(was, byte).state = "data" /\ Serial(was, byte) = <<>> /\ Commands(was, byte) = <<>>
    BY StepCases
  <2> QED BY <2>1, <1>8, <1>9
<1>17. was.state = "negotiate" =>
          /\ q.parser.state = "data" /\ q.serial = serial
          /\ q.commands = commands \o <<[kind |-> "option", frame |-> <<was.negotiate_cmd, byte>>]>>
  <2> SUFFICES ASSUME was.state = "negotiate"
               PROVE  /\ q.parser.state = "data" /\ q.serial = serial
                      /\ q.commands = commands \o
                            <<[kind |-> "option", frame |-> <<was.negotiate_cmd, byte>>]>>
    OBVIOUS
  <2>1. /\ Step(was, byte).state = "data" /\ Serial(was, byte) = <<>>
        /\ Commands(was, byte) = <<[kind |-> "option", frame |-> <<was.negotiate_cmd, byte>>]>>
    BY StepCases
  <2> QED BY <2>1, <1>8, <1>9
<1> QED BY <1>3, <1>4, <1>5, <1>6, <1>7, <1>8, <1>11, <1>12, <1>13, <1>14, <1>15, <1>16, <1>17 DEF p, q

LEMMA IacStep ==
    ASSUME NEW s \in Seq(Nat), NEW i \in 1 .. Len(s), Part(s, 1, i - 1).parser.state = "iac"
    PROVE  LET p == Part(s, 1, i - 1)
               q == Part(s, 1, i)
           IN  /\ s[i] = IAC =>
                     /\ q.parser.state = "data"
                     /\ q.serial = p.serial \o <<IAC>> /\ q.commands = p.commands
               /\ s[i] \in Negotiations =>
                     /\ q.parser.state = "negotiate" /\ q.parser.negotiate_cmd = s[i]
                     /\ q.serial = p.serial /\ q.commands = p.commands
               /\ s[i] = SB =>
                     /\ q.parser.state = "sb" /\ q.parser.subneg = <<>>
                     /\ q.serial = p.serial /\ q.commands = p.commands
               /\ s[i] \notin Negotiations \cup {IAC, SB} =>
                     q.parser.state = "data" /\ q.serial = p.serial /\ q.commands = p.commands
BY PartStep

LEMMA ItemStep ==
    ASSUME NEW s \in Seq(Nat), NEW i \in 1 .. Len(s), Part(s, 1, i - 1).parser.state = "data"
    PROVE  IF ItemEnds(s, i) = {}
           THEN /\ Part(s, 1, Len(s)).serial = Part(s, 1, i - 1).serial
                /\ Part(s, 1, Len(s)).commands = Part(s, 1, i - 1).commands
           ELSE LET now == Part(s, 1, FirstEnd(s, i))
                IN  /\ now.parser.state = "data"
                    /\ now.serial = Part(s, 1, i - 1).serial \o DataWorth(s)[i]
                    /\ now.commands = Part(s, 1, i - 1).commands \o ParsedWorth(s)[i]
<1>1. Len(s) \in Nat /\ i \in Nat /\ 1 <= i /\ i <= Len(s) BY LenProperties
<1> DEFINE start == Part(s, 1, i - 1)
           after == Part(s, 1, i)
           next == Part(s, 1, i + 1)
           worth == ParsedWorth(s)[i]
           data == DataWorth(s)[i]
<1>4. start.serial \o <<>> = start.serial /\ start.commands \o <<>> = start.commands BY PartStep
<1>5. \A e : ItemEnds(s, i) = {e} => ItemEnds(s, i) # {} /\ FirstEnd(s, i) = e
  BY DEF FirstEnd
<1>6. SB # IAC /\ IAC \notin Negotiations /\ SB \notin Negotiations
  BY DEF SB, IAC, Negotiations, WILL, WONT, DO, DONT
<1>7. CASE s[i] # IAC
  <2>1. ItemEnds(s, i) = {i} BY <1>7 DEF ItemEnds
  <2>2. data = <<s[i]>> /\ worth = <<>> BY <1>7 DEF DataWorth, ParsedWorth
  <2>3. /\ after.parser.state = "data" /\ after.serial = start.serial \o <<s[i]>>
        /\ after.commands = start.commands
    BY <1>7, PartStep
  <2> HIDE DEF start, after, worth, data
  <2>4. /\ after.parser.state = "data" /\ after.serial = start.serial \o data
        /\ after.commands = start.commands \o worth
    BY <1>4, <2>2, <2>3
  <2> QED BY <1>5, <2>1, <2>4 DEF start, after, worth, data
<1>8. CASE s[i] = IAC
  <2>1. /\ after.parser.state = "iac" /\ after.serial = start.serial /\ after.commands = start.commands
    BY <1>8, PartStep
  <2>2. CASE i = Len(s)
    <3>1. ItemEnds(s, i) = {} BY <1>8, <2>2 DEF ItemEnds
    <3> QED BY <2>1, <2>2, <3>1
  <2>3. CASE i # Len(s)
    <3>1. i + 1 \in 1 .. Len(s) /\ (i + 1) - 1 = i /\ i < Len(s) BY <1>1, <2>3, SMT
    <3>2. PICK x : x = s[i + 1] OBVIOUS
    <3>3. /\ x = IAC =>
                /\ next.parser.state = "data" /\ next.serial = start.serial \o <<IAC>>
                /\ next.commands = start.commands
          /\ x \in Negotiations =>
                /\ next.parser.state = "negotiate" /\ next.parser.negotiate_cmd = x
                /\ next.serial = start.serial /\ next.commands = start.commands
          /\ x = SB =>
                /\ next.parser.state = "sb" /\ next.parser.subneg = <<>>
                /\ next.serial = start.serial /\ next.commands = start.commands
          /\ x \notin Negotiations \cup {IAC, SB} =>
                /\ next.parser.state = "data"
                /\ next.serial = start.serial /\ next.commands = start.commands
      <4> DEFINE n == i + 1
      <4>1. n \in 1 .. Len(s) /\ n - 1 = i /\ x = s[n] BY <3>1, <3>2
      <4>2. Part(s, 1, n - 1) = after /\ Part(s, 1, n) = next BY <4>1
      <4> HIDE DEF n, start, after, next
      <4>3. Part(s, 1, n - 1).parser.state = "iac" BY <2>1, <4>2
      <4> QED BY <2>1, <4>1, <4>2, <4>3, IacStep
    <3> HIDE DEF start, after, next, worth, data
    <3>4. CASE x \in Negotiations
      <4>1. ItemEnds(s, i) = {i + 2} \cap 1 .. Len(s) BY <1>8, <2>3, <3>2, <3>4 DEF ItemEnds
      <4>2. x # IAC BY <1>6, <3>4
      <4>3. data = <<>> BY <1>8, <3>2, <4>2 DEF DataWorth, data
      <4>4. /\ next.parser.state = "negotiate" /\ next.parser.negotiate_cmd = x
            /\ next.serial = start.serial /\ next.commands = start.commands
        BY <3>3, <3>4
      <4>5. CASE i + 1 = Len(s)
        <5>1. i + 2 \notin 1 .. Len(s) BY <1>1, <4>5, SMT
        <5>2. ItemEnds(s, i) = {} BY <4>1, <5>1
        <5> QED BY <4>4, <4>5, <5>2 DEF start, next
      <4>6. CASE i + 1 # Len(s)
        <5> DEFINE n == i + 2
                   last == Part(s, 1, n)
        <5>1. n \in 1 .. Len(s) /\ n <= Len(s) /\ n - 1 = i + 1 BY <1>1, <3>1, <4>6, SMT
        <5>2. ItemEnds(s, i) = {n} BY <4>1, <5>1
        <5>3. worth = <<[kind |-> "option", frame |-> <<x, s[n]>>]>>
          BY <1>8, <2>3, <3>2, <3>4, <5>1 DEF ParsedWorth, worth
        <5> HIDE DEF n
        <5>4. next = Part(s, 1, n - 1) BY <5>1 DEF next
        <5>5. /\ last.parser.state = "data" /\ last.serial = next.serial
              /\ last.commands = next.commands \o <<[kind |-> "option", frame |-> <<x, s[n]>>]>>
          BY <4>4, <5>1, <5>4, PartStep
        <5> HIDE DEF last
        <5>6. /\ last.parser.state = "data" /\ last.serial = start.serial \o data
              /\ last.commands = start.commands \o worth
          BY <1>4, <4>3, <4>4, <5>3, <5>5 DEF start
        <5> QED BY <1>5, <5>2, <5>6 DEF last, start, worth, data
      <4> QED BY <4>5, <4>6
    <3>5. CASE x = SB
      <4> DEFINE b == i + 2
      <4>1. ItemEnds(s, i) = FrameEnds(s, b) BY <1>6, <1>8, <2>3, <3>2, <3>5 DEF ItemEnds
      <4>2. b \in 1 .. Len(s) + 1 /\ b - 1 = i + 1 BY <1>1, <3>1, SMT
      <4>4. data = <<>> BY <1>6, <1>8, <3>2, <3>5 DEF DataWorth, data
      <4>5. worth = Framed(s, b) BY <1>6, <1>8, <2>3, <3>2, <3>5 DEF ParsedWorth, worth
      <4> HIDE DEF b
      <4>6. /\ Part(s, 1, b - 1).parser.state = "sb" /\ Part(s, 1, b - 1).parser.subneg = <<>>
            /\ Part(s, 1, b - 1).serial = start.serial
            /\ Part(s, 1, b - 1).commands = start.commands
        BY <3>3, <3>5, <4>2 DEF next
      <4>7. CASE ItemEnds(s, i) = {}
        <5>1. /\ Part(s, 1, Len(s)).serial = start.serial
              /\ Part(s, 1, Len(s)).commands = start.commands
          BY <4>1, <4>2, <4>6, <4>7, NoFrameEnd
        <5> QED BY <4>7, <5>1 DEF start
      <4>8. CASE ItemEnds(s, i) # {}
        <5>1. PICK e \in FrameEnds(s, b) :
                  e = FirstEnd(s, i) /\ e = CHOOSE d \in FrameEnds(s, b) : TRUE
          BY <4>1, <4>8 DEF FirstEnd
        <5> DEFINE last == Part(s, 1, e)
                   found == <<[kind  |-> "subneg",
                               frame |-> FirstOf(Part(s, b, e - 2).serial, SubnegMax)]>>
        <5>2. /\ last.parser.state = "data" /\ last.serial = start.serial
              /\ last.commands = start.commands \o (IF s[e] = SE THEN found ELSE <<>>)
          BY <4>2, <4>6, FrameEnd
        <5>3. (\E d \in FrameEnds(s, b) : s[d] = SE) <=> s[e] = SE
          <6>1. \A d \in FrameEnds(s, b) : d = e BY <4>2, OneFrameEnd
          <6> QED BY <6>1
        <5>4. worth = IF s[e] = SE THEN found ELSE <<>>
          BY <4>5, <5>1, <5>3 DEF Part, Framed
        <5> HIDE DEF last, found
        <5>5. /\ last.parser.state = "data" /\ last.serial = start.serial \o data
              /\ last.commands = start.commands \o worth
          BY <1>4, <4>4, <5>2, <5>4 DEF start
        <5> QED BY <4>8, <5>1, <5>5 DEF last, start, worth, data
      <4> QED BY <4>7, <4>8
    <3>6. CASE x = IAC
      <4>1. ItemEnds(s, i) = {i + 1} BY <1>6, <1>8, <2>3, <3>2, <3>6 DEF ItemEnds
      <4>2. data = <<IAC>> /\ worth = <<>>
        BY <1>6, <1>8, <2>3, <3>1, <3>2, <3>6 DEF DataWorth, ParsedWorth, data, worth
      <4>3. /\ next.parser.state = "data" /\ next.serial = start.serial \o data
            /\ next.commands = start.commands \o worth
        BY <1>4, <3>3, <3>6, <4>2 DEF start
      <4> QED BY <1>5, <4>1, <4>3 DEF start, next, data, worth
    <3>7. CASE x \notin Negotiations \cup {IAC, SB}
      <4>1. ItemEnds(s, i) = {i + 1} BY <1>8, <2>3, <3>2, <3>7 DEF ItemEnds
      <4>2. data = <<>> /\ worth = <<>>
        BY <1>8, <2>3, <3>1, <3>2, <3>7 DEF DataWorth, ParsedWorth, data, worth
      <4>3. /\ next.parser.state = "data" /\ next.serial = start.serial \o data
            /\ next.commands = start.commands \o worth
        BY <1>4, <3>3, <3>7, <4>2 DEF start
      <4> QED BY <1>5, <4>1, <4>3 DEF start, next, data, worth
    <3> QED BY <3>4, <3>5, <3>6, <3>7
  <2> QED BY <2>2, <2>3
<1> QED BY <1>7, <1>8

LEMMA DataInParsed ==
    ASSUME NEW s \in Seq(Nat)
    PROVE  DataIn(s) = Parsed(s).serial
<1> DEFINE worth == DataWorth(s)
           acc == [j \in 0 .. Len(s) |-> Part(s, 1, j).serial]
           data == {j \in 0 .. Len(s) : Part(s, 1, j).parser.state = "data"}
<1>1. Len(s) \in Nat /\ 1 \in 1 .. Len(s) + 1 /\ 1 - 1 = 0 /\ Len(s) \in 0 .. Len(s) /\ 0 \in 0 .. Len(s)
  BY LenProperties, SMT
<1>2. /\ \A j \in 0 .. Len(s) : Part(s, 1, j) \in Results
      /\ Part(s, 1, 0) = NothingParsed /\ Part(s, 1, Len(s)) = Parsed(s)
  BY <1>1, PartIs
<1>3. worth \in [1 .. Len(s) -> Seq(Nat)]
  <2>1. \A i \in 1 .. Len(s) : s[i] \in Nat /\ <<s[i]>> \in Seq(Nat) BY ElementOfSeq
  <2>2. <<IAC>> \in Seq(Nat) /\ <<>> \in Seq(Nat) BY EmptySeq DEF IAC
  <2> QED BY <2>1, <2>2, Zenon DEF DataWorth
<1>4. acc \in [0 .. Len(s) -> Seq(Nat)] BY <1>2 DEF Results
<1>5. data \in SUBSET (0 .. Len(s)) /\ 0 \in data /\ acc[0] = <<>>
  BY <1>1, <1>2 DEF NothingParsed, NewParser
<1>6. Adds(s, worth, acc, data)
  <2> SUFFICES ASSUME NEW i \in 1 .. Len(s), i - 1 \in data
               PROVE  IF ItemEnds(s, i) = {} THEN acc[Len(s)] = acc[i - 1]
                      ELSE FirstEnd(s, i) \in data /\ acc[FirstEnd(s, i)] = acc[i - 1] \o worth[i]
    BY DEF Adds
  <2>1. Part(s, 1, i - 1).parser.state = "data" /\ i - 1 \in 0 .. Len(s) OBVIOUS
  <2>2. acc[Len(s)] = Part(s, 1, Len(s)).serial /\ acc[i - 1] = Part(s, 1, i - 1).serial
    BY <1>1, <2>1
  <2>3. CASE ItemEnds(s, i) = {} BY <2>1, <2>2, <2>3, ItemStep
  <2>4. CASE ItemEnds(s, i) # {}
    <3>1. PICK e : e = FirstEnd(s, i) OBVIOUS
    <3>2. e \in 0 .. Len(s)
      <4>1. e \in i .. Len(s) BY <2>4, <3>1, ItemEndsAhead
      <4> QED BY <1>1, <4>1, SMT
    <3>3. Part(s, 1, e).parser.state = "data" /\ Part(s, 1, e).serial = Part(s, 1, i - 1).serial \o worth[i]
      BY <2>1, <2>4, <3>1, ItemStep
    <3> QED BY <2>2, <2>4, <3>1, <3>2, <3>3
  <2> QED BY <2>3, <2>4
<1>7. acc[Len(s)] = Parsed(s).serial BY <1>1, <1>2
<1>8. DataIn(s) = Joined(s, worth) BY DEF DataIn, DataWorth
<1> HIDE DEF worth, acc, data
<1>9. acc[Len(s)] = acc[0] \o Joined(s, worth) /\ Joined(s, worth) \in Seq(Nat)
  BY <1>3, <1>4, <1>5, <1>6, JoinedSum
<1> QED BY <1>5, <1>7, <1>8, <1>9, ConcatEmptySeq

LEMMA ParsedWorthIs ==
    ASSUME NEW s \in Seq(Nat)
    PROVE  /\ ParsedWorth(s) = CommandWorth(s)
           /\ ParsedWorth(s) \in [1 .. Len(s) -> Seq(CommandRecords)]
<1>1. Len(s) \in Nat BY LenProperties
<1>2. ASSUME NEW b \in Nat, b >= 1, NEW e \in FrameEnds(s, b)
      PROVE  /\ DataIn(SubSeq(s, b, e - 2)) = Parsed(SubSeq(s, b, e - 2)).serial
             /\ FirstOf(Parsed(SubSeq(s, b, e - 2)).serial, SubnegMax) \in Seq(Nat)
  <2>1. e \in Int /\ e - 2 \in Int /\ e - 2 <= Len(s) BY <1>1 DEF FrameEnds
  <2>2. SubSeq(s, b, e - 2) \in Seq(Nat) BY <1>2, <2>1, SubSeqType
  <2>3. Parsed(SubSeq(s, b, e - 2)).serial \in Seq(Nat) BY <2>2, ParsedResult DEF Results
  <2> QED BY <2>2, <2>3, DataInParsed, FirstOfMore
<1> DEFINE First(b) == CHOOSE e \in FrameEnds(s, b) : TRUE
           Wanted(b) == IF \E e \in FrameEnds(s, b) : s[e] = SE
                        THEN LET inside == SubSeq(s, b, First(b) - 2)
                             IN  <<[kind |-> "subneg", frame |-> FirstOf(DataIn(inside), SubnegMax)]>>
                        ELSE <<>>
<1>3. ASSUME NEW b \in Nat, b >= 1
      PROVE  Framed(s, b) = Wanted(b) /\ Framed(s, b) \in Seq(CommandRecords)
  <2>1. CASE \E e \in FrameEnds(s, b) : s[e] = SE
    <3>1. PICK e \in FrameEnds(s, b) : e = First(b) BY <2>1
    <3>2. PICK inside : inside = SubSeq(s, b, e - 2) OBVIOUS
    <3>3. DataIn(inside) = Parsed(inside).serial /\ FirstOf(Parsed(inside).serial, SubnegMax) \in Seq(Nat)
      BY <1>2, <1>3, <3>2
    <3>4. /\ Framed(s, b) = <<[kind |-> "subneg", frame |-> FirstOf(Parsed(inside).serial, SubnegMax)]>>
          /\ Wanted(b) = <<[kind |-> "subneg", frame |-> FirstOf(DataIn(inside), SubnegMax)]>>
      BY <2>1, <3>1, <3>2 DEF Framed
    <3> HIDE DEF Wanted
    <3>5. [kind |-> "subneg", frame |-> FirstOf(Parsed(inside).serial, SubnegMax)] \in CommandRecords
      BY <3>3 DEF CommandRecords
    <3> QED BY <3>3, <3>4, <3>5
  <2>2. CASE ~\E e \in FrameEnds(s, b) : s[e] = SE
    <3>1. Framed(s, b) = <<>> /\ Wanted(b) = <<>> BY <2>2 DEF Framed
    <3> QED BY <3>1, EmptySeq
  <2> QED BY <2>1, <2>2
<1>4. ASSUME NEW i \in 1 .. Len(s)
      PROVE  ParsedWorth(s)[i] = CommandWorth(s)[i] /\ ParsedWorth(s)[i] \in Seq(CommandRecords)
  <2>1. CASE s[i] # IAC \/ i = Len(s)
    <3>1. ParsedWorth(s)[i] = <<>> /\ CommandWorth(s)[i] = <<>>
      BY <2>1 DEF ParsedWorth, CommandWorth
    <3> QED BY <3>1, EmptySeq
  <2>2. CASE ~(s[i] # IAC \/ i = Len(s)) /\ s[i + 1] \in Negotiations /\ i + 2 <= Len(s)
    <3> DEFINE command == [kind |-> "option", frame |-> <<s[i + 1], s[i + 2]>>]
    <3>1. ParsedWorth(s)[i] = <<command>> /\ CommandWorth(s)[i] = <<command>>
      BY <2>2, Zenon DEF ParsedWorth, CommandWorth
    <3>2. s[i + 1] \in Nat /\ s[i + 2] \in Nat
      <4>1. i + 1 \in 1 .. Len(s) /\ i + 2 \in 1 .. Len(s) BY <1>1, <2>2, SMT
      <4> QED BY <4>1, ElementOfSeq
    <3>3. command \in CommandRecords BY <3>2 DEF CommandRecords
    <3> QED BY <3>1, <3>3
  <2>3. CASE /\ ~(s[i] # IAC \/ i = Len(s)) /\ ~(s[i + 1] \in Negotiations /\ i + 2 <= Len(s))
             /\ s[i + 1] = SB
    <3>1. i + 2 \in Nat /\ i + 2 >= 1 BY <1>1, SMT
    <3>2. ParsedWorth(s)[i] = Framed(s, i + 2) BY <2>3 DEF ParsedWorth
    <3>3. CommandWorth(s)[i] = Wanted(i + 2)
      <4>1. CASE \E e \in FrameEnds(s, i + 2) : s[e] = SE
        <5>1. PICK inside : inside = SubSeq(s, i + 2, (CHOOSE e \in FrameEnds(s, i + 2) : TRUE) - 2)
          OBVIOUS
        <5>2. Wanted(i + 2) = <<[kind |-> "subneg", frame |-> FirstOf(DataIn(inside), SubnegMax)]>>
          BY <4>1, <5>1
        <5>3. CommandWorth(s)[i] = <<[kind |-> "subneg", frame |-> FirstOf(DataIn(inside), SubnegMax)]>>
          BY <2>3, <4>1, <5>1 DEF CommandWorth
        <5> QED BY <5>2, <5>3
      <4>2. CASE ~\E e \in FrameEnds(s, i + 2) : s[e] = SE
        BY <2>3, <4>2, Zenon DEF CommandWorth
      <4> QED BY <4>1, <4>2
    <3> HIDE DEF Wanted
    <3> QED BY <1>3, <3>1, <3>2, <3>3
  <2>4. CASE /\ ~(s[i] # IAC \/ i = Len(s)) /\ ~(s[i + 1] \in Negotiations /\ i + 2 <= Len(s))
             /\ s[i + 1] # SB
    <3>1. ParsedWorth(s)[i] = <<>> /\ CommandWorth(s)[i] = <<>>
      BY <2>4, Zenon DEF ParsedWorth, CommandWorth
    <3> QED BY <3>1, EmptySeq
  <2> QED BY <2>1, <2>2, <2>3, <2>4
<1>5. ParsedWorth(s) = [i \in 1 .. Len(s) |-> ParsedWorth(s)[i]] BY DEF ParsedWorth
<1>6. CommandWorth(s) = [i \in 1 .. Len(s) |-> CommandWorth(s)[i]] BY DEF CommandWorth
<1> QED BY <1>4, <1>5, <1>6

LEMMA CommandsInParsed ==
    ASSUME NEW s \in Seq(Nat)
    PROVE  CommandsIn(s) = Parsed(s).commands
<1> DEFINE worth == ParsedWorth(s)
           acc == [j \in 0 .. Len(s) |-> Part(s, 1, j).commands]
           data == {j \in 0 .. Len(s) : Part(s, 1, j).parser.state = "data"}
<1>1. Len(s) \in Nat /\ 1 \in 1 .. Len(s) + 1 /\ 1 - 1 = 0 /\ Len(s) \in 0 .. Len(s) /\ 0 \in 0 .. Len(s)
  BY LenProperties, SMT
<1>2. /\ \A j \in 0 .. Len(s) : Part(s, 1, j) \in Results
      /\ Part(s, 1, 0) = NothingParsed /\ Part(s, 1, Len(s)) = Parsed(s)
  BY <1>1, PartIs
<1>3. worth \in [1 .. Len(s) -> Seq(CommandRecords)] BY ParsedWorthIs
<1>4. acc \in [0 .. Len(s) -> Seq(CommandRecords)] BY <1>2 DEF Results
<1>5. data \in SUBSET (0 .. Len(s)) /\ 0 \in data /\ acc[0] = <<>>
  BY <1>1, <1>2 DEF NothingParsed, NewParser
<1>6. Adds(s, worth, acc, data)
  <2> SUFFICES ASSUME NEW i \in 1 .. Len(s), i - 1 \in data
               PROVE  IF ItemEnds(s, i) = {} THEN acc[Len(s)] = acc[i - 1]
                      ELSE FirstEnd(s, i) \in data /\ acc[FirstEnd(s, i)] = acc[i - 1] \o worth[i]
    BY DEF Adds
  <2>1. Part(s, 1, i - 1).parser.state = "data" /\ i - 1 \in 0 .. Len(s) OBVIOUS
  <2>2. acc[Len(s)] = Part(s, 1, Len(s)).commands /\ acc[i - 1] = Part(s, 1, i - 1).commands
    BY <1>1, <2>1
  <2>3. CASE ItemEnds(s, i) = {} BY <2>1, <2>2, <2>3, ItemStep
  <2>4. CASE ItemEnds(s, i) # {}
    <3>1. PICK e : e = FirstEnd(s, i) OBVIOUS
    <3>2. e \in 0 .. Len(s)
      <4>1. e \in i .. Len(s) BY <2>4, <3>1, ItemEndsAhead
      <4> QED BY <1>1, <4>1, SMT
    <3>3. /\ Part(s, 1, e).parser.state = "data"
          /\ Part(s, 1, e).commands = Part(s, 1, i - 1).commands \o worth[i]
      BY <2>1, <2>4, <3>1, ItemStep
    <3> QED BY <2>2, <2>4, <3>1, <3>2, <3>3
  <2> QED BY <2>3, <2>4
<1>7. acc[Len(s)] = Parsed(s).commands BY <1>1, <1>2
<1>8. CommandsIn(s) = Joined(s, worth) BY ParsedWorthIs DEF CommandsIn, CommandWorth
<1> HIDE DEF worth, acc, data
<1>9. acc[Len(s)] = acc[0] \o Joined(s, worth) /\ Joined(s, worth) \in Seq(CommandRecords)
  BY <1>3, <1>4, <1>5, <1>6, JoinedSum
<1> QED BY <1>5, <1>7, <1>8, <1>9, ConcatEmptySeq

\* The parser of tcp_bridge.c, which sees one byte at a time, finds the data and the commands
\* that a reading of the whole stream finds: for every stream (rfc2217_process_input).
THEOREM ParserFinds ==
    \A s \in Seq(Nat) : Parsed(s).serial = DataIn(s) /\ Parsed(s).commands = CommandsIn(s)
BY DataInParsed, CommandsInParsed

-----------------------------------------------------------------------------
(* What the bridge sends comes back.                                        *)

\* The recursion of Escape, in the same way.
Doubled(byte) == IF byte = IAC THEN <<IAC, IAC>> ELSE <<byte>>

EscapedUpto(f, text, n) ==
    f = [m \in 0..n |-> IF m = 0 THEN <<>> ELSE f[m - 1] \o Doubled(text[m])]

LEMMA EscapedUptoExists ==
    ASSUME NEW text, NEW n \in Nat
    PROVE  \E f : EscapedUpto(f, text, n)
<1> DEFINE T == {k \in Nat : \E f : EscapedUpto(f, text, k)}
<1>1. 0 \in T
  <2> DEFINE f == [m \in 0..0 |-> <<>>]
  <2>1. f = [m \in 0..0 |-> IF m = 0 THEN <<>> ELSE f[m - 1] \o Doubled(text[m])]
    OBVIOUS
  <2> HIDE DEF f
  <2>2. EscapedUpto(f, text, 0) BY <2>1 DEF EscapedUpto
  <2> QED BY <2>2
<1>2. ASSUME NEW k \in T PROVE k + 1 \in T
  <2>1. k \in Nat /\ \E f : EscapedUpto(f, text, k) OBVIOUS
  <2>2. PICK f : EscapedUpto(f, text, k) BY <2>1
  <2>3. /\ DOMAIN f = 0..k
        /\ \A m \in 0..k : f[m] = IF m = 0 THEN <<>> ELSE f[m - 1] \o Doubled(text[m])
    BY <2>2 DEF EscapedUpto
  <2> DEFINE g == [m \in 0..k + 1 |-> IF m <= k THEN f[m] ELSE f[k] \o Doubled(text[k + 1])]
             NewValue(m) == IF m = 0 THEN <<>> ELSE g[m - 1] \o Doubled(text[m])
  <2>4. ASSUME NEW m \in 0..k + 1 PROVE g[m] = NewValue(m)
    <3>1. CASE m = 0
      <4>1. m \in 0..k /\ m <= k BY <2>1, <3>1, SMT
      <4> QED BY <4>1, <2>3, <3>1
    <3>2. CASE m # 0 /\ m <= k
      <4>1. m \in 0..k /\ m - 1 \in 0..k + 1 /\ m - 1 <= k BY <2>1, <3>2, SMT
      <4>2. g[m] = f[m] /\ g[m - 1] = f[m - 1] BY <4>1, <3>2
      <4> HIDE DEF g
      <4> QED BY <4>1, <4>2, <2>3, <3>2
    <3>3. CASE ~(m <= k)
      <4>1. m = k + 1 /\ m - 1 = k /\ k \in 0..k + 1 /\ k <= k /\ m # 0 BY <2>1, <3>3, SMT
      <4>2. g[m] = f[k] \o Doubled(text[k + 1]) /\ g[k] = f[k] BY <4>1, <3>3
      <4> HIDE DEF g
      <4> QED BY <4>1, <4>2
    <3> QED BY <3>1, <3>2, <3>3
  <2>5. g = [m \in 0..k + 1 |-> g[m]] OBVIOUS
  <2> HIDE DEF g
  <2>6. EscapedUpto(g, text, k + 1) BY <2>4, <2>5 DEF EscapedUpto
  <2> QED BY <2>1, <2>6
<1> HIDE DEF T
<1>3. n \in T BY <1>1, <1>2, NumberInduction DEF T
<1> QED BY <1>3 DEF T

LEMMA EscapeIsUpto ==
    ASSUME NEW text
    PROVE  Len(text) \in Nat => \E f : EscapedUpto(f, text, Len(text)) /\ Escape(text) = f[Len(text)]
<1> SUFFICES ASSUME Len(text) \in Nat
             PROVE  \E f : EscapedUpto(f, text, Len(text)) /\ Escape(text) = f[Len(text)]
  OBVIOUS
<1> DEFINE g == CHOOSE f : EscapedUpto(f, text, Len(text))
<1>1. EscapedUpto(g, text, Len(text)) BY EscapedUptoExists
<1>2. Escape(text) = g[Len(text)] BY DEF Escape, EscapedUpto, Doubled
<1> QED BY <1>1, <1>2

\* It hangs on the first bytes, one after the other.
LEMMA EscapedUptoSame ==
    ASSUME NEW a, NEW b, NEW f, NEW g, NEW m \in Nat, NEW n \in Nat, m <= n,
           EscapedUpto(f, a, m), EscapedUpto(g, b, n), Agree(a, b, m)
    PROVE  f[m] = g[m]
<1> DEFINE T == {k \in Nat : k <= m => f[k] = g[k]}
<1>1. /\ \A k \in 0..m : f[k] = IF k = 0 THEN <<>> ELSE f[k - 1] \o Doubled(a[k])
      /\ \A k \in 0..n : g[k] = IF k = 0 THEN <<>> ELSE g[k - 1] \o Doubled(b[k])
  BY DEF EscapedUpto
<1>0. \A i \in 1..m : a[i] = b[i] BY DEF Agree
<1>2. 0 \in T
  <2>1. 0 \in 0..m /\ 0 \in 0..n BY SMT
  <2> QED BY <1>1, <2>1
<1>3. ASSUME NEW k \in T PROVE k + 1 \in T
  <2>1. k \in Nat /\ (k <= m => f[k] = g[k]) OBVIOUS
  <2> SUFFICES ASSUME k + 1 <= m PROVE f[k + 1] = g[k + 1] BY <2>1
  <2>2. k + 1 \in 0..m /\ k + 1 \in 0..n /\ k + 1 \in 1..m /\ k + 1 # 0 /\ (k + 1) - 1 = k /\ k <= m
    BY <2>1, SMT
  <2>3. f[k + 1] = f[k] \o Doubled(a[k + 1]) /\ g[k + 1] = g[k] \o Doubled(b[k + 1])
    BY <1>1, <2>2
  <2>4. a[k + 1] = b[k + 1] BY <1>0, <2>2
  <2> QED BY <2>1, <2>2, <2>3, <2>4
<1> HIDE DEF T
<1>4. m \in T BY <1>2, <1>3, NumberInduction DEF T
<1> QED BY <1>4 DEF T

LEMMA EscapeEmpty == Escape(<<>>) = <<>>
<1>1. Len(<<>>) = 0 BY EmptySeq
<1>2. PICK f : EscapedUpto(f, <<>>, Len(<<>>)) /\ Escape(<<>>) = f[Len(<<>>)] BY <1>1, EscapeIsUpto
<1>3. 0 \in 0..0 BY SMT
<1> QED BY <1>1, <1>2, <1>3 DEF EscapedUpto

LEMMA EscapeAppend ==
    ASSUME NEW text \in Seq(Nat), NEW byte \in Nat
    PROVE  Escape(Append(text, byte)) = Escape(text) \o Doubled(byte)
<1>1. PICK longer \in Seq(Nat) :
          /\ longer = Append(text, byte) /\ Len(longer) = Len(text) + 1
          /\ \A i \in 1..Len(text) : longer[i] = text[i]
          /\ longer[Len(text) + 1] = byte
  BY AppendProperties
<1>2. PICK n \in Nat : n = Len(text) BY LenProperties
<1>3. /\ n + 1 \in 0..n + 1 /\ n + 1 # 0 /\ (n + 1) - 1 = n /\ n <= n + 1 /\ n + 1 \in Nat
      /\ Len(longer) \in Nat
  BY <1>1, <1>2, SMT
<1>4. PICK f : EscapedUpto(f, text, n) /\ Escape(text) = f[n] BY <1>2, EscapeIsUpto
<1>5. PICK g : EscapedUpto(g, longer, n + 1) /\ Escape(longer) = g[n + 1]
  BY <1>1, <1>2, <1>3, EscapeIsUpto
<1>6. g[n + 1] = g[n] \o Doubled(longer[n + 1]) BY <1>3, <1>5 DEF EscapedUpto
<1>7. Agree(text, longer, n) BY <1>1, <1>2 DEF Agree
<1>8. f[n] = g[n] BY <1>3, <1>4, <1>5, <1>7, EscapedUptoSame
<1> QED BY <1>1, <1>2, <1>4, <1>5, <1>6, <1>8

\* Short sequences.
LEMMA OneElement ==
    ASSUME NEW S, NEW x \in S
    PROVE  <<x>> \in Seq(S)
OBVIOUS

LEMMA TwoElements ==
    ASSUME NEW S, NEW x \in S, NEW y \in S
    PROVE  <<x, y>> \in Seq(S) /\ <<x, y>> = Append(<<x>>, y)
<1>1. <<x>> \in Seq(S) BY OneElement
<1>2. Append(<<x>>, y) \in Seq(S) BY <1>1, AppendProperties
<1>3. <<x, y>> = Append(<<x>>, y) OBVIOUS
<1> QED BY <1>2, <1>3

LEMMA FourElements ==
    ASSUME NEW S, NEW x \in S, NEW y \in S, NEW z \in S, NEW t \in S
    PROVE  /\ <<x, y, z>> \in Seq(S) /\ <<x, y, z>> = Append(<<x, y>>, z)
           /\ <<x, y, z, t>> \in Seq(S) /\ <<x, y, z, t>> = Append(<<x, y, z>>, t)
<1>1. <<x, y>> \in Seq(S) BY TwoElements
<1>2. Append(<<x, y>>, z) \in Seq(S) BY <1>1, AppendProperties
<1>3. <<x, y, z>> = Append(<<x, y>>, z) OBVIOUS
<1>4. Append(<<x, y, z>>, t) \in Seq(S) BY <1>2, <1>3, AppendProperties
<1>5. <<x, y, z, t>> = Append(<<x, y, z>>, t) OBVIOUS
<1> QED BY <1>2, <1>3, <1>4, <1>5

LEMMA BytesAssociative ==
    \A u, w, r \in Seq(Nat) : (u \o w) \o r = u \o (w \o r)
BY ConcatAssociative

LEMMA AddedLater ==
    \A u, w \in Seq(Nat), x \in Nat : u \o (w \o <<x>>) = (u \o w) \o <<x>>
<1> SUFFICES ASSUME NEW u \in Seq(Nat), NEW w \in Seq(Nat), NEW x \in Nat
             PROVE  u \o (w \o <<x>>) = (u \o w) \o <<x>>
  OBVIOUS
<1>1. <<x>> \in Seq(Nat) BY OneElement
<1> QED BY <1>1, BytesAssociative, Zenon

\* The bytes of a text leave it escaped as bytes.
LEMMA DoubledType ==
    ASSUME NEW byte \in Nat
    PROVE  /\ Doubled(byte) \in Seq(Nat)
           /\ byte = IAC => Doubled(byte) = <<IAC, IAC>>
           /\ byte # IAC => Doubled(byte) = <<byte>>
<1>1. <<byte>> \in Seq(Nat) /\ <<byte, byte>> \in Seq(Nat) OBVIOUS
<1> QED BY <1>1 DEF Doubled

LEMMA EscapeType ==
    ASSUME NEW text \in Seq(Nat)
    PROVE  Escape(text) \in Seq(Nat)
<1> DEFINE T == {t \in Seq(Nat) : Escape(t) \in Seq(Nat)}
<1>1. <<>> \in T BY EscapeEmpty, EmptySeq
<1>2. ASSUME NEW t \in T, NEW byte \in Nat PROVE Append(t, byte) \in T
  <2>1. t \in Seq(Nat) /\ Escape(t) \in Seq(Nat) OBVIOUS
  <2>2. Escape(Append(t, byte)) = Escape(t) \o Doubled(byte) BY <2>1, EscapeAppend
  <2>3. Escape(t) \o Doubled(byte) \in Seq(Nat) BY <2>1, DoubledType, ConcatProperties
  <2> QED BY <2>1, <2>2, <2>3, AppendProperties
<1> HIDE DEF T
<1>3. T = Seq(Nat) BY <1>1, <1>2, SequenceInduction DEF T
<1> QED BY <1>3 DEF T

\* One byte more, and two 255s more.
LEMMA OneMoreParsed ==
    ASSUME NEW a \in Seq(Nat), NEW byte \in Nat
    PROVE  /\ Parsed(a \o <<byte>>) = WithByte(Parsed(a), byte)
           /\ a \o <<byte>> \in Seq(Nat)
<1>1. Append(a, byte) = a \o <<byte>> BY AppendIsConcat
<1>2. Append(a, byte) \in Seq(Nat) BY AppendProperties
<1> QED BY <1>1, <1>2, ParsedAppend

LEMMA TwoMoreParsed ==
    ASSUME NEW a \in Seq(Nat), NEW byte \in Nat, NEW next \in Nat
    PROVE  Parsed(a \o <<byte, next>>) = WithByte(WithByte(Parsed(a), byte), next)
<1>1. PICK b \in Seq(Nat) : b = a \o <<byte>> /\ Parsed(b) = WithByte(Parsed(a), byte)
  BY OneMoreParsed
<1>2. Parsed(b \o <<next>>) = WithByte(Parsed(b), next) BY OneMoreParsed
<1>3. <<byte, next>> = <<byte>> \o <<next>> BY OneElement, TwoElements, AppendIsConcat
<1>4. <<byte>> \in Seq(Nat) BY OneElement
<1>5. a \o (<<byte>> \o <<next>>) = (a \o <<byte>>) \o <<next>> BY <1>4, AddedLater, Zenon
<1> QED BY <1>1, <1>2, <1>3, <1>5

\* What the parser makes of a byte that was escaped: in the data it is one for the device,
\* in a subnegotiation it is kept there.
LEMMA DoubledParsed ==
    ASSUME NEW a \in Seq(Nat), NEW byte \in Nat
    PROVE  LET before == Parsed(a)
               after == Parsed(a \o Doubled(byte))
           IN  /\ before.parser.state = "data" =>
                     /\ after.parser.state = "data" /\ after.parser.subneg = before.parser.subneg
                     /\ after.parser.negotiate_cmd = before.parser.negotiate_cmd
                     /\ after.serial = before.serial \o <<byte>>
                     /\ after.commands = before.commands
               /\ before.parser.state = "sb" =>
                     /\ after.parser.state = "sb"
                     /\ after.parser.subneg = Collected(before.parser.subneg, byte)
                     /\ after.commands = before.commands
<1>1. PICK r \in Results : r = Parsed(a) BY ParsedResult
<1>2. PICK p \in Parsers : p = r.parser BY DEF Results
<1>3. /\ r.serial \in Seq(Nat) /\ r.commands \in Seq(CommandRecords)
      /\ r.serial \o <<>> = r.serial /\ r.commands \o <<>> = r.commands
  BY ConcatEmptySeq DEF Results
<1>4. IAC \in Nat BY DEF IAC
<1>5. PICK z : z = Parsed(a \o Doubled(byte)) OBVIOUS
<1>6. CASE byte # IAC
  <2>1. z = WithByte(r, byte) BY <1>1, <1>5, <1>6, DoubledType, OneMoreParsed
  <2>2. /\ z.parser = Step(p, byte) /\ z.serial = r.serial \o Serial(p, byte)
        /\ z.commands = r.commands \o Commands(p, byte)
    BY <2>1, <1>2, WithByteIs
  <2>3. p.state = "data" =>
            Step(p, byte) = p /\ Serial(p, byte) = <<byte>> /\ Commands(p, byte) = <<>>
    BY <1>6, StepCases
  <2>4. p.state = "sb" =>
            /\ Step(p, byte).state = "sb" /\ Step(p, byte).subneg = Collected(p.subneg, byte)
            /\ Serial(p, byte) = <<>> /\ Commands(p, byte) = <<>>
    BY <1>6, StepCases
  <2> QED BY <1>1, <1>2, <1>3, <1>5, <2>2, <2>3, <2>4
<1>7. CASE byte = IAC
  <2>1. PICK m \in Results : m = WithByte(r, IAC) BY <1>4, WithByteIs
  <2>2. PICK q \in Parsers : q = m.parser BY DEF Results
  <2>3. z = WithByte(m, IAC) BY <1>1, <1>4, <1>5, <1>7, <2>1, DoubledType, TwoMoreParsed
  <2>4. /\ q = Step(p, IAC) /\ m.serial = r.serial \o Serial(p, IAC)
        /\ m.commands = r.commands \o Commands(p, IAC)
    BY <1>2, <1>4, <2>1, <2>2, WithByteIs
  <2>5. /\ z.parser = Step(q, IAC) /\ z.serial = m.serial \o Serial(q, IAC)
        /\ z.commands = m.commands \o Commands(q, IAC)
    BY <1>4, <2>2, <2>3, WithByteIs
  <2>6. ASSUME p.state = "data"
        PROVE  /\ z.parser.state = "data" /\ z.parser.subneg = p.subneg
               /\ z.parser.negotiate_cmd = p.negotiate_cmd
               /\ z.serial = r.serial \o <<IAC>> /\ z.commands = r.commands
    <3>1. /\ q.state = "iac" /\ q.subneg = p.subneg /\ q.negotiate_cmd = p.negotiate_cmd
          /\ m.serial = r.serial /\ m.commands = r.commands
      BY <1>3, <1>4, <2>4, <2>6, StepCases
    <3>2. /\ Step(q, IAC).state = "data" /\ Step(q, IAC).subneg = q.subneg
          /\ Step(q, IAC).negotiate_cmd = q.negotiate_cmd
          /\ Serial(q, IAC) = <<IAC>> /\ Commands(q, IAC) = <<>>
      BY <1>4, <3>1, StepCases
    <3> QED BY <1>3, <2>5, <3>1, <3>2
  <2>7. ASSUME p.state = "sb"
        PROVE  /\ z.parser.state = "sb" /\ z.parser.subneg = Collected(p.subneg, IAC)
               /\ z.commands = r.commands
    <3>1. /\ q.state = "sb_iac" /\ q.subneg = p.subneg /\ m.commands = r.commands
      BY <1>3, <1>4, <2>4, <2>7, StepCases
    <3>2. /\ Step(q, IAC).state = "sb" /\ Step(q, IAC).subneg = Collected(q.subneg, IAC)
          /\ Commands(q, IAC) = <<>>
      BY <1>4, <3>1, StepCases
    <3> QED BY <1>3, <2>5, <3>1, <3>2
  <2> QED BY <1>1, <1>2, <1>5, <1>7, <2>6, <2>7
<1> QED BY <1>6, <1>7

\* Data come out as they went in.
LEMMA DataComeBack ==
    ASSUME NEW text \in Seq(Nat)
    PROVE  Parsed(Escape(text)) = [NothingParsed EXCEPT !.serial = text]
<1> DEFINE Back(t) ==
        LET r == Parsed(Escape(t))
        IN  r.parser.state = "data" /\ r.parser.subneg = <<>> /\ r.parser.negotiate_cmd = 0
            /\ r.serial = t /\ r.commands = <<>>
    T == {t \in Seq(Nat) : Back(t)}
<1>1. <<>> \in T
  <2>1. Parsed(Escape(<<>>)) = NothingParsed BY EscapeEmpty, ParsedEmpty
  <2> QED BY <2>1, EmptySeq DEF NothingParsed, NewParser
<1>2. ASSUME NEW t \in T, NEW byte \in Nat PROVE Append(t, byte) \in T
  <2>1. t \in Seq(Nat) /\ Back(t) OBVIOUS
  <2>2. PICK a \in Seq(Nat) : a = Escape(t) BY <2>1, EscapeType
  <2>3. Escape(Append(t, byte)) = a \o Doubled(byte) BY <2>1, <2>2, EscapeAppend
  <2>4. PICK z : z = Parsed(a \o Doubled(byte)) OBVIOUS
  <2>5. PICK r : r = Parsed(a) OBVIOUS
  <2>6. /\ r.parser.state = "data" /\ r.parser.subneg = <<>> /\ r.parser.negotiate_cmd = 0
        /\ r.serial = t /\ r.commands = <<>>
    BY <2>1, <2>2, <2>5
  <2>7. /\ z.parser.state = "data" /\ z.parser.subneg = <<>> /\ z.parser.negotiate_cmd = 0
        /\ z.serial = t \o <<byte>> /\ z.commands = <<>>
    BY <2>4, <2>5, <2>6, DoubledParsed
  <2>8. Append(t, byte) = t \o <<byte>> /\ Append(t, byte) \in Seq(Nat)
    BY <2>1, AppendIsConcat, AppendProperties
  <2> QED BY <2>3, <2>4, <2>7, <2>8
<1> HIDE DEF T
<1>3. T = Seq(Nat) BY <1>1, <1>2, SequenceInduction DEF T
<1>4. Back(text) BY <1>3 DEF T
<1>5. PICK r \in Results : r = Parsed(Escape(text)) BY EscapeType, ParsedResult
<1>6. /\ r.parser.state = "data" /\ r.parser.subneg = <<>> /\ r.parser.negotiate_cmd = 0
      /\ r.serial = text /\ r.commands = <<>>
  BY <1>4, <1>5
<1>7. r.parser = NewParser
  <2>1. r.parser \in Parsers BY DEF Results
  <2>2. r.parser = [state |-> r.parser.state, negotiate_cmd |-> r.parser.negotiate_cmd,
                    subneg |-> r.parser.subneg]
    BY <2>1 DEF Parsers
  <2> QED BY <1>6, <2>2 DEF NewParser
<1>8. r = [parser |-> r.parser, serial |-> r.serial, commands |-> r.commands] BY DEF Results
<1> QED BY <1>5, <1>6, <1>7, <1>8 DEF NothingParsed

\* The head of a command, and what follows it up to its end.
LEMMA FrameHead ==
    LET r == Parsed(<<IAC, SB, COM_PORT_OPTION, SIGNATURE>>)
    IN  /\ <<IAC, SB, COM_PORT_OPTION, SIGNATURE>> \in Seq(Nat)
        /\ r.parser.state = "sb" /\ r.commands = <<>>
        /\ r.parser.subneg = FirstOf(<<COM_PORT_OPTION, SIGNATURE>>, SubnegMax)
<1>0. /\ IAC \in Nat /\ SB \in Nat /\ COM_PORT_OPTION \in Nat /\ SIGNATURE \in Nat
      /\ SB # IAC /\ COM_PORT_OPTION # IAC /\ SIGNATURE # IAC
  BY DEF IAC, SB, COM_PORT_OPTION, SIGNATURE
<1>1. PICK r0 \in Results : r0 = Parsed(<<>>) BY EmptySeq, ParsedResult
<1>2. r0.parser.state = "data" /\ r0.commands = <<>>
  BY <1>1, ParsedEmpty DEF NothingParsed, NewParser
<1>3. <<>> \o <<>> = <<>> /\ <<>> \in Seq(Nat) /\ <<>> \in Seq(CommandRecords)
  BY EmptySeq, ConcatEmptySeq
<1>4. PICK s1 \in Seq(Nat) : s1 = <<IAC>> BY <1>0, OneElement
<1>5. PICK s2 \in Seq(Nat) : s2 = <<IAC, SB>> BY <1>0, TwoElements
<1>6. PICK s3 \in Seq(Nat) : s3 = <<IAC, SB, COM_PORT_OPTION>> BY <1>0, FourElements
<1>7. PICK s4 \in Seq(Nat) : s4 = <<IAC, SB, COM_PORT_OPTION, SIGNATURE>> BY <1>0, FourElements
<1>8. /\ s1 = Append(<<>>, IAC) /\ s2 = Append(s1, SB)
      /\ s3 = Append(s2, COM_PORT_OPTION) /\ s4 = Append(s3, SIGNATURE)
  BY <1>0, <1>4, <1>5, <1>6, <1>7, TwoElements, FourElements
<1>9. PICK r1 \in Results : r1 = Parsed(s1) BY ParsedResult
<1>10. PICK r2 \in Results : r2 = Parsed(s2) BY ParsedResult
<1>11. PICK r3 \in Results : r3 = Parsed(s3) BY ParsedResult
<1>12. PICK r4 \in Results : r4 = Parsed(s4) BY ParsedResult
<1>13. /\ r1 = WithByte(r0, IAC) /\ r2 = WithByte(r1, SB)
       /\ r3 = WithByte(r2, COM_PORT_OPTION) /\ r4 = WithByte(r3, SIGNATURE)
  BY <1>0, <1>1, <1>3, <1>8, <1>9, <1>10, <1>11, <1>12, ParsedAppend
<1>14. /\ r0.parser \in Parsers /\ r1.parser \in Parsers /\ r2.parser \in Parsers
       /\ r3.parser \in Parsers
  BY DEF Results
<1>15. r1.parser.state = "iac" /\ r1.commands = <<>>
  <2>1. r1.parser = Step(r0.parser, IAC) /\ r1.commands = r0.commands \o Commands(r0.parser, IAC)
    BY <1>0, <1>13, WithByteIs
  <2>2. Step(r0.parser, IAC).state = "iac" /\ Commands(r0.parser, IAC) = <<>>
    BY <1>0, <1>2, <1>14, StepCases
  <2> QED BY <1>2, <1>3, <2>1, <2>2
<1>16. r2.parser.state = "sb" /\ r2.parser.subneg = <<>> /\ r2.commands = <<>>
  <2>1. r2.parser = Step(r1.parser, SB) /\ r2.commands = r1.commands \o Commands(r1.parser, SB)
    BY <1>0, <1>13, WithByteIs
  <2>2. /\ Step(r1.parser, SB).state = "sb" /\ Step(r1.parser, SB).subneg = <<>>
        /\ Commands(r1.parser, SB) = <<>>
    BY <1>0, <1>15, <1>14, StepCases
  <2> QED BY <1>15, <1>3, <2>1, <2>2
<1>17. /\ r3.parser.state = "sb" /\ r3.commands = <<>>
       /\ r3.parser.subneg = Collected(<<>>, COM_PORT_OPTION)
  <2>1. /\ r3.parser = Step(r2.parser, COM_PORT_OPTION)
        /\ r3.commands = r2.commands \o Commands(r2.parser, COM_PORT_OPTION)
    BY <1>0, <1>13, WithByteIs
  <2>2. /\ Step(r2.parser, COM_PORT_OPTION).state = "sb"
        /\ Step(r2.parser, COM_PORT_OPTION).subneg = Collected(<<>>, COM_PORT_OPTION)
        /\ Commands(r2.parser, COM_PORT_OPTION) = <<>>
    BY <1>0, <1>16, <1>14, StepCases
  <2> QED BY <1>16, <1>3, <2>1, <2>2
<1>18. /\ r4.parser.state = "sb" /\ r4.commands = <<>>
       /\ r4.parser.subneg = Collected(r3.parser.subneg, SIGNATURE)
  <2>1. /\ r4.parser = Step(r3.parser, SIGNATURE)
        /\ r4.commands = r3.commands \o Commands(r3.parser, SIGNATURE)
    BY <1>0, <1>13, WithByteIs
  <2>2. /\ Step(r3.parser, SIGNATURE).state = "sb"
        /\ Step(r3.parser, SIGNATURE).subneg = Collected(r3.parser.subneg, SIGNATURE)
        /\ Commands(r3.parser, SIGNATURE) = <<>>
    BY <1>0, <1>17, <1>14, StepCases
  <2> QED BY <1>17, <1>3, <2>1, <2>2
<1>19. r3.parser.subneg = FirstOf(<<COM_PORT_OPTION>>, SubnegMax)
  <2>1. Append(<<>>, COM_PORT_OPTION) = <<COM_PORT_OPTION>> OBVIOUS
  <2> QED BY <1>0, <1>3, <1>17, <2>1, FirstOfNothing, FirstOfMore
<1>20. r4.parser.subneg = FirstOf(<<COM_PORT_OPTION, SIGNATURE>>, SubnegMax)
  <2>1. /\ Append(<<COM_PORT_OPTION>>, SIGNATURE) = <<COM_PORT_OPTION, SIGNATURE>>
        /\ <<COM_PORT_OPTION>> \in Seq(Nat)
    BY <1>0, OneElement, TwoElements
  <2> QED BY <1>0, <1>18, <1>19, <2>1, FirstOfMore
<1> QED BY <1>7, <1>12, <1>18, <1>20

\* The value in a command is kept as far as there is room.
Kept(u, v, text) ==
    LET r == Parsed(u \o Escape(text))
    IN  /\ r.parser.state = "sb" /\ r.commands = <<>>
        /\ r.parser.subneg = FirstOf(v \o text, SubnegMax)

LEMMA EscapeAfter ==
    ASSUME NEW u \in Seq(Nat), NEW text \in Seq(Nat), NEW byte \in Nat
    PROVE  u \o Escape(Append(text, byte)) = (u \o Escape(text)) \o Doubled(byte)
<1>1. Escape(text) \in Seq(Nat) BY EscapeType
<1>2. Doubled(byte) \in Seq(Nat) BY DoubledType
<1>3. Escape(Append(text, byte)) = Escape(text) \o Doubled(byte) BY EscapeAppend
<1>4. (u \o Escape(text)) \o Doubled(byte) = u \o (Escape(text) \o Doubled(byte))
  BY <1>1, <1>2, BytesAssociative, Zenon
<1> QED BY <1>3, <1>4

LEMMA KeptStep ==
    ASSUME NEW u \in Seq(Nat), NEW v \in Seq(Nat), NEW t \in Seq(Nat), NEW byte \in Nat,
           Kept(u, v, t)
    PROVE  Kept(u, v, Append(t, byte))
<1>1. PICK a \in Seq(Nat) : a = u \o Escape(t) BY EscapeType, ConcatProperties
<1>2. PICK r : r = Parsed(a) OBVIOUS
<1>3. PICK z : z = Parsed(a \o Doubled(byte)) OBVIOUS
<1>4. /\ r.parser.state = "sb" /\ r.commands = <<>>
      /\ r.parser.subneg = FirstOf(v \o t, SubnegMax)
  BY <1>1, <1>2 DEF Kept
<1>5. r.parser.state = "sb" =>
          /\ z.parser.state = "sb" /\ z.parser.subneg = Collected(r.parser.subneg, byte)
          /\ z.commands = r.commands
  BY <1>2, <1>3, DoubledParsed
<1>6. PICK w \in Seq(Nat) : w = v \o t BY ConcatProperties
<1>7. v \o Append(t, byte) = Append(w, byte)
  <2>1. Append(t, byte) = t \o <<byte>> /\ Append(w, byte) = w \o <<byte>> BY AppendIsConcat
  <2>2. v \o (t \o <<byte>>) = (v \o t) \o <<byte>> BY AddedLater, Zenon
  <2> QED BY <1>6, <2>1, <2>2
<1>8. FirstOf(Append(w, byte), SubnegMax) = Collected(FirstOf(w, SubnegMax), byte)
  BY FirstOfMore
<1>9. z = Parsed(u \o Escape(Append(t, byte))) BY <1>1, <1>3, EscapeAfter
<1> QED BY <1>4, <1>5, <1>6, <1>7, <1>8, <1>9 DEF Kept

LEMMA ValueIsKept ==
    ASSUME NEW text \in Seq(Nat)
    PROVE  Kept(<<IAC, SB, COM_PORT_OPTION, SIGNATURE>>, <<COM_PORT_OPTION, SIGNATURE>>, text)
<1>1. PICK u \in Seq(Nat) : u = <<IAC, SB, COM_PORT_OPTION, SIGNATURE>> BY FrameHead
<1>2. PICK v \in Seq(Nat) : v = <<COM_PORT_OPTION, SIGNATURE>>
  <2>1. COM_PORT_OPTION \in Nat /\ SIGNATURE \in Nat BY DEF COM_PORT_OPTION, SIGNATURE
  <2> QED BY <2>1, TwoElements
<1> DEFINE T == {t \in Seq(Nat) : Kept(u, v, t)}
<1>3. <<>> \in T
  <2>1. u \o Escape(<<>>) = u /\ v \o <<>> = v BY EscapeEmpty, ConcatEmptySeq
  <2> QED BY <1>1, <1>2, <2>1, EmptySeq, FrameHead DEF Kept
<1>4. ASSUME NEW t \in T, NEW byte \in Nat PROVE Append(t, byte) \in T
  BY KeptStep, AppendProperties
<1> HIDE DEF T
<1>5. T = Seq(Nat) BY <1>3, <1>4, SequenceInduction DEF T
<1>6. Kept(u, v, text) BY <1>5 DEF T
<1> QED BY <1>1, <1>2, <1>6

LEMMA ValueComesBack ==
    ASSUME NEW text \in Seq(Nat)
    PROVE  Parsed(SubnegFrame(SIGNATURE, text)).commands =
              <<[kind  |-> "subneg",
                 frame |-> FirstOf(<<COM_PORT_OPTION, SIGNATURE>> \o text, SubnegMax)]>>
<1>0. IAC \in Nat /\ SE \in Nat /\ SE # IAC BY DEF IAC, SE
<1>1. PICK u \in Seq(Nat) : u = <<IAC, SB, COM_PORT_OPTION, SIGNATURE>> BY FrameHead
<1>2. PICK e \in Seq(Nat) : e = Escape(text) BY EscapeType
<1>3. PICK a \in Seq(Nat) : a = u \o e BY ConcatProperties
<1>4. SubnegFrame(SIGNATURE, text) = a \o <<IAC, SE>> BY <1>1, <1>2, <1>3 DEF SubnegFrame
<1>5. PICK r \in Results : r = Parsed(a) BY ParsedResult
<1>6. PICK f : f = FirstOf(<<COM_PORT_OPTION, SIGNATURE>> \o text, SubnegMax) OBVIOUS
<1>7. r.parser.state = "sb" /\ r.commands = <<>> /\ r.parser.subneg = f
  BY <1>1, <1>2, <1>3, <1>5, <1>6, ValueIsKept DEF Kept
<1>8. PICK m \in Results : m = WithByte(r, IAC) BY <1>0, WithByteIs
<1>9. PICK z : z = WithByte(m, SE) OBVIOUS
<1>10. Parsed(a \o <<IAC, SE>>) = z BY <1>0, <1>5, <1>8, <1>9, TwoMoreParsed
<1>11. r.parser \in Parsers /\ m.parser \in Parsers BY DEF Results
<1>12. <<>> \o <<>> = <<>> /\ <<[kind |-> "subneg", frame |-> f]>> = <<>> \o <<[kind |-> "subneg", frame |-> f]>>
  OBVIOUS
<1>13. m.parser.state = "sb_iac" /\ m.commands = <<>> /\ m.parser.subneg = f
  <2>1. m.parser = Step(r.parser, IAC) /\ m.commands = r.commands \o Commands(r.parser, IAC)
    BY <1>0, <1>8, WithByteIs
  <2>2. /\ Step(r.parser, IAC).state = "sb_iac" /\ Step(r.parser, IAC).subneg = f
        /\ Commands(r.parser, IAC) = <<>>
    BY <1>0, <1>7, <1>11, StepCases
  <2> QED BY <1>7, <1>12, <2>1, <2>2
<1>14. z.commands = m.commands \o Commands(m.parser, SE) BY <1>0, <1>9, WithByteIs
<1>15. Commands(m.parser, SE) = <<[kind |-> "subneg", frame |-> f]>>
  BY <1>0, <1>11, <1>13, StepCases
<1> QED BY <1>4, <1>6, <1>10, <1>12, <1>13, <1>14, <1>15

-----------------------------------------------------------------------------
(* Requests and their answers.                                              *)

\* A rate and the four bytes it travels in.
LEMMA BaudOfBytes ==
    ASSUME NEW baud \in Rates, NEW a, NEW b, NEW c, NEW d,
           a = (baud \div 16777216) % 256, b = (baud \div 65536) % 256,
           c = (baud \div 256) % 256, d = baud % 256
    PROVE  /\ a \in 0..255 /\ b \in 0..255 /\ c \in 0..255 /\ d \in 0..255
           /\ ((a * 256 + b) * 256 + c) * 256 + d = baud
<1>0. baud \in Nat /\ baud \div 16777216 < 256 BY SMT DEF Rates
<1>1. /\ baud \div 256 \in Nat /\ baud \div 65536 \in Nat /\ baud \div 16777216 \in Nat
  BY <1>0, SMT
<1>2. d \in 0..255 /\ baud = (baud \div 256) * 256 + d BY <1>0, SMT
<1>3. c \in 0..255 /\ baud \div 256 = (baud \div 65536) * 256 + c BY <1>0, SMT
<1>4. b \in 0..255 /\ baud \div 65536 = (baud \div 16777216) * 256 + b BY <1>0, SMT
<1>5. a \in 0..255 /\ baud \div 16777216 = a BY <1>0, SMT
<1> QED BY <1>2, <1>3, <1>4, <1>5, SMT

\* The byte sequences of values.
LEMMA OfFour ==
    ASSUME NEW S, NEW w \in Seq(S), Len(w) = 4
    PROVE  w = <<w[1], w[2], w[3], w[4]>>
OBVIOUS

LEMMA ValueIs ==
    ASSUME NEW frame \in Seq(0..255), Len(frame) \in {3, 6}
    PROVE  /\ Len(frame) = 3 => Value(frame) = <<frame[3]>>
           /\ Len(frame) = 6 => Value(frame) = <<frame[3], frame[4], frame[5], frame[6]>>
           /\ \A i \in 1..Len(frame) : frame[i] \in 0..255
<1>1. \A i \in 1..Len(frame) : frame[i] \in 0..255 BY ElementOfSeq
<1>2. CASE Len(frame) = 3
  <2>1. Value(frame) = SubSeq(frame, 3, 3) BY <1>2 DEF Value
  <2>2. SubSeq(frame, 3, 3) = <<frame[3]>>
    <3>1. /\ 3 \in 1..Len(frame) /\ 3 \in Int /\ 2 \in Int /\ 2 < 3 /\ 3 - 1 = 2 BY <1>2, SMT
    <3>2. SubSeq(frame, 3, 3) = SubSeq(frame, 3, 2) \o <<frame[3]>>
      BY <3>1, SubSeqRecursiveSecond
    <3>3. SubSeq(frame, 3, 2) = <<>> BY <3>1, SubSeqEmpty
    <3>4. <<frame[3]>> \in Seq(0..255) BY <1>1, <3>1, OneElement
    <3> QED BY <3>2, <3>3, <3>4, ConcatEmptySeq
  <2> QED BY <1>1, <1>2, <2>1, <2>2
<1>3. CASE Len(frame) = 6
  <2>1. Value(frame) = SubSeq(frame, 3, 6) BY <1>3 DEF Value
  <2>2. SubSeq(frame, 3, 6) = <<frame[3], frame[4], frame[5], frame[6]>>
    <3>1. PICK w \in Seq(0..255) :
              /\ w = SubSeq(frame, 3, 6) /\ Len(w) = 4
              /\ w[1] = frame[3] /\ w[2] = frame[4] /\ w[3] = frame[5] /\ w[4] = frame[6]
      <4>1. /\ 3 \in Int /\ 6 \in Int /\ 3..6 \subseteq 1..Len(frame)
            /\ (IF 3 <= 6 THEN 6 - 3 + 1 ELSE 0) = 4
            /\ 1 \in 1 .. 6 - 3 + 1 /\ 2 \in 1 .. 6 - 3 + 1
            /\ 3 \in 1 .. 6 - 3 + 1 /\ 4 \in 1 .. 6 - 3 + 1
            /\ 3 + 1 - 1 = 3 /\ 3 + 2 - 1 = 4 /\ 3 + 3 - 1 = 5 /\ 3 + 4 - 1 = 6
        BY <1>3, SMT
      <4>2. \A i \in 3..6 : frame[i] \in 0..255 BY <1>1, <4>1
      <4>3. /\ SubSeq(frame, 3, 6) \in Seq(0..255)
            /\ Len(SubSeq(frame, 3, 6)) = IF 3 <= 6 THEN 6 - 3 + 1 ELSE 0
            /\ \A i \in 1 .. 6 - 3 + 1 : SubSeq(frame, 3, 6)[i] = frame[3 + i - 1]
        BY <4>1, <4>2, SubSeqProperties
      <4> QED BY <4>1, <4>3
    <3>2. w = <<w[1], w[2], w[3], w[4]>> BY <3>1, OfFour
    <3> QED BY <3>1, <3>2
  <2> QED BY <1>1, <1>3, <2>1, <2>2
<1> QED BY <1>2, <1>3

\* A request of the same kind for a value.
Again(command, value) == <<COM_PORT_OPTION, command>> \o value

LEMMA AgainIs ==
    ASSUME NEW command \in 0..255, NEW value \in Seq(0..255), Len(value) \in {1, 4}
    PROVE  /\ Again(command, value) \in Seq(0..255)
           /\ Len(Again(command, value)) = Len(value) + 2
           /\ IsComPort(Again(command, value))
           /\ Again(command, value)[2] = command
           /\ Again(command, value)[3] = value[1]
           /\ Value(Again(command, value)) = value
<1>1. PICK head \in Seq(0..255) : head = <<COM_PORT_OPTION, command>> /\ Len(head) = 2
  <2>1. COM_PORT_OPTION \in 0..255 BY DEF COM_PORT_OPTION
  <2>2. <<COM_PORT_OPTION, command>> \in Seq(0..255) BY <2>1, TwoElements
  <2> QED BY <2>2
<1>0. Len(value) \in Nat /\ Len(value) >= 1
  <2>1. \A n \in {1, 4} : n \in Nat /\ n >= 1 BY SMT
  <2> QED BY <2>1
<1>2. PICK again \in Seq(0..255) : again = head \o value BY ConcatProperties
<1>3. /\ Len(again) = Len(value) + 2
      /\ \A i \in 1 .. Len(value) + 2 : again[i] = IF i <= 2 THEN head[i] ELSE value[i - 2]
  <2>1. /\ Len(head \o value) = Len(head) + Len(value)
        /\ \A i \in 1 .. Len(head) + Len(value) :
              (head \o value)[i] = IF i <= Len(head) THEN head[i] ELSE value[i - Len(head)]
    BY ConcatProperties
  <2>2. Len(head) + Len(value) = Len(value) + 2 BY <1>0, <1>1, SMT
  <2> QED BY <1>1, <1>2, <2>1, <2>2
<1>4. again[1] = head[1] /\ again[2] = head[2] /\ again[3] = value[1]
  <2>1. /\ 1 \in 1 .. Len(value) + 2 /\ 2 \in 1 .. Len(value) + 2 /\ 3 \in 1 .. Len(value) + 2
        /\ 1 <= 2 /\ 2 <= 2 /\ ~(3 <= 2) /\ 3 - 2 = 1
    BY <1>0, SMT
  <2> QED BY <1>3, <2>1
<1>5. Value(again) = value
  <2>1. CASE Len(value) = 1
    <3>1. Value(again) = <<again[3]>> BY <1>3, <2>1, ValueIs
    <3>2. value = <<value[1]>> BY <2>1
    <3> QED BY <1>4, <3>1, <3>2
  <2>2. CASE Len(value) = 4
    <3>1. Value(again) = <<again[3], again[4], again[5], again[6]>> BY <1>3, <2>2, ValueIs
    <3>2. value = <<value[1], value[2], value[3], value[4]>> BY <2>2
    <3>3. again[4] = value[2] /\ again[5] = value[3] /\ again[6] = value[4]
      <4>1. /\ 4 \in 1 .. Len(value) + 2 /\ 5 \in 1 .. Len(value) + 2 /\ 6 \in 1 .. Len(value) + 2
            /\ ~(4 <= 2) /\ ~(5 <= 2) /\ ~(6 <= 2) /\ 4 - 2 = 2 /\ 5 - 2 = 3 /\ 6 - 2 = 4
        BY <2>2, SMT
      <4> QED BY <1>3, <4>1
    <3> QED BY <1>4, <3>1, <3>2, <3>3
  <2> QED BY <2>1, <2>2
<1>6. again = Again(command, value) BY <1>1, <1>2 DEF Again
<1>7. IsComPort(again)
  <2>1. Len(value) + 2 >= 2 BY <1>0, SMT
  <2> QED BY <1>1, <1>3, <1>4, <2>1 DEF IsComPort
<1> QED BY <1>1, <1>3, <1>4, <1>5, <1>6, <1>7

\* What the bridge takes the line to be is a state of the line.
LEMMA StateIs ==
    ASSUME NEW remembered \in LineStates
    PROVE  current_serial_state(remembered) \in LineStates
<1>1. BaudDefault \in Rates \ {0}
  <2>1. BaudDefault \in Nat /\ BaudDefault >= 1 /\ BaudDefault <= 3000000
    BY LineAssumption, SMT
  <2>2. BaudDefault \div 16777216 < 256 BY <2>1, SMT
  <2> QED BY <2>1, <2>2, SMT DEF Rates
<1>2. CASE remembered.valid BY <1>2 DEF current_serial_state
<1>3. CASE ~remembered.valid
  <2>2. 8 \in 5..8 /\ 0 \in 0..4 /\ 0 \in 0..2 BY SMT
  <2> QED BY <1>1, <1>3, <2>2 DEF current_serial_state, LineStates
<1> QED BY <1>2, <1>3

\* What a request is taken for.
LEMMA RequestIs ==
    ASSUME NEW frame, IsRequest(frame)
    PROVE  /\ frame \in Seq(0..255) /\ Len(frame) \in {3, 6} /\ frame[1] = COM_PORT_OPTION
           /\ frame[2] \in {SET_BAUDRATE, SET_DATASIZE, SET_PARITY, SET_STOPSIZE, SET_CONTROL}
           /\ Len(frame) = 6 <=> frame[2] = SET_BAUDRATE
           /\ \A command : /\ Is(frame, command, 0) <=> frame[2] = command
                           /\ Is(frame, command, 1) <=> frame[2] = command
                           /\ Is(frame, command, 4) <=> frame[2] = command /\ Len(frame) = 6
<1>1. /\ frame \in Seq(0..255) /\ frame[1] = COM_PORT_OPTION
      /\ \/ frame[2] = SET_BAUDRATE /\ Len(frame) = 6
         \/ frame[2] \in {SET_DATASIZE, SET_PARITY, SET_STOPSIZE, SET_CONTROL} /\ Len(frame) = 3
  BY DEF IsRequest
<1>2. PICK n : n = Len(frame) OBVIOUS
<1>3. SET_BAUDRATE \notin {SET_DATASIZE, SET_PARITY, SET_STOPSIZE, SET_CONTROL}
  BY DEF SET_BAUDRATE, SET_DATASIZE, SET_PARITY, SET_STOPSIZE, SET_CONTROL
<1>4. n \in {3, 6} /\ (n = 6 <=> frame[2] = SET_BAUDRATE)
  <2>1. 3 # 6 OBVIOUS
  <2> QED BY <1>1, <1>2, <1>3, <2>1
<1>5. n >= 2 /\ n - 2 >= 0 /\ n - 2 >= 1 /\ (n - 2 >= 4 <=> n = 6)
  BY <1>4, SMT
<1>6. ASSUME NEW command
      PROVE  /\ Is(frame, command, 0) <=> frame[2] = command
             /\ Is(frame, command, 1) <=> frame[2] = command
             /\ Is(frame, command, 4) <=> frame[2] = command /\ Len(frame) = 6
  BY <1>1, <1>2, <1>5 DEF Is, IsComPort
<1> QED BY <1>1, <1>2, <1>4, <1>6

\* What it is answered and what it asks for.
LEMMA RequestAnswered ==
    ASSUME NEW frame, IsRequest(frame), NEW state
    PROVE  /\ frame[2] = SET_BAUDRATE =>
                 /\ AnswerValues(frame, state) = {BaudBytes(state.baud)}
                 /\ Requested(frame, state) = [state EXCEPT !.baud = BaudOf(Value(frame))]
                 /\ AsksLine(frame) <=> BaudOf(Value(frame)) # 0
           /\ frame[2] = SET_DATASIZE =>
                 /\ AnswerValues(frame, state) = {<<state.data_bits>>}
                 /\ Requested(frame, state) = [state EXCEPT !.data_bits = frame[3]]
                 /\ AsksLine(frame) <=> frame[3] \in 5..8
           /\ frame[2] = SET_PARITY =>
                 /\ AnswerValues(frame, state) = {<<state.parity_type + 1>>}
                 /\ Requested(frame, state) = [state EXCEPT !.parity_type = frame[3] - 1]
                 /\ AsksLine(frame) <=> frame[3] \in 1..5
           /\ frame[2] = SET_STOPSIZE =>
                 /\ AnswerValues(frame, state) = {<<rfc_stop_from_cdc(state.char_format)>>}
                 /\ Requested(frame, state) =
                       [state EXCEPT !.char_format = cdc_from_rfc_stop[frame[3]]]
                 /\ AsksLine(frame) <=> frame[3] \in 1..3
           /\ frame[2] = SET_CONTROL =>
                 /\ AnswerValues(frame, state) = {<<ControlAnswer(frame[3], state)>>}
                 /\ ~AsksLine(frame)
           /\ AsksControl(frame) <=>
                 frame[2] = SET_CONTROL /\ frame[3] \in {DTR_ON, DTR_OFF, RTS_ON, RTS_OFF}
<1>1. /\ Len(frame) = 6 <=> frame[2] = SET_BAUDRATE
      /\ \A command : /\ Is(frame, command, 0) <=> frame[2] = command
                      /\ Is(frame, command, 1) <=> frame[2] = command
                      /\ Is(frame, command, 4) <=> frame[2] = command /\ Len(frame) = 6
  BY RequestIs
<1>0. /\ SET_BAUDRATE # SET_DATASIZE /\ SET_BAUDRATE # SET_PARITY /\ SET_BAUDRATE # SET_STOPSIZE
      /\ SET_BAUDRATE # SET_CONTROL /\ SET_DATASIZE # SET_PARITY /\ SET_DATASIZE # SET_STOPSIZE
      /\ SET_DATASIZE # SET_CONTROL /\ SET_PARITY # SET_STOPSIZE /\ SET_PARITY # SET_CONTROL
      /\ SET_STOPSIZE # SET_CONTROL
  BY DEF SET_BAUDRATE, SET_DATASIZE, SET_PARITY, SET_STOPSIZE, SET_CONTROL
<1>8. AsksControl(frame) <=>
          frame[2] = SET_CONTROL /\ frame[3] \in {DTR_ON, DTR_OFF, RTS_ON, RTS_OFF}
  BY <1>1 DEF AsksControl
<1>2. CASE frame[2] = SET_BAUDRATE
  <2>1. /\ ~Is(frame, SIGNATURE, 0) /\ Is(frame, SET_BAUDRATE, 4) /\ ~Is(frame, SET_DATASIZE, 1)
        /\ ~Is(frame, SET_PARITY, 1) /\ ~Is(frame, SET_STOPSIZE, 1) /\ ~Is(frame, SET_CONTROL, 1)
        /\ ~Is(frame, NOTIFY_LINESTATE, 0) /\ ~Is(frame, NOTIFY_MODEMSTATE, 0) /\ ~Is(frame, FLOW_SUSPEND, 0)
        /\ ~Is(frame, FLOW_RESUME, 0) /\ ~Is(frame, SET_LINE_MASK, 1) /\ ~Is(frame, SET_MODEM_MASK, 1)
        /\ ~Is(frame, PURGE_DATA, 1)
    BY <1>1, <1>2 DEF SIGNATURE, SET_BAUDRATE, SET_DATASIZE, SET_PARITY, SET_STOPSIZE,
       SET_CONTROL, NOTIFY_LINESTATE, NOTIFY_MODEMSTATE, FLOW_SUSPEND, FLOW_RESUME,
       SET_LINE_MASK, SET_MODEM_MASK, PURGE_DATA
  <2>2. AnswerValues(frame, state) = {BaudBytes(state.baud)} BY <2>1 DEF AnswerValues
  <2>5. ~AsksControl(frame) BY <2>1 DEF AsksControl
  <2>3. Requested(frame, state) = [state EXCEPT !.baud = BaudOf(Value(frame))]
    BY <2>1, <2>5 DEF Requested
  <2>4. AsksLine(frame) <=> BaudOf(Value(frame)) # 0 BY <2>1 DEF AsksLine
  <2> QED BY <1>2, <1>0, <1>8, <2>2, <2>3, <2>4
<1>3. CASE frame[2] = SET_DATASIZE
  <2>1. /\ ~Is(frame, SIGNATURE, 0) /\ ~Is(frame, SET_BAUDRATE, 4) /\ Is(frame, SET_DATASIZE, 1)
        /\ ~Is(frame, SET_PARITY, 1) /\ ~Is(frame, SET_STOPSIZE, 1) /\ ~Is(frame, SET_CONTROL, 1)
        /\ ~Is(frame, NOTIFY_LINESTATE, 0) /\ ~Is(frame, NOTIFY_MODEMSTATE, 0) /\ ~Is(frame, FLOW_SUSPEND, 0)
        /\ ~Is(frame, FLOW_RESUME, 0) /\ ~Is(frame, SET_LINE_MASK, 1) /\ ~Is(frame, SET_MODEM_MASK, 1)
        /\ ~Is(frame, PURGE_DATA, 1)
    BY <1>1, <1>3 DEF SIGNATURE, SET_BAUDRATE, SET_DATASIZE, SET_PARITY, SET_STOPSIZE,
       SET_CONTROL, NOTIFY_LINESTATE, NOTIFY_MODEMSTATE, FLOW_SUSPEND, FLOW_RESUME,
       SET_LINE_MASK, SET_MODEM_MASK, PURGE_DATA
  <2>2. AnswerValues(frame, state) = {<<state.data_bits>>} BY <2>1 DEF AnswerValues
  <2>5. ~AsksControl(frame) BY <2>1 DEF AsksControl
  <2>3. Requested(frame, state) = [state EXCEPT !.data_bits = frame[3]]
    BY <2>1, <2>5 DEF Requested
  <2>4. AsksLine(frame) <=> frame[3] \in 5..8 BY <2>1 DEF AsksLine
  <2> QED BY <1>3, <1>0, <1>8, <2>2, <2>3, <2>4
<1>4. CASE frame[2] = SET_PARITY
  <2>1. /\ ~Is(frame, SIGNATURE, 0) /\ ~Is(frame, SET_BAUDRATE, 4) /\ ~Is(frame, SET_DATASIZE, 1)
        /\ Is(frame, SET_PARITY, 1) /\ ~Is(frame, SET_STOPSIZE, 1) /\ ~Is(frame, SET_CONTROL, 1)
        /\ ~Is(frame, NOTIFY_LINESTATE, 0) /\ ~Is(frame, NOTIFY_MODEMSTATE, 0) /\ ~Is(frame, FLOW_SUSPEND, 0)
        /\ ~Is(frame, FLOW_RESUME, 0) /\ ~Is(frame, SET_LINE_MASK, 1) /\ ~Is(frame, SET_MODEM_MASK, 1)
        /\ ~Is(frame, PURGE_DATA, 1)
    BY <1>1, <1>4 DEF SIGNATURE, SET_BAUDRATE, SET_DATASIZE, SET_PARITY, SET_STOPSIZE,
       SET_CONTROL, NOTIFY_LINESTATE, NOTIFY_MODEMSTATE, FLOW_SUSPEND, FLOW_RESUME,
       SET_LINE_MASK, SET_MODEM_MASK, PURGE_DATA
  <2>2. AnswerValues(frame, state) = {<<state.parity_type + 1>>} BY <2>1 DEF AnswerValues
  <2>5. ~AsksControl(frame) BY <2>1 DEF AsksControl
  <2>3. Requested(frame, state) = [state EXCEPT !.parity_type = frame[3] - 1]
    BY <2>1, <2>5 DEF Requested
  <2>4. AsksLine(frame) <=> frame[3] \in 1..5 BY <2>1 DEF AsksLine
  <2> QED BY <1>4, <1>0, <1>8, <2>2, <2>3, <2>4
<1>5. CASE frame[2] = SET_STOPSIZE
  <2>1. /\ ~Is(frame, SIGNATURE, 0) /\ ~Is(frame, SET_BAUDRATE, 4) /\ ~Is(frame, SET_DATASIZE, 1)
        /\ ~Is(frame, SET_PARITY, 1) /\ Is(frame, SET_STOPSIZE, 1) /\ ~Is(frame, SET_CONTROL, 1)
        /\ ~Is(frame, NOTIFY_LINESTATE, 0) /\ ~Is(frame, NOTIFY_MODEMSTATE, 0) /\ ~Is(frame, FLOW_SUSPEND, 0)
        /\ ~Is(frame, FLOW_RESUME, 0) /\ ~Is(frame, SET_LINE_MASK, 1) /\ ~Is(frame, SET_MODEM_MASK, 1)
        /\ ~Is(frame, PURGE_DATA, 1)
    BY <1>1, <1>5 DEF SIGNATURE, SET_BAUDRATE, SET_DATASIZE, SET_PARITY, SET_STOPSIZE,
       SET_CONTROL, NOTIFY_LINESTATE, NOTIFY_MODEMSTATE, FLOW_SUSPEND, FLOW_RESUME,
       SET_LINE_MASK, SET_MODEM_MASK, PURGE_DATA
  <2>2. AnswerValues(frame, state) = {<<rfc_stop_from_cdc(state.char_format)>>} BY <2>1 DEF AnswerValues
  <2>5. ~AsksControl(frame) BY <2>1 DEF AsksControl
  <2>3. Requested(frame, state) = [state EXCEPT !.char_format = cdc_from_rfc_stop[frame[3]]]
    BY <2>1, <2>5 DEF Requested
  <2>4. AsksLine(frame) <=> frame[3] \in 1..3 BY <2>1 DEF AsksLine
  <2> QED BY <1>5, <1>0, <1>8, <2>2, <2>3, <2>4
<1>6. CASE frame[2] = SET_CONTROL
  <2>1. /\ ~Is(frame, SIGNATURE, 0) /\ ~Is(frame, SET_BAUDRATE, 4) /\ ~Is(frame, SET_DATASIZE, 1)
        /\ ~Is(frame, SET_PARITY, 1) /\ ~Is(frame, SET_STOPSIZE, 1) /\ Is(frame, SET_CONTROL, 1)
        /\ ~Is(frame, NOTIFY_LINESTATE, 0) /\ ~Is(frame, NOTIFY_MODEMSTATE, 0) /\ ~Is(frame, FLOW_SUSPEND, 0)
        /\ ~Is(frame, FLOW_RESUME, 0) /\ ~Is(frame, SET_LINE_MASK, 1) /\ ~Is(frame, SET_MODEM_MASK, 1)
        /\ ~Is(frame, PURGE_DATA, 1)
    BY <1>1, <1>6 DEF SIGNATURE, SET_BAUDRATE, SET_DATASIZE, SET_PARITY, SET_STOPSIZE,
       SET_CONTROL, NOTIFY_LINESTATE, NOTIFY_MODEMSTATE, FLOW_SUSPEND, FLOW_RESUME,
       SET_LINE_MASK, SET_MODEM_MASK, PURGE_DATA
  <2>2. AnswerValues(frame, state) = {<<ControlAnswer(frame[3], state)>>} BY <2>1 DEF AnswerValues
  <2>3. ~AsksLine(frame) BY <2>1 DEF AsksLine
  <2> QED BY <1>6, <1>0, <1>8, <2>2, <2>3
<1>9. frame[2] \in {SET_BAUDRATE, SET_DATASIZE, SET_PARITY, SET_STOPSIZE, SET_CONTROL}
  BY RequestIs
<1> QED BY <1>2, <1>3, <1>4, <1>5, <1>6, <1>9

LEMMA ControlRequested ==
    ASSUME NEW frame, IsRequest(frame), NEW state, AsksControl(frame)
    PROVE  Requested(frame, state) =
              IF frame[3] \in {DTR_ON, DTR_OFF}
              THEN [state EXCEPT !.dtr = (frame[3] = DTR_ON)]
              ELSE [state EXCEPT !.rts = (frame[3] = RTS_ON)]
<1>1. \A command : /\ Is(frame, command, 1) <=> frame[2] = command
                   /\ Is(frame, command, 4) <=> frame[2] = command /\ Len(frame) = 6
  BY RequestIs
<1>2. frame[2] = SET_CONTROL BY RequestAnswered
<1>3. /\ ~Is(frame, SET_BAUDRATE, 4) /\ ~Is(frame, SET_DATASIZE, 1)
      /\ ~Is(frame, SET_PARITY, 1) /\ ~Is(frame, SET_STOPSIZE, 1)
  BY <1>1, <1>2 DEF SET_BAUDRATE, SET_DATASIZE, SET_PARITY, SET_STOPSIZE, SET_CONTROL
<1> QED BY <1>3 DEF Requested

\* A value that was asked for, in bytes, is the value that is answered.
LEMMA BaudBack ==
    ASSUME NEW value \in Seq(0..255), Len(value) = 4
    PROVE  /\ BaudBytes(BaudOf(value)) = value
           /\ BaudOf(value) \in Rates
<1>1. PICK a \in 0..255, b \in 0..255, c \in 0..255, d \in 0..255 :
          /\ a = value[1] /\ b = value[2] /\ c = value[3] /\ d = value[4]
          /\ value = <<a, b, c, d>>
  <2>1. \A i \in 1..4 : value[i] \in 0..255 BY ElementOfSeq
  <2>2. value[1] \in 0..255 /\ value[2] \in 0..255 /\ value[3] \in 0..255 /\ value[4] \in 0..255
    BY <2>1
  <2>3. value = <<value[1], value[2], value[3], value[4]>> BY OfFour
  <2> QED BY <2>2, <2>3
<1> DEFINE baud == ((a * 256 + b) * 256 + c) * 256 + d
<1>2. BaudOf(value) = baud BY <1>1 DEF BaudOf
<1>3. baud \in Nat BY SMT
<1>4. baud \div 256 = (a * 256 + b) * 256 + c /\ baud % 256 = d BY SMT
<1>5. baud \div 65536 = a * 256 + b BY SMT
<1>6. baud \div 16777216 = a BY SMT
<1>7. a % 256 = a /\ (a * 256 + b) % 256 = b /\ ((a * 256 + b) * 256 + c) % 256 = c BY SMT
<1>8. a < 256 BY SMT
<1> HIDE DEF baud
<1>9. baud \in Rates BY <1>3, <1>6, <1>8, SMT DEF Rates
<1>10. BaudBytes(baud) = <<a, b, c, d>> BY <1>4, <1>5, <1>6, <1>7, SMT DEF BaudBytes
<1> QED BY <1>1, <1>2, <1>9, <1>10

LEMMA BytesBack ==
    ASSUME NEW baud \in Rates
    PROVE  /\ BaudBytes(baud) \in Seq(0..255) /\ Len(BaudBytes(baud)) = 4
           /\ BaudOf(BaudBytes(baud)) = baud
<1>1. PICK a, b, c, d :
          /\ a = (baud \div 16777216) % 256 /\ b = (baud \div 65536) % 256
          /\ c = (baud \div 256) % 256 /\ d = baud % 256
  BY SMT
<1>2. /\ a \in 0..255 /\ b \in 0..255 /\ c \in 0..255 /\ d \in 0..255
      /\ ((a * 256 + b) * 256 + c) * 256 + d = baud
  BY <1>1, BaudOfBytes
<1>3. BaudBytes(baud) = <<a, b, c, d>> BY <1>1, SMT DEF BaudBytes
<1>4. <<a, b, c, d>> \in Seq(0..255) BY <1>2, FourElements
<1>5. BaudOf(<<a, b, c, d>>) = baud BY <1>2, SMT DEF BaudOf
<1>6. Len(<<a, b, c, d>>) = 4 OBVIOUS
<1> QED BY <1>3, <1>4, <1>5, <1>6

\* The line after a request that asks for something, and what it is answered.
LEMMA GrantedIs ==
    ASSUME NEW frame, IsRequest(frame), NEW state \in LineStates,
           AsksLine(frame) \/ AsksControl(frame)
    PROVE  /\ Requested(frame, state) \in LineStates
           /\ AnswerValues(frame, Requested(frame, state)) = {Value(frame)}
<1>0. /\ frame \in Seq(0..255) /\ Len(frame) \in {3, 6}
      /\ frame[2] \in {SET_BAUDRATE, SET_DATASIZE, SET_PARITY, SET_STOPSIZE, SET_CONTROL}
      /\ Len(frame) = 6 <=> frame[2] = SET_BAUDRATE
  BY RequestIs
<1>1. PICK after : after = Requested(frame, state) OBVIOUS
<1>2. PICK x : x = frame[3] OBVIOUS
<1>3. CASE frame[2] = SET_BAUDRATE
  <2>1. PICK value \in Seq(0..255) : value = Value(frame) /\ Len(value) = 4
    <3>1. Value(frame) = <<frame[3], frame[4], frame[5], frame[6]>> BY <1>0, <1>3, ValueIs
    <3>2. /\ frame[3] \in 0..255 /\ frame[4] \in 0..255 /\ frame[5] \in 0..255
          /\ frame[6] \in 0..255
      BY <1>0, <1>3, ValueIs
    <3>3. <<frame[3], frame[4], frame[5], frame[6]>> \in Seq(0..255) BY <3>2, FourElements
    <3>4. Len(<<frame[3], frame[4], frame[5], frame[6]>>) = 4 OBVIOUS
    <3> QED BY <3>1, <3>3, <3>4
  <2>2. PICK rate : rate = BaudOf(value) OBVIOUS
  <2>3. rate \in Rates /\ BaudBytes(rate) = value BY <2>1, <2>2, BaudBack
  <2>4. ~AsksControl(frame) /\ SET_CONTROL # SET_BAUDRATE
    <3>1. SET_CONTROL # SET_BAUDRATE BY DEF SET_CONTROL, SET_BAUDRATE
    <3> QED BY <1>3, <3>1, RequestAnswered
  <2>5. rate # 0 /\ after = [state EXCEPT !.baud = rate]
    BY <1>1, <1>3, <2>1, <2>2, <2>4, RequestAnswered
  <2>6. after \in LineStates /\ after.baud = rate BY <2>3, <2>5 DEF LineStates
  <2>7. AnswerValues(frame, after) = {BaudBytes(after.baud)} BY <1>3, RequestAnswered
  <2> QED BY <1>1, <2>1, <2>3, <2>6, <2>7
<1>4. CASE frame[2] # SET_BAUDRATE
  <2>0. Value(frame) = <<x>> BY <1>0, <1>2, <1>4, ValueIs
  <2>1. SUFFICES after \in LineStates /\ AnswerValues(frame, after) = {<<x>>}
    BY <1>1, <2>0
  <2>2. CASE frame[2] = SET_DATASIZE
    <3>1. frame[2] # SET_CONTROL BY <2>2 DEF SET_CONTROL, SET_DATASIZE
    <3>2. x \in 5..8 /\ after = [state EXCEPT !.data_bits = x]
      BY <1>1, <1>2, <2>2, <3>1, RequestAnswered
    <3>3. after \in LineStates /\ after.data_bits = x BY <3>2 DEF LineStates
    <3>4. AnswerValues(frame, after) = {<<after.data_bits>>} BY <2>2, RequestAnswered
    <3> QED BY <3>3, <3>4
  <2>3. CASE frame[2] = SET_PARITY
    <3>1. frame[2] # SET_CONTROL BY <2>3 DEF SET_CONTROL, SET_PARITY
    <3>2. x \in 1..5 /\ after = [state EXCEPT !.parity_type = x - 1]
      BY <1>1, <1>2, <2>3, <3>1, RequestAnswered
    <3>3. x - 1 \in 0..4 /\ (x - 1) + 1 = x BY <3>2, SMT
    <3>4. after \in LineStates /\ after.parity_type = x - 1 BY <3>2, <3>3 DEF LineStates
    <3>5. AnswerValues(frame, after) = {<<after.parity_type + 1>>} BY <2>3, RequestAnswered
    <3> QED BY <3>3, <3>4, <3>5
  <2>4. CASE frame[2] = SET_STOPSIZE
    <3>1. frame[2] # SET_CONTROL BY <2>4 DEF SET_CONTROL, SET_STOPSIZE
    <3>2. x \in 1..3 /\ after = [state EXCEPT !.char_format = cdc_from_rfc_stop[x]]
      BY <1>1, <1>2, <2>4, <3>1, RequestAnswered
    <3>3. /\ cdc_from_rfc_stop[x] \in 0..2
          /\ rfc_stop_from_cdc(cdc_from_rfc_stop[x]) = x
      <4>1. x = 1 \/ x = 2 \/ x = 3 BY <3>2, SMT
      <4> QED BY <4>1, SMT DEF cdc_from_rfc_stop, rfc_stop_from_cdc
    <3>4. after \in LineStates /\ after.char_format = cdc_from_rfc_stop[x]
      BY <3>2, <3>3 DEF LineStates
    <3>5. AnswerValues(frame, after) = {<<rfc_stop_from_cdc(after.char_format)>>}
      BY <2>4, RequestAnswered
    <3> QED BY <3>3, <3>4, <3>5
  <2>5. CASE frame[2] = SET_CONTROL
    <3>0. /\ DTR_ON # DTR_OFF /\ RTS_ON # RTS_OFF
          /\ {DTR_ON, DTR_OFF} \cap {RTS_ON, RTS_OFF} = {}
          /\ \A y \in {DTR_ON, DTR_OFF, RTS_ON, RTS_OFF} :
                y \notin Flow /\ y \notin Break /\ y \notin FlowIn /\ y # REQ_DTR /\ y # REQ_RTS
      BY SMT DEF DTR_ON, DTR_OFF, RTS_ON, RTS_OFF, Flow, Break, FlowIn, REQ_DTR, REQ_RTS
    <3>1. AsksControl(frame) /\ x \in {DTR_ON, DTR_OFF, RTS_ON, RTS_OFF}
      BY <1>2, <2>5, RequestAnswered
    <3>2. after = IF x \in {DTR_ON, DTR_OFF}
                  THEN [state EXCEPT !.dtr = (x = DTR_ON)]
                  ELSE [state EXCEPT !.rts = (x = RTS_ON)]
      BY <1>1, <1>2, <3>1, ControlRequested
    <3>3. AnswerValues(frame, after) = {<<ControlAnswer(x, after)>>}
      BY <1>2, <2>5, RequestAnswered
    <3>4. CASE x \in {DTR_ON, DTR_OFF}
      <4>0. PICK on \in BOOLEAN : on = (x = DTR_ON) OBVIOUS
      <4>1. after = [state EXCEPT !.dtr = on] BY <3>2, <3>4, <4>0
      <4>2. after \in LineStates /\ after.dtr = on BY <4>1 DEF LineStates
      <4>3. x \notin {REQ_RTS, RTS_ON, RTS_OFF} /\ x \in {REQ_DTR, DTR_ON, DTR_OFF} BY <3>0, <3>4
      <4>4. x \notin Flow /\ x \notin Break /\ x \notin FlowIn BY <3>0, <3>1
      <4>5. ControlAnswer(x, after) = IF after.dtr THEN DTR_ON ELSE DTR_OFF
        BY <4>3, <4>4 DEF ControlAnswer
      <4>6. ControlAnswer(x, after) = x BY <3>0, <3>4, <4>0, <4>2, <4>5
      <4> QED BY <3>3, <4>2, <4>6
    <3>5. CASE x \in {RTS_ON, RTS_OFF}
      <4>0. PICK on \in BOOLEAN : on = (x = RTS_ON) OBVIOUS
      <4>1. after = [state EXCEPT !.rts = on] BY <3>0, <3>2, <3>5, <4>0
      <4>2. after \in LineStates /\ after.rts = on BY <4>1 DEF LineStates
      <4>3. x \notin {REQ_DTR, DTR_ON, DTR_OFF} /\ x \in {REQ_RTS, RTS_ON, RTS_OFF} BY <3>0, <3>5
      <4>4. x \notin Flow /\ x \notin Break /\ x \notin FlowIn BY <3>0, <3>1
      <4>5. ControlAnswer(x, after) = IF after.rts THEN RTS_ON ELSE RTS_OFF
        BY <4>3, <4>4 DEF ControlAnswer
      <4>6. ControlAnswer(x, after) = x BY <3>0, <3>5, <4>0, <4>2, <4>5
      <4> QED BY <3>3, <4>2, <4>6
    <3> QED BY <3>1, <3>4, <3>5
  <2> QED BY <1>0, <1>4, <2>2, <2>3, <2>4, <2>5
<1> QED BY <1>3, <1>4

LEMMA AgainBaud ==
    ASSUME NEW value \in Seq(0..255), Len(value) = 4
    PROVE  /\ IsRequest(Again(SET_BAUDRATE, value))
           /\ Again(SET_BAUDRATE, value)[2] = SET_BAUDRATE
           /\ Value(Again(SET_BAUDRATE, value)) = value
<1>1. PICK command \in 0..255 : command = SET_BAUDRATE BY SMT DEF SET_BAUDRATE
<1>2. Len(value) \in {1, 4} OBVIOUS
<1>3. /\ Again(command, value) \in Seq(0..255) /\ Len(Again(command, value)) = Len(value) + 2
      /\ IsComPort(Again(command, value)) /\ Again(command, value)[2] = command
      /\ Again(command, value)[3] = value[1] /\ Value(Again(command, value)) = value
  <2>1. Again(command, value) \in Seq(0..255) BY <1>2, AgainIs
  <2>2. Len(Again(command, value)) = Len(value) + 2 BY <1>2, AgainIs
  <2>3. IsComPort(Again(command, value)) BY <1>2, AgainIs
  <2>4. Again(command, value)[2] = command BY <1>2, AgainIs
  <2>5. Again(command, value)[3] = value[1] BY <1>2, AgainIs
  <2>6. Value(Again(command, value)) = value BY <1>2, AgainIs
  <2> QED BY <2>1, <2>2, <2>3, <2>4, <2>5, <2>6
<1>4. Len(Again(command, value)) = 6 /\ 6 > 2
  <2>1. 4 + 2 = 6 /\ 6 > 2 BY SMT
  <2> QED BY <1>3, <2>1
<1> QED BY <1>1, <1>3, <1>4 DEF IsRequest, IsComPort

LEMMA AgainOne ==
    ASSUME NEW command \in {SET_DATASIZE, SET_PARITY, SET_STOPSIZE}, NEW x \in 0..255
    PROVE  /\ IsRequest(Again(command, <<x>>))
           /\ Again(command, <<x>>)[2] = command
           /\ Again(command, <<x>>)[3] = x
<1>1. PICK byte \in 0..255 : byte = command BY SMT DEF SET_DATASIZE, SET_PARITY, SET_STOPSIZE
<1>2. PICK value \in Seq(0..255) : value = <<x>> /\ Len(value) = 1 /\ value[1] = x
  <2>1. <<x>> \in Seq(0..255) BY OneElement
  <2>2. Len(<<x>>) = 1 /\ <<x>>[1] = x OBVIOUS
  <2> QED BY <2>1, <2>2
<1>3. Len(value) \in {1, 4} BY <1>2
<1>4. /\ Again(byte, value) \in Seq(0..255) /\ Len(Again(byte, value)) = Len(value) + 2
      /\ IsComPort(Again(byte, value)) /\ Again(byte, value)[2] = byte
      /\ Again(byte, value)[3] = value[1] /\ Value(Again(byte, value)) = value
  <2>1. Again(byte, value) \in Seq(0..255) BY <1>3, AgainIs
  <2>2. Len(Again(byte, value)) = Len(value) + 2 BY <1>3, AgainIs
  <2>3. IsComPort(Again(byte, value)) BY <1>3, AgainIs
  <2>4. Again(byte, value)[2] = byte BY <1>3, AgainIs
  <2>5. Again(byte, value)[3] = value[1] BY <1>3, AgainIs
  <2>6. Value(Again(byte, value)) = value BY <1>3, AgainIs
  <2> QED BY <2>1, <2>2, <2>3, <2>4, <2>5, <2>6
<1>5. Len(Again(byte, value)) = 3 /\ 3 > 2
  <2>1. 1 + 2 = 3 /\ 3 > 2 BY SMT
  <2> QED BY <1>2, <1>4, <2>1
<1> QED BY <1>1, <1>2, <1>4, <1>5 DEF IsRequest, IsComPort

\* Any state of the line is one to ask for: the value it is answered with asks for it.
LEMMA AnswerAsks ==
    ASSUME NEW frame, IsRequest(frame), frame[2] # SET_CONTROL, NEW state \in LineStates,
           NEW value \in AnswerValues(frame, state),
           NEW again, again = Again(frame[2], value)
    PROVE  AsksLine(again) /\ Requested(again, state) = state
<1>0. /\ frame[2] \in {SET_BAUDRATE, SET_DATASIZE, SET_PARITY, SET_STOPSIZE}
      /\ SET_BAUDRATE \in 0..255 /\ SET_DATASIZE \in 0..255 /\ SET_PARITY \in 0..255
      /\ SET_STOPSIZE \in 0..255
      /\ SET_BAUDRATE \notin {SET_DATASIZE, SET_PARITY, SET_STOPSIZE, SET_CONTROL}
  <2>1. frame[2] \in {SET_BAUDRATE, SET_DATASIZE, SET_PARITY, SET_STOPSIZE, SET_CONTROL}
    BY RequestIs
  <2>2. /\ SET_BAUDRATE \in 0..255 /\ SET_DATASIZE \in 0..255 /\ SET_PARITY \in 0..255
        /\ SET_STOPSIZE \in 0..255
        /\ SET_BAUDRATE \notin {SET_DATASIZE, SET_PARITY, SET_STOPSIZE, SET_CONTROL}
    BY SMT DEF SET_BAUDRATE, SET_DATASIZE, SET_PARITY, SET_STOPSIZE, SET_CONTROL
  <2> QED BY <2>1, <2>2
<1>1. PICK command \in 0..255 : command = frame[2] BY <1>0
<1>7. again = Again(command, value) BY <1>1
<1>2. CASE command = SET_BAUDRATE
  <2>1. PICK baud \in Rates \ {0} : baud = state.baud BY DEF LineStates
  <2>2. value = BaudBytes(baud)
    <3>1. AnswerValues(frame, state) = {BaudBytes(state.baud)} BY <1>1, <1>2, RequestAnswered
    <3> QED BY <3>1, <2>1
  <2>3. value \in Seq(0..255) /\ Len(value) = 4 /\ BaudOf(value) = baud BY <2>2, BytesBack
  <2>6. IsRequest(again) /\ again[2] = command /\ Value(again) = value
    BY <1>2, <1>7, <2>3, AgainBaud
  <2>7. /\ Requested(again, state) = [state EXCEPT !.baud = BaudOf(Value(again))]
        /\ AsksLine(again) <=> BaudOf(Value(again)) # 0
    BY <1>2, <2>6, RequestAnswered
  <2>8. [state EXCEPT !.baud = baud] = state BY <2>1 DEF LineStates
  <2> QED BY <2>1, <2>3, <2>6, <2>7, <2>8
<1>3. ASSUME NEW x \in 0..255, value = <<x>>, command # SET_BAUDRATE
      PROVE  IsRequest(again) /\ again[2] = command /\ again[3] = x
  <2>1. command \in {SET_DATASIZE, SET_PARITY, SET_STOPSIZE} BY <1>0, <1>1, <1>3
  <2>2. again = Again(command, <<x>>) BY <1>3, <1>7
  <2>3. /\ IsRequest(Again(command, <<x>>)) /\ Again(command, <<x>>)[2] = command
        /\ Again(command, <<x>>)[3] = x
    BY <2>1, AgainOne
  <2> QED BY <2>2, <2>3
<1>4. CASE command = SET_DATASIZE
  <2>1. PICK x \in 5..8 : x = state.data_bits BY DEF LineStates
  <2>2. x \in 0..255 BY <2>1, SMT
  <2>3. value = <<x>>
    <3>1. AnswerValues(frame, state) = {<<state.data_bits>>} BY <1>1, <1>4, RequestAnswered
    <3> QED BY <3>1, <2>1
  <2>4. command # SET_BAUDRATE BY <1>0, <1>4
  <2>5. IsRequest(again) /\ again[2] = command /\ again[3] = x BY <1>3, <2>2, <2>3, <2>4
  <2>6. /\ Requested(again, state) = [state EXCEPT !.data_bits = again[3]]
        /\ AsksLine(again) <=> again[3] \in 5..8
    BY <1>4, <2>5, RequestAnswered
  <2>7. [state EXCEPT !.data_bits = x] = state BY <2>1 DEF LineStates
  <2> QED BY <2>1, <2>5, <2>6, <2>7
<1>5. CASE command = SET_PARITY
  <2>1. PICK y \in 0..4 : y = state.parity_type BY DEF LineStates
  <2>2. y + 1 \in 0..255 /\ y + 1 \in 1..5 /\ (y + 1) - 1 = y BY SMT
  <2>3. value = <<y + 1>>
    <3>1. AnswerValues(frame, state) = {<<state.parity_type + 1>>} BY <1>1, <1>5, RequestAnswered
    <3> QED BY <3>1, <2>1
  <2>4. command # SET_BAUDRATE BY <1>0, <1>5
  <2>5. IsRequest(again) /\ again[2] = command /\ again[3] = y + 1 BY <1>3, <2>2, <2>3, <2>4
  <2>6. /\ Requested(again, state) = [state EXCEPT !.parity_type = again[3] - 1]
        /\ AsksLine(again) <=> again[3] \in 1..5
    BY <1>5, <2>5, RequestAnswered
  <2>7. [state EXCEPT !.parity_type = y] = state BY <2>1 DEF LineStates
  <2> QED BY <2>2, <2>5, <2>6, <2>7
<1>6. CASE command = SET_STOPSIZE
  <2>1. PICK y \in 0..2 : y = state.char_format BY DEF LineStates
  <2>2. PICK x : x = rfc_stop_from_cdc(y) OBVIOUS
  <2>3. x \in 0..255 /\ x \in 1..3 /\ cdc_from_rfc_stop[x] = y
    <3>1. y = 0 \/ y = 1 \/ y = 2 BY <2>1, SMT
    <3> QED BY <2>2, <3>1, SMT DEF cdc_from_rfc_stop, rfc_stop_from_cdc
  <2>4. value = <<x>>
    <3>1. AnswerValues(frame, state) = {<<rfc_stop_from_cdc(state.char_format)>>} BY <1>1, <1>6, RequestAnswered
    <3> QED BY <3>1, <2>1, <2>2
  <2>5. command # SET_BAUDRATE BY <1>0, <1>6
  <2>6. IsRequest(again) /\ again[2] = command /\ again[3] = x BY <1>3, <2>3, <2>4, <2>5
  <2>7. /\ Requested(again, state) = [state EXCEPT !.char_format = cdc_from_rfc_stop[again[3]]]
        /\ AsksLine(again) <=> again[3] \in 1..3
    BY <1>6, <2>6, RequestAnswered
  <2>8. [state EXCEPT !.char_format = y] = state BY <2>1 DEF LineStates
  <2> QED BY <2>3, <2>6, <2>7, <2>8
<1> QED BY <1>0, <1>1, <1>2, <1>4, <1>5, <1>6
==============================================================================
