-------------------------- MODULE ZoneParserProofs --------------------------
(***************************************************************************)
(* Proofs about ZoneParser: how many parsers and files are open, for any   *)
(* zones, any files, which may include each other and themselves, any      *)
(* ranges of $GENERATE and any depth.                                      *)
(***************************************************************************)
EXTENDS ZoneParser, FiniteSetTheorems, WellFoundedInduction, TLAPS

-----------------------------------------------------------------------------
(* The inductive invariant.                                                *)

IsSeq(s) == s \in Seq(Range(s))

\* The fields of a parser that say where it stands.
Parser(p) == {"r", "includeDepth", "generateDisallowed"} \subseteq DOMAIN p

\* Two values of one parser, which differ in what it has read.
Like(p, q) ==
  /\ DOMAIN p = DOMAIN q /\ (p.r <=> q.r) /\ p.includeDepth = q.includeDepth
  /\ p.generateDisallowed <=> q.generateDisallowed

\* A parser with a file of its own is one deeper than the parser it is the sub of.
Nested(s) ==
  /\ s[1].includeDepth = 0 /\ ~s[1].r
  /\ \A i \in 1..(Len(s) - 1) :
       s[i + 1].includeDepth = s[i].includeDepth + (IF s[i + 1].r THEN 1 ELSE 0)

\* $INCLUDE makes parsers up to the limit; $GENERATE makes one between two of them.
Limited(s) ==
  \A i \in 1..Len(s) :
    /\ s[i].includeDepth \in 0..maxIncludeDepth
    /\ i <= 2 * s[i].includeDepth + 1 + (IF s[i].generateDisallowed THEN 1 ELSE 0)

Stack ==
  /\ IsSeq(stack) /\ Len(stack) \in 1..(2 * maxIncludeDepth + 2)
  /\ \A i \in 1..Len(stack) : Parser(stack[i])

\* While there is no error the files of the parsers are open and no others; after
\* an error no parser runs and no file is open.
Files ==
  IF parseErr = "nil"
  THEN /\ Nested(stack) /\ Limited(stack) /\ open = stack[Len(stack)].includeDepth
       /\ status = "stopped" => Len(stack) = 1
  ELSE status = "stopped" /\ open = 0

IInv == Stack /\ Files

-----------------------------------------------------------------------------
(* Sequences and numbers.                                                  *)

\* A set of numbers that is not empty has a least one.
LEMMA Least ==
  ASSUME NEW T, T \subseteq Nat, T # {}
  PROVE  \E n \in T : \A m \in T : n <= m
<1>1. PICK n \in T : \A m \in T : <<m, n>> \notin OpToRel(<, Nat)
  BY WFMin, NatLessThanWellFounded
<1>2. \A m \in T : ~ (m < n)
  BY <1>1 DEF OpToRel
<1> QED BY <1>2

\* Functions on 1..n are sequences.
LEMMA FunctionIsSeq ==
  ASSUME NEW n \in Nat, NEW s, s = [i \in 1..n |-> s[i]]
  PROVE  IsSeq(s) /\ Len(s) = n
<1>1. DOMAIN s = 1..n
  OBVIOUS
<1>2. s \in [1..n -> Range(s)]
  BY <1>1 DEF Range
<1>3. s \in Seq(Range(s))
  BY <1>2
<1> QED BY <1>1, <1>3 DEF IsSeq

\* A sub-parser is put on top.
LEMMA AppendSub ==
  ASSUME NEW s, IsSeq(s), NEW e
  PROVE  /\ IsSeq(Append(s, e))
         /\ Len(s) \in Nat /\ Len(Append(s, e)) = Len(s) + 1
         /\ \A i \in 1..Len(s) : Append(s, e)[i] = s[i]
         /\ Append(s, e)[Len(s) + 1] = e
<1> DEFINE U == Range(s) \cup {e}
           a == Append(s, e)
<1>1. s \in Seq(U)
  BY DEF IsSeq, Range
<1>2. a \in Seq(U) /\ Len(a) = Len(s) + 1 /\ Len(s) \in Nat
  BY <1>1
<1>3. (\A i \in 1..Len(s) : a[i] = s[i]) /\ a[Len(s) + 1] = e
  BY <1>1
<1>4. a \in Seq(Range(a))
  <2> HIDE DEF a
  <2> QED BY <1>2 DEF Range
<1> QED BY <1>2, <1>3, <1>4 DEF IsSeq

\* The parser at the top is taken off.
LEMMA FrontParsers ==
  ASSUME NEW s, IsSeq(s), Len(s) > 1
  PROVE  /\ IsSeq(Front(s)) /\ Len(s) \in Nat /\ Len(Front(s)) = Len(s) - 1
         /\ \A i \in 1..(Len(s) - 1) : Front(s)[i] = s[i]
<1> DEFINE a == Front(s)
<1>1. s \in Seq(Range(s)) /\ Len(s) \in Nat
  BY DEF IsSeq
<1>2. a = [i \in 1..(Len(s) - 1) |-> s[i]]
  BY <1>1 DEF Front
<1>3. a = [i \in 1..(Len(s) - 1) |-> a[i]] /\ Len(s) - 1 \in Nat
  BY <1>1, <1>2
<1>4. IsSeq(a) /\ Len(a) = Len(s) - 1
  <2> HIDE DEF a
  <2> QED BY <1>3, FunctionIsSeq
<1> QED BY <1>1, <1>2, <1>4

\* The files of nested parsers are as many as the last one is deep.
LEMMA OpenFiles ==
  ASSUME NEW s, Len(s) \in Nat, Len(s) >= 1, Nested(s), Limited(s), maxIncludeDepth \in Nat
  PROVE  Cardinality({i \in 1..Len(s) : s[i].r}) = s[Len(s)].includeDepth
<1> DEFINE F(k) == {i \in 1..k : s[i].r}
           d(k) == s[k].includeDepth
           Bad == {k \in 1..Len(s) : Cardinality(F(k)) # d(k)}
<1>1. ASSUME Bad # {} PROVE FALSE
  <2>1. PICK k \in Bad : \A m \in Bad : k <= m
    <3>1. Bad \subseteq Nat
      OBVIOUS
    <3> HIDE DEF Bad
    <3> QED BY <1>1, <3>1, Least
  <2>2. k \in 1..Len(s) /\ Cardinality(F(k)) # d(k)
    BY <2>1
  <2>3. CASE k = 1
    <3>1. F(1) = {}
      BY DEF Nested
    <3> QED BY <2>2, <2>3, <3>1, FS_EmptySet DEF Nested
  <2>4. CASE k # 1
    <3>1. k - 1 \in 1..Len(s) /\ k - 1 \in 1..(Len(s) - 1) /\ k - 1 + 1 = k /\ ~(k <= k - 1)
      BY <2>2, <2>4
    <3>2. Cardinality(F(k - 1)) = d(k - 1)
      BY <2>1, <3>1
    <3>3. d(k) = d(k - 1) + (IF s[k].r THEN 1 ELSE 0)
      BY <3>1 DEF Nested
    <3>4. IsFiniteSet(F(k - 1)) /\ k \notin F(k - 1)
      <4>1. IsFiniteSet(1..(k - 1))
        BY <2>2, FS_Interval
      <4>2. F(k - 1) \in SUBSET (1..(k - 1))
        OBVIOUS
      <4>3. k \notin 1..(k - 1)
        BY <2>2
      <4> QED BY <4>1, <4>2, <4>3, FS_Subset
    <3>5. F(k) = IF s[k].r THEN F(k - 1) \cup {k} ELSE F(k - 1)
      <4>1. \A i : i \in 1..k <=> i \in 1..(k - 1) \/ i = k
        BY <2>2
      <4> QED BY <4>1
    <3>6. d(k - 1) \in Nat
      BY <3>1 DEF Limited
    <3>7. Cardinality(F(k)) = d(k)
      <4>1. CASE s[k].r
        <5>1. F(k) = F(k - 1) \cup {k}
          BY <3>5, <4>1
        <5>2. Cardinality(F(k - 1) \cup {k}) = Cardinality(F(k - 1)) + 1
          BY <3>4, FS_AddElement
        <5> QED BY <3>2, <3>3, <4>1, <5>1, <5>2
      <4>2. CASE ~s[k].r
        <5>1. F(k) = F(k - 1)
          BY <3>5, <4>2
        <5>2. d(k) = d(k - 1)
          BY <3>3, <3>6, <4>2
        <5> QED BY <3>2, <5>1, <5>2
      <4> QED BY <4>1, <4>2
    <3> QED BY <2>2, <3>7
  <2> QED BY <2>3, <2>4
<1>2. Len(s) \in 1..Len(s)
  OBVIOUS
<1> QED BY <1>1, <1>2

-----------------------------------------------------------------------------
(* What a step of the parser at the top may do.                            *)

\* What a parser reads changes none of the fields that the invariant is about.
LEMMA ReadingIsLike ==
  ASSUME NEW p, Parser(p), NEW x, NEW y
  PROVE  /\ Parser([p EXCEPT !.zl = x]) /\ Like([p EXCEPT !.zl = x], p)
         /\ Parser([p EXCEPT !.st = x]) /\ Like([p EXCEPT !.st = x], p)
         /\ Parser([p EXCEPT !.defttl = x]) /\ Like([p EXCEPT !.defttl = x], p)
         /\ Parser([p EXCEPT !.origin = x]) /\ Like([p EXCEPT !.origin = x], p)
         /\ Parser([p EXCEPT !.h.Name = x]) /\ Like([p EXCEPT !.h.Name = x], p)
         /\ Parser([p EXCEPT !.h.Class = x]) /\ Like([p EXCEPT !.h.Class = x], p)
         /\ Parser([p EXCEPT !.h.Rrtype = x]) /\ Like([p EXCEPT !.h.Rrtype = x], p)
         /\ Parser([p EXCEPT !.h.Ttl = x, !.h.Class = y])
         /\ Like([p EXCEPT !.h.Ttl = x, !.h.Class = y], p)
         /\ Parser([p EXCEPT !.h.Ttl = x, !.defttl = y])
         /\ Like([p EXCEPT !.h.Ttl = x, !.defttl = y], p)
  BY Zenon DEF Parser, Like

\* The parser that $INCLUDE or $GENERATE makes.
Sub(sub) ==
  /\ Parser(sub)
  /\ \/ /\ sub.r /\ ~sub.generateDisallowed /\ ~TooDeep(top)
        /\ sub.includeDepth = top.includeDepth + 1
     \/ /\ ~sub.r /\ sub.generateDisallowed /\ ~top.generateDisallowed
        /\ sub.includeDepth = top.includeDepth

\* The loop goes on, returns a record, begins a sub-parser, stops with an error, or
\* the end of the input is reached.
Moves ==
  \/ \E p : /\ Parser(p) /\ Like(p, top)
           /\ \/ \E st : Goes(p, st)
              \/ \E rdata : Returns(p, rdata)
              \/ \E sub : Sub(sub) /\ Enters(p, sub)
              \/ \E e : (e # "nil" \/ Len(stack) = 1) /\ Stops(p, e)
  \/ /\ Len(stack) # 1 /\ stack' = Front(stack)
     /\ open' = open - (IF top.r THEN 1 ELSE 0)
     /\ UNCHANGED <<status, parseErr>>

LEMMA LikeLike ==
  ASSUME NEW p, NEW q, NEW s, Like(p, q), Like(q, s)
  PROVE  Like(p, s)
  BY DEF Like

LEMMA AfterIsLike ==
  ASSUME Parser(top), NEW t
  PROVE  Parser(After(t)) /\ Like(After(t), top)
  BY ReadingIsLike DEF After

LEMMA ErrorMoves ==
  ASSUME NEW p, Parser(p), Like(p, top), setParseError(p)
  PROVE  Moves
  BY DEF Moves, setParseError

LEMMA GoMoves ==
  ASSUME NEW p, Parser(p), Like(p, top), NEW st, Goes(p, st)
  PROVE  Moves
  BY DEF Moves

LEMMA OwnerDirMoves ==
  ASSUME Parser(top), NEW t, ExpectOwnerDir(t)
  PROVE  Moves
<1> DEFINE p == [After(t) EXCEPT !.h.Ttl = IF top.defttl.set THEN top.defttl.ttl ELSE @,
                                 !.h.Class = "IN"]
<1>1. Parser(p) /\ Like(p, top)
  <2> DEFINE q == After(t)
             x == IF top.defttl.set THEN top.defttl.ttl ELSE q.h.Ttl
             c == "IN"
  <2>1. p = [q EXCEPT !.h.Ttl = x, !.h.Class = c]
    OBVIOUS
  <2>2. Parser(q) /\ Like(q, top)
    BY AfterIsLike
  <2> HIDE DEF q, x, p, c
  <2>3. Parser(p) /\ Like(p, q)
    BY <2>1, <2>2, ReadingIsLike
  <2> QED BY <2>2, <2>3, LikeLike
<1> DEFINE Q(q) == Parser(q) /\ Like(q, top)
<1>2. \A x : Q([p EXCEPT !.h.Name = x]) /\ Q([p EXCEPT !.h.Rrtype = x]) /\ Q([p EXCEPT !.h.Class = x])
             /\ Q(WithTtl(p, x))
  <2> HIDE DEF p
  <2> QED BY <1>1, ReadingIsLike, LikeLike DEF WithTtl
<1>3. \/ setParseError(p)
      \/ \E st : Goes(p, st)
      \/ \E x, st : \/ Goes([p EXCEPT !.h.Name = x], st)
                     \/ Goes([p EXCEPT !.h.Rrtype = x], st)
                     \/ Goes([p EXCEPT !.h.Class = x], st)
                     \/ Goes(WithTtl(p, x), st)
  BY DEF ExpectOwnerDir
<1> QED BY <1>1, <1>2, <1>3, ErrorMoves, GoMoves

LEMMA BlankMoves ==
  ASSUME Parser(top), NEW t, ExpectBlank(t)
  PROVE  Moves
<1>1. setParseError(After(t)) \/ \E st : Goes(After(t), st)
  BY DEF ExpectBlank
<1> QED BY <1>1, AfterIsLike, ErrorMoves, GoMoves

LEMMA FieldMoves ==
  ASSUME Parser(top), NEW t, ExpectField(t)
  PROVE  Moves
<1> DEFINE p == After(t)
           Q(q) == Parser(q) /\ Like(q, top)
<1>1. Q(p)
  BY AfterIsLike
<1>2. \A x : Q([p EXCEPT !.h.Rrtype = x]) /\ Q([p EXCEPT !.h.Class = x]) /\ Q(WithTtl(p, x))
  <2> HIDE DEF p
  <2> QED BY <1>1, ReadingIsLike, LikeLike DEF WithTtl
<1>3. \/ setParseError(p)
      \/ \E x, st : \/ Goes([p EXCEPT !.h.Rrtype = x], st)
                     \/ Goes([p EXCEPT !.h.Class = x], st)
                     \/ Goes(WithTtl(p, x), st)
  BY DEF ExpectField
<1> QED BY <1>1, <1>2, <1>3, ErrorMoves, GoMoves

\* The token after the one that was read moves the lexer further.
LEMMA FurtherIsLike ==
  ASSUME Parser(top), NEW t, NEW zl
  PROVE  LET p == [After(t) EXCEPT !.zl = zl] IN Parser(p) /\ Like(p, top)
<1> DEFINE q == After(t)
<1>1. Parser(q) /\ Like(q, top)
  BY AfterIsLike
<1> HIDE DEF q
<1>2. Parser([q EXCEPT !.zl = zl]) /\ Like([q EXCEPT !.zl = zl], top)
  BY <1>1, ReadingIsLike, LikeLike
<1> QED BY <1>2 DEF q

LEMMA DirectiveMoves ==
  ASSUME Parser(top), NEW t, ExpectDirTTL(t) \/ ExpectDirOrigin(t)
  PROVE  Moves
<1> DEFINE Q(q) == Parser(q) /\ Like(q, top)
           p(zl) == [After(t) EXCEPT !.zl = zl]
<1>1. Q(After(t)) /\ \A zl : Q(p(zl))
  BY AfterIsLike, FurtherIsLike
<1>2. \/ setParseError(After(t))
      \/ \E zl : setParseError(p(zl))
      \/ \E zl, x, st : Goes([p(zl) EXCEPT !.defttl = x], st) \/ Goes([p(zl) EXCEPT !.origin = x], st)
  BY DEF ExpectDirTTL, ExpectDirOrigin
<1>3. ASSUME NEW zl, NEW x
      PROVE  Q([p(zl) EXCEPT !.defttl = x]) /\ Q([p(zl) EXCEPT !.origin = x])
  <2> DEFINE q == p(zl)
  <2>1. Q(q)
    BY <1>1
  <2> HIDE DEF q
  <2>2. Q([q EXCEPT !.defttl = x]) /\ Q([q EXCEPT !.origin = x])
    BY <2>1, ReadingIsLike, LikeLike
  <2> QED BY <2>2 DEF q
<1> QED BY <1>1, <1>2, <1>3, ErrorMoves, GoMoves

LEMMA IncludeMoves ==
  ASSUME Parser(top), NEW t, ExpectDirInclude(t)
  PROVE  Moves
<1> DEFINE p(zl) == [After(t) EXCEPT !.zl = zl]
           sub(text, origin) ==
             [NewZoneParser(text, origin) EXCEPT
                !.defttl = top.defttl, !.includeDepth = top.includeDepth + 1,
                !.r = TRUE, !.includeAllowed = TRUE]
<1>1. /\ Parser(After(t)) /\ Like(After(t), top)
      /\ \A zl : Parser(p(zl)) /\ Like(p(zl), top)
  BY AfterIsLike, FurtherIsLike
<1>2. \/ setParseError(After(t))
      \/ \E zl : setParseError(p(zl))
      \/ \E zl, text, origin : ~TooDeep(top) /\ Enters(p(zl), sub(text, origin))
  BY DEF ExpectDirInclude
<1>3. ASSUME ~TooDeep(top), NEW text, NEW origin PROVE Sub(sub(text, origin))
  <2> DEFINE s == sub(text, origin)
             d == top.includeDepth + 1
  <2>1. Parser(s) /\ s.includeDepth = d /\ s.r /\ ~s.generateDisallowed
    BY Zenon DEF NewZoneParser, Parser
  <2> HIDE DEF sub
  <2> QED BY <1>3, <2>1 DEF Sub
<1>4. ASSUME NEW zl, NEW text, NEW origin, ~TooDeep(top), Enters(p(zl), sub(text, origin))
      PROVE  Moves
  <2> HIDE DEF p, sub
  <2> QED BY <1>1, <1>3, <1>4 DEF Moves
<1> QED BY <1>1, <1>2, <1>4, ErrorMoves

LEMMA GenerateMoves ==
  ASSUME Parser(top), NEW t, ExpectDirGenerate(t)
  PROVE  Moves
<1> DEFINE p(zl) == [After(t) EXCEPT !.zl = zl]
           sub(text) ==
             [NewZoneParser(text, top.origin) EXCEPT
                !.defttl = ttlState(defaultTtl, FALSE), !.includeDepth = top.includeDepth,
                !.includeAllowed = top.includeAllowed, !.generateDisallowed = TRUE]
<1>1. /\ Parser(After(t)) /\ Like(After(t), top)
      /\ \A zl : Parser(p(zl)) /\ Like(p(zl), top)
  BY AfterIsLike, FurtherIsLike
<1>2. \/ setParseError(After(t))
      \/ \E zl : setParseError(p(zl))
      \/ \E zl, text : ~top.generateDisallowed /\ Enters(p(zl), sub(text))
  BY DEF ExpectDirGenerate
<1>3. ASSUME ~top.generateDisallowed, NEW text PROVE Sub(sub(text))
  <2> DEFINE s == sub(text)
             d == top.includeDepth
  <2>1. Parser(s) /\ s.includeDepth = d /\ ~s.r /\ s.generateDisallowed
    BY Zenon DEF NewZoneParser, Parser
  <2> HIDE DEF sub
  <2> QED BY <1>3, <2>1 DEF Sub
<1>4. ASSUME NEW zl, NEW text, ~top.generateDisallowed, Enters(p(zl), sub(text))
      PROVE  Moves
  <2> HIDE DEF p, sub
  <2> QED BY <1>1, <1>3, <1>4 DEF Moves
<1> QED BY <1>1, <1>2, <1>4, ErrorMoves

LEMMA RdataMoves ==
  ASSUME Parser(top), NEW t, ExpectRdata(t)
  PROVE  Moves
<1> DEFINE p(zl) == [After(t) EXCEPT !.zl = zl]
           q(zl, x) == [p(zl) EXCEPT !.zl = x]
<1>1. \A zl : Parser(p(zl)) /\ Like(p(zl), top)
  BY FurtherIsLike
<1>2. \A zl, x : Parser(q(zl, x)) /\ Like(q(zl, x), top)
  <2> HIDE DEF p
  <2> QED BY <1>1, ReadingIsLike, LikeLike
<1>3. \/ \E zl : setParseError(p(zl))
      \/ \E zl, x : setParseError(q(zl, x))
      \/ \E zl, x, rdata : Returns(q(zl, x), rdata)
  BY Zenon DEF ExpectRdata
<1>4. ASSUME NEW zl, NEW x, NEW rdata, Returns(q(zl, x), rdata) PROVE Moves
  <2> HIDE DEF q
  <2> QED BY <1>2, <1>4 DEF Moves
<1> QED BY <1>1, <1>2, <1>3, <1>4, ErrorMoves

LEMMA InputMoves ==
  ASSUME Parser(top), NEW t, LexerError(t) \/ EndOfInput(t)
  PROVE  Moves
<1>1. Parser(After(t)) /\ Like(After(t), top)
  BY AfterIsLike
<1>2. CASE LexerError(t)
  BY <1>1, <1>2, ErrorMoves DEF LexerError
<1>3. CASE EndOfInput(t)
  <2>1. \/ Stops(After(t), "read")
        \/ Len(stack) = 1 /\ Stops(After(t), "nil")
        \/ /\ Len(stack) # 1 /\ stack' = Front(stack)
           /\ open' = open - (IF top.r THEN 1 ELSE 0)
           /\ UNCHANGED <<status, parseErr>>
    BY <1>3 DEF EndOfInput
  <2> QED BY <1>1, <2>1 DEF Moves
<1> QED BY <1>2, <1>3

\* Every step of a running parser is one of these.
LEMMA RunningMoves ==
  ASSUME Parser(top), NEW t,
         \/ LexerError(t) \/ EndOfInput(t)
         \/ ExpectOwnerDir(t) \/ ExpectBlank(t) \/ ExpectField(t)
         \/ ExpectDirTTL(t) \/ ExpectDirOrigin(t) \/ ExpectDirInclude(t) \/ ExpectDirGenerate(t)
         \/ ExpectRdata(t)
  PROVE  Moves
  BY InputMoves, OwnerDirMoves, BlankMoves, FieldMoves, DirectiveMoves, IncludeMoves,
     GenerateMoves, RdataMoves

-----------------------------------------------------------------------------
(* The invariant is kept.                                                  *)

\* The parser at the top is replaced by one that has read on.
LEMMA KeepKeeps ==
  ASSUME Stack, NEW p, Parser(p), Like(p, top), NEW s, s = Keep(p)
  PROVE  /\ IsSeq(s) /\ Len(s) = Len(stack) /\ Len(s) \in Nat /\ Len(s) >= 1
         /\ \A i \in 1..Len(s) : Parser(s[i]) /\ Like(s[i], stack[i])
<1>1. IsSeq(stack) /\ Len(stack) \in Nat /\ Len(stack) >= 1
  BY ZoneParserAssumption DEF Stack
<1>2. /\ IsSeq(s) /\ Len(s) = Len(stack)
      /\ s[Len(stack)] = p /\ \A i \in 1..(Len(stack) - 1) : s[i] = stack[i]
  <2> DEFINE n == Len(stack)
  <2>1. DOMAIN stack = 1..n /\ n \in 1..n /\ \A i \in 1..(n - 1) : i \in 1..n /\ i # n
    BY <1>1 DEF IsSeq
  <2>2. s = [stack EXCEPT ![n] = p]
    BY DEF Keep
  <2>3. s = [i \in 1..n |-> IF i = n THEN p ELSE stack[i]]
    <3> HIDE DEF n
    <3> QED BY <2>1, <2>2
  <2>4. s[n] = p /\ (\A i \in 1..(n - 1) : s[i] = stack[i]) /\ s = [i \in 1..n |-> s[i]]
    <3> HIDE DEF n
    <3> QED BY <2>1, <2>3
  <2>5. IsSeq(s) /\ Len(s) = n
    <3> HIDE DEF n
    <3>1. n \in Nat
      BY <1>1 DEF n
    <3> QED BY <2>4, <3>1, FunctionIsSeq
  <2> QED BY <2>4, <2>5
<1>3. ASSUME NEW i \in 1..Len(stack) PROVE Parser(s[i]) /\ Like(s[i], stack[i])
  <2>1. CASE i = Len(stack)
    BY <1>2, <2>1 DEF top, Last
  <2>2. CASE i # Len(stack)
    <3>1. i \in 1..(Len(stack) - 1)
      BY <1>1, <2>2
    <3>2. s[i] = stack[i] /\ Parser(stack[i])
      BY <1>2, <3>1 DEF Stack
    <3> QED BY <3>2 DEF Like
  <2> QED BY <2>1, <2>2
<1> QED BY <1>1, <1>2, <1>3

\* Such a replacement changes neither the nesting nor the limits.
LEMMA LikeNested ==
  ASSUME NEW s, NEW u, Len(s) \in Nat, Len(s) >= 1, Len(u) = Len(s),
         \A i \in 1..Len(s) : Like(u[i], s[i]), Nested(s), Limited(s)
  PROVE  Nested(u) /\ Limited(u) /\ u[Len(u)].includeDepth = s[Len(s)].includeDepth
<1>1. 1 \in 1..Len(s) /\ Len(s) \in 1..Len(s)
      /\ \A i \in 1..(Len(s) - 1) : i \in 1..Len(s) /\ i + 1 \in 1..Len(s)
  OBVIOUS
<1>2. \A i \in 1..Len(s) : /\ u[i].includeDepth = s[i].includeDepth /\ (u[i].r <=> s[i].r)
                           /\ (u[i].generateDisallowed <=> s[i].generateDisallowed)
  BY DEF Like
<1>3. Nested(u)
  BY <1>1, <1>2 DEF Nested
<1>4. Limited(u)
  BY <1>2 DEF Limited
<1> QED BY <1>1, <1>2, <1>3, <1>4

\* The loop goes on or returns a record.
LEMMA GoesStep ==
  ASSUME IInv, status = "running", NEW p, Parser(p), Like(p, top), NEW st,
         stack' = Keep([p EXCEPT !.st = st]), open' = open, parseErr' = parseErr,
         status' \in {"running", "idle"}
  PROVE  IInv'
<1> DEFINE q == [p EXCEPT !.st = st]
<1>1. Parser(q) /\ Like(q, top)
  BY ReadingIsLike, LikeLike
<1> HIDE DEF q
<1>2. stack' = Keep(q)
  BY DEF q
<1>3. /\ IsSeq(stack') /\ Len(stack') = Len(stack) /\ Len(stack) \in Nat /\ Len(stack) >= 1
      /\ \A i \in 1..Len(stack) : Parser(stack'[i]) /\ Like(stack'[i], stack[i])
  BY <1>1, <1>2, KeepKeeps DEF IInv
<1>4. Stack'
  BY <1>3 DEF IInv, Stack
<1>5. /\ parseErr = "nil" /\ Nested(stack) /\ Limited(stack)
      /\ open = stack[Len(stack)].includeDepth
  BY DEF IInv, Files
<1>6. /\ Nested(stack') /\ Limited(stack')
      /\ stack'[Len(stack')].includeDepth = stack[Len(stack)].includeDepth
  BY <1>3, <1>5, LikeNested
<1>7. Files'
  BY <1>5, <1>6 DEF Files
<1> QED BY <1>4, <1>7 DEF IInv

\* $INCLUDE or $GENERATE puts a parser on top.
LEMMA EntersStep ==
  ASSUME IInv, status = "running", NEW p, Parser(p), Like(p, top), NEW sub, Sub(sub),
         Enters(p, sub)
  PROVE  IInv'
<1> DEFINE q == [p EXCEPT !.st = "zExpectOwnerDir"]
           s == Keep(q)
           n == Len(stack)
           D == maxIncludeDepth
<1>1. Parser(q) /\ Like(q, top)
  BY ReadingIsLike, LikeLike
<1>2. /\ stack' = Append(s, sub) /\ open' = open + (IF sub.r THEN 1 ELSE 0)
      /\ status' = status /\ parseErr' = parseErr
  BY DEF Enters
<1> HIDE DEF q
<1>3. /\ IsSeq(s) /\ Len(s) = n /\ n \in Nat /\ n >= 1
      /\ \A i \in 1..n : Parser(s[i]) /\ Like(s[i], stack[i])
  BY <1>1, KeepKeeps DEF IInv
<1> HIDE DEF s
<1>4. /\ IsSeq(stack') /\ Len(stack') = n + 1 /\ stack'[n + 1] = sub
      /\ \A i \in 1..n : stack'[i] = s[i]
  BY <1>2, <1>3, AppendSub
<1>5. /\ parseErr = "nil" /\ Nested(stack) /\ Limited(stack) /\ open = stack[n].includeDepth
  BY DEF IInv, Files
<1>6. Nested(s) /\ Limited(s) /\ s[n].includeDepth = stack[n].includeDepth
  BY <1>3, <1>5, LikeNested
<1>7. top = stack[n] /\ D \in Nat /\ n \in 1..n
  BY <1>3, ZoneParserAssumption DEF top, Last
<1>8. /\ stack[n].includeDepth \in 0..D
      /\ n <= 2 * stack[n].includeDepth + 1 + (IF stack[n].generateDisallowed THEN 1 ELSE 0)
  BY <1>5, <1>7 DEF Limited
<1>9. /\ sub.includeDepth = stack[n].includeDepth + (IF sub.r THEN 1 ELSE 0)
      /\ sub.includeDepth \in 0..D
      /\ n + 1 <= 2 * sub.includeDepth + 1 + (IF sub.generateDisallowed THEN 1 ELSE 0)
  <2> DEFINE d == stack[n].includeDepth
             e == sub.includeDepth
  <2>1. d \in 0..D /\ n \in Nat /\ D \in Nat
    BY <1>3, <1>7, <1>8
  <2>2. CASE sub.r
    <3>1. ~sub.generateDisallowed /\ ~(d >= D) /\ e = d + 1
      BY <1>7, <2>2 DEF Sub, TooDeep
    <3>2. n <= 2 * d + 2
      <4>1. CASE stack[n].generateDisallowed
        <5>1. n <= 2 * d + 1 + 1
          BY <1>8, <4>1
        <5> HIDE DEF d
        <5> QED BY <2>1, <5>1
      <4>2. CASE ~stack[n].generateDisallowed
        <5>1. n <= 2 * d + 1 + 0
          BY <1>8, <4>2
        <5> HIDE DEF d
        <5> QED BY <2>1, <5>1
      <4> QED BY <4>1, <4>2
    <3>3. e \in 0..D /\ n + 1 <= 2 * e + 1 + 0
      <4> HIDE DEF d, e, n, D
      <4> QED BY <2>1, <3>1, <3>2
    <3> QED BY <2>2, <3>1, <3>3
  <2>3. CASE ~sub.r
    <3>1. sub.generateDisallowed /\ ~stack[n].generateDisallowed /\ e = d
      BY <1>7, <2>3 DEF Sub
    <3>2. n <= 2 * d + 1 + 0
      BY <1>8, <3>1
    <3>3. e \in 0..D /\ e = d + 0 /\ n + 1 <= 2 * e + 1 + 1
      <4> HIDE DEF d, e, n, D
      <4> QED BY <2>1, <3>1, <3>2
    <3> QED BY <2>3, <3>1, <3>3
  <2> QED BY <2>2, <2>3
<1>10. Stack'
  <2>1. n + 1 \in 1..(2 * D + 2)
    BY <1>3, <1>7, <1>9
  <2>2. \A i \in 1..(n + 1) : Parser(stack'[i])
    <3>1. \A i \in 1..(n + 1) : i \in 1..n \/ i = n + 1
      BY <1>3
    <3> QED BY <1>3, <1>4, <3>1 DEF Sub
  <2> QED BY <1>4, <2>1, <2>2 DEF Stack
<1>11. Nested(stack')
  <2>1. stack'[1] = s[1]
    BY <1>3, <1>4
  <2>2. ASSUME NEW i \in 1..n
        PROVE  stack'[i + 1].includeDepth = stack'[i].includeDepth + (IF stack'[i + 1].r THEN 1 ELSE 0)
    <3>1. CASE i = n
      BY <1>4, <1>6, <1>7, <1>9, <3>1
    <3>2. CASE i # n
      <4>1. i \in 1..(n - 1) /\ i + 1 \in 1..n
        BY <1>3, <3>2
      <4> QED BY <1>3, <1>4, <1>6, <4>1 DEF Nested
    <3> QED BY <3>1, <3>2
  <2>3. n + 1 - 1 = n
    BY <1>3
  <2> QED BY <1>4, <1>6, <2>1, <2>2, <2>3 DEF Nested
<1>12. Limited(stack')
  <2>1. \A i \in 1..(n + 1) : i \in 1..n \/ i = n + 1
    BY <1>3
  <2> QED BY <1>3, <1>4, <1>6, <1>9, <2>1 DEF Limited
<1>13. open' = stack'[n + 1].includeDepth
  BY <1>2, <1>4, <1>5, <1>9
<1>14. Files'
  BY <1>2, <1>4, <1>5, <1>11, <1>12, <1>13 DEF Files
<1> QED BY <1>10, <1>14 DEF IInv

\* subNext closes a parser that has come to its end.
LEMMA LeavesStep ==
  ASSUME IInv, status = "running", Len(stack) # 1, stack' = Front(stack),
         open' = open - (IF top.r THEN 1 ELSE 0), UNCHANGED <<status, parseErr>>
  PROVE  IInv'
<1> DEFINE n == Len(stack)
<1>1. IsSeq(stack) /\ n \in Nat /\ n > 1 /\ n <= 2 * maxIncludeDepth + 2
      /\ maxIncludeDepth \in Nat
  <2>1. IsSeq(stack) /\ n \in 1..(2 * maxIncludeDepth + 2) /\ n # 1
    BY DEF IInv, Stack
  <2> HIDE DEF n
  <2> QED BY <2>1, ZoneParserAssumption
<1>2. IsSeq(stack') /\ Len(stack') = n - 1 /\ \A i \in 1..(n - 1) : stack'[i] = stack[i]
  BY <1>1, FrontParsers
<1>3. /\ parseErr = "nil" /\ Nested(stack) /\ Limited(stack) /\ open = stack[n].includeDepth
  BY DEF IInv, Files
<1>4. /\ 1 \in 1..(n - 1) /\ n - 1 \in 1..(n - 1) /\ n - 1 + 1 = n
      /\ \A i \in 1..(n - 1) : i \in 1..n
      /\ \A i \in 1..(n - 1 - 1) : i \in 1..(n - 1) /\ i + 1 \in 1..(n - 1)
  BY <1>1
<1>5. Stack'
  <2>1. n - 1 \in 1..(2 * maxIncludeDepth + 2)
    BY <1>1
  <2> QED BY <1>2, <1>4, <2>1 DEF IInv, Stack
<1>6. Nested(stack')
  <2>1. stack'[1] = stack[1]
    BY <1>2, <1>4
  <2>2. ASSUME NEW i \in 1..(n - 1 - 1)
        PROVE  stack'[i + 1].includeDepth = stack'[i].includeDepth + (IF stack'[i + 1].r THEN 1 ELSE 0)
    <3>1. stack'[i] = stack[i] /\ stack'[i + 1] = stack[i + 1] /\ i \in 1..(n - 1)
      BY <1>2, <1>4
    <3> QED BY <1>3, <3>1 DEF Nested
  <2> QED BY <1>2, <1>3, <2>1, <2>2 DEF Nested
<1>7. Limited(stack')
  BY <1>2, <1>3, <1>4 DEF Limited
<1>8. open' = stack'[n - 1].includeDepth
  <2>1. stack[n].includeDepth = stack[n - 1].includeDepth + (IF stack[n].r THEN 1 ELSE 0)
    BY <1>3, <1>4 DEF Nested
  <2>2. stack[n - 1].includeDepth \in Nat
    BY <1>3, <1>4 DEF Limited
  <2>3. open' = open - (IF stack[n].r THEN 1 ELSE 0)
    BY DEF top, Last
  <2> QED BY <1>2, <1>3, <1>4, <2>1, <2>2, <2>3
<1>9. Files'
  BY <1>2, <1>3, <1>6, <1>7, <1>8 DEF Files
<1> QED BY <1>5, <1>9 DEF IInv

\* An error, or the end of the zone: every subNext on the way up closes its file.
LEMMA StopsStep ==
  ASSUME IInv, status = "running", NEW p, Parser(p), Like(p, top), NEW e,
         e # "nil" \/ Len(stack) = 1, Stops(p, e)
  PROVE  IInv'
<1> DEFINE n == Len(stack)
           old(i) == IF i = n THEN p ELSE stack[i]
           new(i) == [old(i) EXCEPT !.r = FALSE, !.st = "zExpectOwnerDir"]
<1>1. IsSeq(stack) /\ n \in Nat /\ n >= 1 /\ DOMAIN stack = 1..n /\ maxIncludeDepth \in Nat
  BY ZoneParserAssumption DEF IInv, Stack, IsSeq
<1>2. /\ parseErr' = e /\ status' = "stopped"
      /\ open' = open - Cardinality({i \in DOMAIN stack : stack[i].r})
      /\ stack' = [i \in DOMAIN stack |-> new(i)]
  BY DEF Stops
<1>3. /\ parseErr = "nil" /\ Nested(stack) /\ Limited(stack) /\ open = stack[n].includeDepth
  BY DEF IInv, Files
<1>4. open' = 0
  <2>1. Cardinality({i \in 1..n : stack[i].r}) = stack[n].includeDepth
    BY <1>1, <1>3, OpenFiles
  <2>2. stack[n].includeDepth \in Nat
    BY <1>1, <1>3 DEF Limited
  <2>3. {i \in DOMAIN stack : stack[i].r} = {i \in 1..n : stack[i].r}
    BY <1>1
  <2>4. open' = stack[n].includeDepth - stack[n].includeDepth
    BY <1>2, <1>3, <2>1, <2>3, Zenon
  <2> QED BY <2>2, <2>4
<1>5. \A i \in 1..n : Parser(old(i)) /\ Like(old(i), stack[i])
  <2>1. top = stack[n]
    BY DEF top, Last
  <2>2. \A i \in 1..n : Parser(stack[i]) /\ Like(stack[i], stack[i])
    BY DEF IInv, Stack, Like
  <2> QED BY <2>1, <2>2
<1>6. \A i \in 1..n : /\ Parser(new(i)) /\ ~new(i).r /\ new(i).includeDepth = stack[i].includeDepth
                     /\ (new(i).generateDisallowed <=> stack[i].generateDisallowed)
  <2>1. ASSUME NEW q, Parser(q)
        PROVE  LET x == [q EXCEPT !.r = FALSE, !.st = "zExpectOwnerDir"]
               IN  /\ Parser(x) /\ ~x.r /\ x.includeDepth = q.includeDepth
                   /\ (x.generateDisallowed <=> q.generateDisallowed)
    BY <2>1, Zenon DEF Parser
  <2> HIDE DEF old
  <2> QED BY <1>5, <2>1 DEF Like
<1> HIDE DEF new
<1>7. \A i \in 1..n : stack'[i] = new(i)
  BY <1>1, <1>2
<1>8. IsSeq(stack') /\ Len(stack') = n
  <2>1. stack' = [i \in 1..n |-> stack'[i]]
    BY <1>1, <1>2
  <2> QED BY <1>1, <2>1, FunctionIsSeq
<1>9. Stack'
  BY <1>6, <1>7, <1>8 DEF IInv, Stack
<1>10. CASE e # "nil"
  BY <1>2, <1>4, <1>9, <1>10 DEF IInv, Files
<1>11. CASE e = "nil"
  <2>1. n = 1 /\ 1 \in 1..n
    BY <1>11
  <2>2. stack[1].includeDepth = 0 /\ 0 \in 0..maxIncludeDepth
    BY <1>1, <1>3 DEF Nested
  <2>3. stack'[1].includeDepth = 0 /\ ~stack'[1].r
    BY <1>6, <1>7, <2>1, <2>2
  <2>4. Nested(stack')
    BY <1>8, <2>1, <2>3 DEF Nested
  <2>5. Limited(stack')
    BY <1>8, <2>1, <2>2, <2>3 DEF Limited
  <2>6. Files'
    BY <1>2, <1>4, <1>8, <1>11, <2>1, <2>3, <2>4, <2>5 DEF Files
  <2> QED BY <1>9, <2>6 DEF IInv
<1> QED BY <1>10, <1>11

-----------------------------------------------------------------------------
(* The theorem.                                                            *)

LEMMA IInvInit == Init => IInv
<1> SUFFICES ASSUME Init PROVE IInv
  OBVIOUS
<1> DEFINE q == NewZoneParser(ZoneText(zone), <<>>)
           ttl == IF GivenTtl THEN ttlState(defaultTtl, FALSE) ELSE NoTtl
           p == [q EXCEPT !.defttl = ttl, !.includeAllowed = TRUE]
<1>1. Parser(p) /\ p.includeDepth = 0 /\ ~p.r
  <2> HIDE DEF ttl
  <2> QED BY Zenon DEF NewZoneParser, Parser
<1>2. stack = <<p>> /\ parseErr = "nil" /\ status = "idle" /\ open = 0
  BY DEF Init
<1> HIDE DEF p
<1>3. IsSeq(stack) /\ Len(stack) = 1 /\ stack[1] = p
  BY <1>2 DEF IsSeq, Range
<1>4. maxIncludeDepth \in Nat
  BY ZoneParserAssumption
<1>5. Stack
  BY <1>1, <1>3, <1>4 DEF Stack
<1>6. Nested(stack) /\ Limited(stack)
  BY <1>1, <1>3, <1>4 DEF Nested, Limited
<1>7. Files
  BY <1>1, <1>2, <1>3, <1>6 DEF Files
<1> QED BY <1>5, <1>7 DEF IInv

LEMMA IInvStep == IInv /\ [Next]_vars => IInv'
<1> SUFFICES ASSUME IInv, [Next]_vars PROVE IInv'
  OBVIOUS
<1>1. CASE Next_
  <2>1. /\ stack' = stack /\ parseErr' = parseErr /\ open' = open
        /\ status' = "running" => parseErr = "nil"
        /\ status' \in {"running", "stopped"}
        /\ status' = "stopped" => parseErr # "nil" \/ status = "stopped"
    BY <1>1 DEF Next_
  <2>2. Stack'
    BY <2>1 DEF IInv, Stack
  <2>3. Files'
    BY <2>1 DEF IInv, Files
  <2> QED BY <2>2, <2>3 DEF IInv
<1>2. ASSUME status = "running", Moves PROVE IInv'
  <2>1. ASSUME NEW p, Parser(p), Like(p, top), NEW st, Goes(p, st) PROVE IInv'
    BY <1>2, <2>1, GoesStep DEF Goes
  <2>2. ASSUME NEW p, Parser(p), Like(p, top), NEW rdata, Returns(p, rdata) PROVE IInv'
    BY <1>2, <2>2, GoesStep DEF Returns
  <2> QED BY <1>2, <2>1, <2>2, EntersStep, StopsStep, LeavesStep DEF Moves
<1>3. ASSUME status = "running", ~Next_, Next PROVE Moves
  <2>1. Parser(top)
    <3>1. Len(stack) \in 1..Len(stack)
      BY ZoneParserAssumption DEF IInv, Stack
    <3> QED BY <3>1 DEF IInv, Stack, top, Last
  <2> QED BY <1>3, <2>1, RunningMoves DEF Next
<1>4. CASE UNCHANGED vars
  BY <1>4 DEF vars, IInv, Stack, Files
<1>5. Next => Next_ \/ status = "running"
  BY DEF Next
<1> QED BY <1>1, <1>2, <1>3, <1>4, <1>5

\* The files that are open at a time are never more than the depth of $INCLUDE, the
\* parsers never more than one $GENERATE for each of them and one more, and when Next
\* has returned false no file is open, whatever the zones and the files contain.
THEOREM FilesAreClosed == Spec => []FilesClosed
<1>1. IInv => FilesClosed
  <2> SUFFICES ASSUME IInv PROVE FilesClosed
    OBVIOUS
  <2>1. /\ Len(stack) \in 1..(2 * maxIncludeDepth + 2) /\ maxIncludeDepth \in Nat
    BY ZoneParserAssumption DEF IInv, Stack
  <2>2. Len(stack) \in 1..Len(stack) /\ Len(stack) <= 2 * maxIncludeDepth + 2
    BY <2>1
  <2>3. CASE parseErr = "nil"
    <3>1. Nested(stack) /\ Limited(stack) /\ open = stack[Len(stack)].includeDepth
          /\ (status = "stopped" => Len(stack) = 1)
      BY <2>3 DEF IInv, Files
    <3>2. open \in 0..maxIncludeDepth
      BY <2>2, <3>1 DEF Limited
    <3>3. status = "stopped" => open = 0
      BY <3>1 DEF Nested
    <3> QED BY <2>1, <2>2, <3>2, <3>3 DEF FilesClosed
  <2>4. CASE parseErr # "nil"
    BY <2>1, <2>2, <2>4 DEF IInv, Files, FilesClosed
  <2> QED BY <2>3, <2>4
<1> QED BY <1>1, IInvInit, IInvStep, PTL DEF Spec

=============================================================================
