--------------------------- MODULE TransferProofs ---------------------------
(***************************************************************************)
(* Proofs about Transfer for any set of transfers of the two shapes that   *)
(* TransferAssumption names, of any length, cut into messages in any way,  *)
(* with any fault.                                                         *)
(***************************************************************************)
EXTENDS Transfer, SequenceTheorems, WellFoundedInduction, TLAPS

-----------------------------------------------------------------------------
(* The inductive invariant.                                                *)

RR == {"soa", "rr"} \X Nat
IsSeq(s) == s \in Seq(Range(s))

\* The transfer goes on: the goroutine will read another message.
Active == in.pc = "read" \/ (in.pc = "send" /\ ~in.last)

\* How many records the client has read, and how many Out has written.
seen == Len(got) + Len(in.env)
sent == Len(job.rrs) - Len(todo) - Len(out.cur)

\* Both sides sign, and the request verified.
Signs == signed /\ ~used

\* The goroutine, and the errors it may send.
Errors == {"nil", "ErrId", "errXFR", "ErrSoa", "ErrNoSig", "ErrSig", "read"}
InType == [pc : {"read", "send", "close", "closeCh", "done"}, first : BOOLEAN, n : 0..3,
           axfr : BOOLEAN, serial : Nat, env : Seq(RR), err : Errors, last : BOOLEAN]

\* Shapes of the records and sequences.  A MAC has no type of its own, because it
\* holds the MAC before it.
Shapes ==
  /\ job \in Transfers
  /\ signed \in BOOLEAN /\ used \in BOOLEAN /\ quit \in BOOLEAN
  /\ t \in [mac : {t.mac}, timersOnly : BOOLEAN, open : BOOLEAN]
  /\ todo \in Seq(RR) /\ got \in Seq(RR) /\ ch \in {"open", "closed"}
  /\ out \in [pc : {"range", "write", "failed", "returned"}, cur : Seq(RR), mac : {out.mac},
              timersOnly : BOOLEAN, n : Nat]
  /\ in \in InType
  /\ IsSeq(wire)
  /\ in.pc # "send" => in.env = <<>>

\* Out holds an envelope while it writes; a write fails only when the connection breaks.
ServerOrder ==
  /\ ch = "closed" => todo = <<>>
  /\ out.pc = "returned" => ch = "closed"
  /\ out.pc \in {"range", "returned"} => out.cur = <<>>
  /\ out.pc = "write" => out.cur # <<>>
  /\ out.pc = "failed" => fault = "break"

\* What Out and the handler still have is the end of the answer.
StillToSend ==
  /\ sent \in Nat
  /\ out.cur = SubSeq(job.rrs, sent + 1, sent + Len(out.cur))
  /\ todo = SubSeq(job.rrs, sent + Len(out.cur) + 1, Len(job.rrs))

\* What the consumer has, and what the goroutine holds for it, is the beginning.
Received ==
  /\ seen <= Len(job.rrs)
  /\ got = SubSeq(job.rrs, 1, Len(got))
  /\ in.env = SubSeq(job.rrs, Len(got) + 1, seen)

\* The messages on their way are what lies between, cut at these places.
CutAt(cut) ==
  /\ cut \in [1..(Len(wire) + 1) -> 0..Len(job.rrs)]
  /\ cut[1] = seen /\ cut[Len(wire) + 1] = sent
  /\ \A i \in 1..Len(wire) :
       cut[i] < cut[i + 1] /\ wire[i].rrs = SubSeq(job.rrs, cut[i] + 1, cut[i + 1])

OnTheWay ==
  Active => \E cut \in [1..(Len(wire) + 1) -> 0..Len(job.rrs)] : CutAt(cut)

\* Only a fault spoils an id or a response code.
FaultsOnTheWay ==
  Active => \A i \in 1..Len(wire) :
              (~wire[i].idOK => fault = "id") /\ (~wire[i].rcodeOK => fault = "rcode")

\* Each message is signed over the one before it, the first over the request, with
\* only the timers from the second one on; and the client expects just that.
Chain ==
  /\ out.mac = IF wire = <<>> THEN t.mac ELSE wire[Len(wire)].tsig
  /\ out.n - Len(wire) >= 1
  /\ out.timersOnly <=> out.n # 1
  /\ t.timersOnly <=> out.n - Len(wire) # 1
  /\ \A i \in 1..Len(wire) :
       /\ wire[i].n = out.n - Len(wire) - 1 + i
       /\ wire[i].tsig = Digest(wire[i].n, wire[i].n # 1,
                                IF i = 1 THEN t.mac ELSE wire[i - 1].tsig)

Signatures ==
  Active => /\ Signs => Chain
            /\ ~Signs => \A i \in 1..Len(wire) : wire[i].tsig = NoTsig

\* The SOAs of the first b records of an answer: all are the server's; how many are.
OnlyOwnSOA(rrs, b) == \A k \in 1..b : isSOA(rrs[k]) => rrs[k] = rrs[1]
OwnSOAs(rrs, b) ==
  IF b = 0 THEN 0
  ELSE IF \A k \in 2..b : rrs[k] # rrs[1] THEN 1
  ELSE IF b < Len(rrs) \/ OnlyOwnSOA(rrs, b) THEN 2 ELSE 3

\* Where the client is while the transfer goes on: never at the end.
Position ==
  Active =>
    /\ in.err = "nil" /\ err = "nil"
    /\ (used /\ signed) \/ ~isSOAFirst(job.rrs) => seen = 0
    /\ isSOAFirst(job.rrs) => seen < Len(job.rrs)
    /\ job.kind = "axfr" => (in.first <=> seen = 0)
    /\ job.kind = "ixfr" => /\ in.n = OwnSOAs(job.rrs, seen)
                            /\ in.axfr <=> OnlyOwnSOA(job.rrs, seen)
                            /\ seen > 0 => /\ in.serial = job.rrs[1][2]
                                           /\ ~upToDate(job.qser, in.serial)

\* What may end a transfer with an error.
Cause == fault # "none" \/ (used /\ signed) \/ ~isSOAFirst(job.rrs)

\* The answer says that the client has the zone.
Unchanged ==
  /\ job.kind = "ixfr" /\ isSOAFirst(job.rrs)
  /\ upToDate(job.qser, job.rrs[1][2])

\* How it ends.
Ended ==
  ~Active =>
    /\ in.err = "nil" => seen > 0 /\ (seen = Len(job.rrs) \/ Unchanged)
    /\ in.err # "nil" => Cause
    /\ (used /\ signed) => in.err # "nil" /\ seen = 0
    /\ err = IF in.pc = "send" THEN "nil" ELSE in.err

IInv ==
  /\ Shapes
  /\ ServerOrder
  /\ StillToSend
  /\ Received
  /\ OnTheWay
  /\ FaultsOnTheWay
  /\ Signatures
  /\ Position
  /\ Ended

-----------------------------------------------------------------------------
(* Sequences.                                                              *)

\* A part of a sequence.
LEMMA Segment ==
  ASSUME NEW S, NEW s \in Seq(S), NEW a \in Nat, NEW b \in Nat, a <= b, b <= Len(s)
  PROVE  /\ SubSeq(s, a + 1, b) \in Seq(S)
         /\ Len(SubSeq(s, a + 1, b)) = b - a
         /\ \A k \in 1..(b - a) : SubSeq(s, a + 1, b)[k] = s[a + k]
<1>1. Len(s) \in Nat /\ \A i \in (a + 1)..b : s[i] \in S
  OBVIOUS
<1>2. /\ SubSeq(s, a + 1, b) \in Seq(S)
      /\ Len(SubSeq(s, a + 1, b)) = IF a + 1 <= b THEN b - (a + 1) + 1 ELSE 0
      /\ \A k \in 1..(b - (a + 1) + 1) : SubSeq(s, a + 1, b)[k] = s[a + 1 + k - 1]
  BY <1>1, SubSeqProperties
<1>3. b - (a + 1) + 1 = b - a /\ (IF a + 1 <= b THEN b - (a + 1) + 1 ELSE 0) = b - a
  OBVIOUS
<1>4. \A k \in 1..(b - a) : a + 1 + k - 1 = a + k
  OBVIOUS
<1> QED BY <1>2, <1>3, <1>4

\* Two parts that meet.
LEMMA SegmentsMeet ==
  ASSUME NEW S, NEW s \in Seq(S), NEW a \in Nat, NEW b \in Nat, NEW c \in Nat,
         a <= b, b <= c, c <= Len(s)
  PROVE  SubSeq(s, a + 1, b) \o SubSeq(s, b + 1, c) = SubSeq(s, a + 1, c)
<1>1. Len(s) \in Nat
  OBVIOUS
<1>2. a + 1 \in 1..(Len(s) + 1) /\ b \in (a + 1 - 1)..Len(s) /\ c \in b..Len(s)
  BY <1>1
<1> QED BY <1>2, ConcatAdjacentSubSeq

\* A part of a part.
LEMMA SegmentOfSegment ==
  ASSUME NEW S, NEW s \in Seq(S), NEW a \in Nat, NEW b \in Nat, a <= b, b <= Len(s),
         NEW i \in Nat, NEW j \in Nat, i <= j, j <= b - a
  PROVE  SubSeq(SubSeq(s, a + 1, b), i + 1, j) = SubSeq(s, a + i + 1, a + j)
<1> DEFINE p == SubSeq(s, a + 1, b)
           x == SubSeq(p, i + 1, j)
           y == SubSeq(s, a + i + 1, a + j)
<1>1. p \in Seq(S) /\ Len(p) = b - a /\ \A k \in 1..(b - a) : p[k] = s[a + k]
  BY Segment
<1> HIDE DEF p
<1>2. x \in Seq(S) /\ Len(x) = j - i /\ \A k \in 1..(j - i) : x[k] = p[i + k]
  BY <1>1, Segment
<1>3. a + i \in Nat /\ a + j \in Nat /\ a + i <= a + j /\ a + j <= Len(s)
  <2>1. Len(s) \in Nat
    OBVIOUS
  <2> QED BY <2>1
<1>4. y \in Seq(S) /\ Len(y) = a + j - (a + i)
      /\ \A k \in 1..(a + j - (a + i)) : y[k] = s[a + i + k]
  BY <1>3, Segment
<1>5. a + j - (a + i) = j - i
  OBVIOUS
<1>6. \A k \in 1..(j - i) : i + k \in 1..(b - a) /\ a + (i + k) = a + i + k
  OBVIOUS
<1> HIDE DEF x, y
<1>7. \A k \in 1..(j - i) : x[k] = y[k]
  BY <1>1, <1>2, <1>4, <1>5, <1>6
<1>8. x = y
  BY <1>2, <1>4, <1>5, <1>7, SeqEqual
<1> QED BY <1>8 DEF x, y, p

\* What is on the wire: a message is sent.
LEMMA AppendMessage ==
  ASSUME NEW s, IsSeq(s), NEW e
  PROVE  /\ IsSeq(Append(s, e))
         /\ Len(s) \in Nat /\ Len(Append(s, e)) = Len(s) + 1
         /\ \A i \in 1..Len(s) : Append(s, e)[i] = s[i]
         /\ Append(s, e)[Len(s) + 1] = e
<1> DEFINE U == Range(s) \cup {e}
           a == Append(s, e)
<1>1. s \in Seq(U)
  BY DEF IsSeq, Range
<1>2. a \in Seq(U) /\ Len(a) = Len(s) + 1 /\ Len(s) \in Nat
  BY <1>1
<1>3. (\A i \in 1..Len(s) : a[i] = s[i]) /\ a[Len(s) + 1] = e
  BY <1>1
<1>4. a \in Seq(Range(a))
  <2> HIDE DEF a
  <2> QED BY <1>2 DEF Range
<1> QED BY <1>2, <1>3, <1>4 DEF IsSeq

\* A message is read.
LEMMA TailMessages ==
  ASSUME NEW s, IsSeq(s), s # <<>>
  PROVE  /\ IsSeq(Tail(s))
         /\ Len(s) \in Nat /\ Len(s) >= 1 /\ Len(Tail(s)) = Len(s) - 1
         /\ \A i \in 1..(Len(s) - 1) : Tail(s)[i] = s[i + 1]
         /\ Head(s) = s[1]
<1> DEFINE U == Range(s)
           a == Tail(s)
<1>1. s \in Seq(U)
  BY DEF IsSeq
<1> HIDE DEF U
<1>2. a \in Seq(U) /\ Len(a) = Len(s) - 1 /\ Len(s) \in Nat /\ Len(s) >= 1
  BY <1>1
<1>3. (\A i \in 1..(Len(s) - 1) : a[i] = s[i + 1]) /\ Head(s) = s[1]
  BY <1>1
<1>4. a \in Seq(Range(a))
  <2> HIDE DEF a
  <2> QED BY <1>2 DEF Range
<1> QED BY <1>2, <1>3, <1>4 DEF IsSeq

-----------------------------------------------------------------------------
(* The records of an incremental answer.                                   *)

\* A set of numbers that is not empty has a least one.
LEMMA Least ==
  ASSUME NEW T, T \subseteq Nat, T # {}
  PROVE  \E n \in T : \A m \in T : n <= m
<1>1. PICK n \in T : \A m \in T : <<m, n>> \notin OpToRel(<, Nat)
  BY WFMin, NatLessThanWellFounded
<1>2. \A m \in T : ~ (m < n)
  BY <1>1 DEF OpToRel
<1> QED BY <1>2

\* Where the loop of inIxfr is after b records of an answer.
Counted(rrs, b) ==
  [n |-> OwnSOAs(rrs, b), axfr |-> OnlyOwnSOA(rrs, b), stop |-> b = Len(rrs)]

\* One more record: the loop stops at the last one of the answer and not before.
LEMMA CountOneMore ==
  ASSUME NEW rrs \in Seq(RR), isSOAFirst(rrs), WholeZone(rrs) \/ Incremental(rrs),
         NEW b \in Nat, b < Len(rrs)
  PROVE  CountOne(Counted(rrs, b), rrs[b + 1], rrs[1][2]) = Counted(rrs, b + 1)
<1> DEFINE L == Len(rrs)
           rr == rrs[b + 1]
           own == rr = rrs[1]
<1>1. L \in Nat /\ b + 1 \in 1..L /\ 1 \in 1..L
  OBVIOUS
<1>2. \A k \in 1..L : rrs[k] = <<rrs[k][1], rrs[k][2]>>
  BY DEF RR
<1>3. isSOA(rrs[1])
  BY DEF isSOAFirst
<1>4. own <=> isSOA(rr) /\ rr[2] = rrs[1][2]
  BY <1>1, <1>2, <1>3 DEF isSOA
<1>5. OnlyOwnSOA(rrs, b + 1) <=> OnlyOwnSOA(rrs, b) /\ (isSOA(rr) => own)
  BY DEF OnlyOwnSOA
<1>6. /\ OwnSOAs(rrs, b + 1) = IF own THEN OwnSOAs(rrs, b) + 1 ELSE OwnSOAs(rrs, b)
      /\ OwnSOAs(rrs, b) \in Nat
      /\ b + 1 = L <=> own /\ ((OnlyOwnSOA(rrs, b) /\ OwnSOAs(rrs, b) + 1 = 2)
                               \/ OwnSOAs(rrs, b) + 1 = 3)
  <2> DEFINE P(c) == \A k \in 2..c : rrs[k] # rrs[1]
  <2>1. CASE WholeZone(rrs)
    <3>1. /\ L >= 2 /\ rrs[L] = rrs[1]
          /\ \A k \in 1..L : isSOA(rrs[k]) <=> k \in {1, L}
      BY <2>1 DEF WholeZone
    <3> HIDE DEF L
    <3>2. own <=> b + 1 \in {1, L}
      BY <1>1, <1>3, <3>1
    <3>3. P(b) /\ (P(b + 1) <=> b + 1 < L)
      <4>1. \A k \in 2..L : rrs[k] = rrs[1] <=> k = L
        BY <1>1, <1>3, <3>1
      <4>2. b < L
        BY DEF L
      <4> QED BY <1>1, <3>1, <4>1, <4>2
    <3>4. OnlyOwnSOA(rrs, b) /\ OnlyOwnSOA(rrs, b + 1)
      BY <1>1, <3>1 DEF OnlyOwnSOA
    <3>5. OwnSOAs(rrs, b) = IF b = 0 THEN 0 ELSE 1
      BY <3>3 DEF OwnSOAs
    <3>6. OwnSOAs(rrs, b + 1) = IF b + 1 < L THEN 1 ELSE 2
      BY <1>1, <3>3, <3>4 DEF OwnSOAs
    <3>7. b < L /\ OwnSOAs(rrs, b) + 1 # 3
      BY <3>5 DEF L
    <3> HIDE DEF own
    <3>8. CASE b = 0
      BY <1>1, <3>1, <3>2, <3>4, <3>5, <3>6, <3>7, <3>8
    <3>9. CASE b # 0
      BY <1>1, <3>1, <3>2, <3>4, <3>5, <3>6, <3>7, <3>9
    <3> QED BY <3>8, <3>9
  <2>2. CASE Incremental(rrs)
    <3>1. PICK i, j \in 2..(L - 1) :
            /\ i < j /\ isSOA(rrs[i])
            /\ \A k \in 1..L : rrs[k] = rrs[1] <=> k \in {1, j, L}
      BY <2>2 DEF Incremental
    <3>2. own <=> b + 1 \in {1, j, L}
      BY <1>1, <3>1
    <3>3. (P(b) <=> b < j) /\ (P(b + 1) <=> b + 1 < j)
      <4>1. \A k \in 2..L : rrs[k] = rrs[1] <=> k \in {j, L}
        BY <3>1
      <4> HIDE DEF L
      <4>2. b < L
        BY DEF L
      <4>3. L \in Nat /\ j \in Nat /\ 2 <= j /\ j < L
        BY <1>1, <3>1
      <4>4. ASSUME NEW x \in Nat, x <= L PROVE P(x) <=> x < j
        <5>1. CASE x < j
          BY <4>1, <4>3, <4>4, <5>1
        <5>2. CASE j <= x
          <6>1. j \in 2..x /\ j \in 2..L
            BY <4>3, <4>4, <5>2
          <6>2. rrs[j] = rrs[1]
            BY <4>1, <6>1
          <6> QED BY <4>3, <5>2, <6>1, <6>2
        <5> QED BY <4>3, <5>1, <5>2
      <4> QED BY <4>2, <4>3, <4>4
    <3>4. (b >= i => ~OnlyOwnSOA(rrs, b)) /\ (b + 1 >= j => ~OnlyOwnSOA(rrs, b + 1))
      <4>1. rrs[i] # rrs[1] /\ i \in 1..L
        BY <1>1, <3>1
      <4> QED BY <1>1, <3>1, <4>1 DEF OnlyOwnSOA
    <3>5. OwnSOAs(rrs, b) = IF b = 0 THEN 0 ELSE IF b < j THEN 1 ELSE 2
      BY <3>1, <3>3 DEF OwnSOAs
    <3>6. OwnSOAs(rrs, b + 1) = IF b + 1 < j THEN 1 ELSE IF b + 1 < L THEN 2 ELSE 3
      BY <1>1, <3>1, <3>3, <3>4 DEF OwnSOAs
    <3>7. b < L
      OBVIOUS
    <3>8. L \in Nat /\ i \in Nat /\ j \in Nat /\ 2 <= i /\ i < j /\ j < L
      BY <1>1, <3>1
    <3> HIDE DEF own, L
    <3>9. CASE b = 0
      BY <3>2, <3>5, <3>6, <3>7, <3>8, <3>9
    <3>10. CASE b # 0 /\ b < j
      BY <3>2, <3>4, <3>5, <3>6, <3>7, <3>8, <3>10
    <3>11. CASE b >= j
      BY <3>2, <3>4, <3>5, <3>6, <3>7, <3>8, <3>11
    <3> QED BY <3>8, <3>9, <3>10, <3>11
  <2> QED BY <2>1, <2>2
<1> DEFINE B == OnlyOwnSOA(rrs, b)
           E == OnlyOwnSOA(rrs, b + 1)
           N == OwnSOAs(rrs, b)
           M == OwnSOAs(rrs, b + 1)
           stop == b + 1 = L
           C == [n |-> N, axfr |-> B, stop |-> FALSE]
           D == [n |-> M, axfr |-> E, stop |-> stop]
<1>7. Counted(rrs, b) = C /\ Counted(rrs, b + 1) = D
  <2>1. (b = Len(rrs)) = FALSE
    BY <1>1
  <2> QED BY <2>1, Zenon DEF Counted
<1>8. B \in BOOLEAN /\ E \in BOOLEAN /\ stop \in BOOLEAN
  BY DEF OnlyOwnSOA
<1>9. M = (IF own THEN N + 1 ELSE N)
      /\ (stop <=> own /\ ((B /\ N + 1 = 2) \/ N + 1 = 3))
  BY <1>6
<1> HIDE DEF B, E, N, M, stop
<1>10. CASE ~isSOA(rr)
  <2>1. M = N /\ E = B /\ stop = FALSE
    BY <1>4, <1>5, <1>8, <1>9, <1>10 DEF B, E
  <2>2. CountOne(C, rr, rrs[1][2]) = C
    BY <1>10 DEF CountOne
  <2> QED BY <1>7, <2>1, <2>2
<1>11. CASE own
  <2> DEFINE fin == (B /\ N + 1 = 2) \/ N + 1 = 3
  <2>1. M = N + 1 /\ E = B /\ stop = fin
    BY <1>4, <1>5, <1>8, <1>9, <1>11 DEF B, E
  <2>2. C.n = N /\ C.axfr = B /\ C.stop = FALSE
    BY Zenon
  <2>3. CountOne(C, rr, rrs[1][2])
          = [n |-> C.n + 1, axfr |-> C.axfr,
             stop |-> (C.axfr /\ C.n + 1 = 2) \/ C.n + 1 = 3]
    <3> HIDE DEF C
    <3> QED BY <1>4, <1>11, <2>2, Zenon DEF CountOne
  <2>4. CountOne(C, rr, rrs[1][2]) = [n |-> N + 1, axfr |-> B, stop |-> fin]
    <3> HIDE DEF C
    <3> QED BY <2>2, <2>3, Zenon
  <2> HIDE DEF fin
  <2> QED BY <1>7, <2>1, <2>4, Zenon
<1>12. CASE isSOA(rr) /\ ~own
  <2>1. M = N /\ E = FALSE /\ stop = FALSE
    BY <1>4, <1>5, <1>8, <1>9, <1>12 DEF B, E
  <2>2. C.stop = FALSE
    BY Zenon
  <2>3. CountOne(C, rr, rrs[1][2]) = [n |-> C.n, axfr |-> FALSE, stop |-> C.stop]
    <3> HIDE DEF C
    <3> QED BY <1>4, <1>12, <2>2, Zenon DEF CountOne
  <2>4. C.n = N
    BY Zenon
  <2> QED BY <1>7, <2>1, <2>2, <2>3, <2>4, Zenon
<1> QED BY <1>10, <1>11, <1>12

\* The records of one message: c of the answer were counted before.
LEMMA CountMessage ==
  ASSUME NEW rrs \in Seq(RR), isSOAFirst(rrs), WholeZone(rrs) \/ Incremental(rrs),
         NEW c \in Nat, NEW d \in Nat, c < d, d <= Len(rrs), NEW a,
         a.n = OwnSOAs(rrs, c), a.axfr \in BOOLEAN, a.axfr <=> OnlyOwnSOA(rrs, c),
         a.serial = rrs[1][2]
  PROVE  CountSOA(a, SubSeq(rrs, c + 1, d)) = Counted(rrs, d)
<1> DEFINE m == SubSeq(rrs, c + 1, d)
           zero == [n |-> a.n, axfr |-> a.axfr, stop |-> FALSE]
           F(f) == [k \in 0..Len(m) |-> IF k = 0 THEN zero
                                        ELSE CountOne(f[k - 1], m[k], a.serial)]
           W == [k \in 0..Len(m) |-> Counted(rrs, c + k)]
           walk == CHOOSE f : f = F(f)
<1>1. Len(m) = d - c /\ \A k \in 1..(d - c) : m[k] = rrs[c + k]
  BY Segment
<1>2. CountSOA(a, m) = walk[Len(m)]
  BY DEF CountSOA
<1>3. zero = Counted(rrs, c)
  <2>1. (c = Len(rrs)) = FALSE /\ OnlyOwnSOA(rrs, c) \in BOOLEAN
    BY DEF OnlyOwnSOA
  <2>2. a.axfr = OnlyOwnSOA(rrs, c)
    BY <2>1
  <2> QED BY <2>1, <2>2, Zenon DEF Counted
<1> HIDE DEF m, zero
<1>4. Len(rrs) \in Nat
  OBVIOUS
<1>5. W = F(W)
  <2>1. ASSUME NEW k \in 0..Len(m) PROVE W[k] = F(W)[k]
    <3>1. CASE k = 0
      BY <1>3, <3>1
    <3>2. CASE k # 0
      <4> DEFINE b == c + k - 1
      <4>1. /\ k - 1 \in 0..Len(m) /\ k \in 1..(d - c) /\ c + (k - 1) = b /\ c + k = b + 1
            /\ b \in Nat /\ b < Len(rrs)
        BY <1>1, <1>4, <3>2
      <4>2. W[k - 1] = Counted(rrs, b) /\ W[k] = Counted(rrs, b + 1)
        BY <4>1
      <4>3. m[k] = rrs[b + 1]
        BY <1>1, <4>1
      <4>4. F(W)[k] = CountOne(W[k - 1], m[k], a.serial)
        BY <3>2
      <4> HIDE DEF b, W, F
      <4>5. CountOne(Counted(rrs, b), rrs[b + 1], rrs[1][2]) = Counted(rrs, b + 1)
        BY <4>1, CountOneMore
      <4> QED BY <4>2, <4>3, <4>4, <4>5
    <3> QED BY <3>1, <3>2
  <2> QED BY <2>1
<1>6. walk = F(walk)
  BY <1>5
<1> HIDE DEF walk
<1>7. \A k \in 0..Len(m) : walk[k] = W[k]
  <2> DEFINE T == {k \in 0..Len(m) : walk[k] # W[k]}
  <2>1. SUFFICES ASSUME T # {} PROVE FALSE
    BY <2>1
  <2>2. PICK k \in T : \A i \in T : k <= i
    <3>1. T \subseteq Nat
      OBVIOUS
    <3> HIDE DEF T
    <3> QED BY <2>1, <3>1, Least
  <2>3. CASE k = 0
    BY <1>5, <1>6, <2>3
  <2>4. CASE k # 0
    <3>1. k - 1 \in 0..Len(m) /\ k - 1 \notin T
      BY <1>1, <2>2, <2>4
    <3>2. walk[k - 1] = W[k - 1]
      BY <3>1
    <3>3. W[k] = CountOne(W[k - 1], m[k], a.serial)
      BY <1>5, <2>4
    <3>4. walk[k] = CountOne(walk[k - 1], m[k], a.serial)
      BY <1>6, <2>4
    <3> QED BY <3>2, <3>3, <3>4
  <2> QED BY <2>3, <2>4
<1>8. Len(m) \in 0..Len(m) /\ c + Len(m) = d
  BY <1>1
<1>9. walk[Len(m)] = Counted(rrs, d)
  BY <1>7, <1>8
<1> QED BY <1>2, <1>9 DEF m

-----------------------------------------------------------------------------
(* What the client does with a message.                                    *)

\* Send sets four fields.
LEMMA SendIs ==
  ASSUME NEW i \in InType, NEW rrs \in Seq(RR), NEW e \in Errors, NEW last, last \in BOOLEAN
  PROVE  /\ Send(i, rrs, e, last) \in InType
         /\ Send(i, rrs, e, last).pc = "send"
         /\ Send(i, rrs, e, last).env = rrs
         /\ Send(i, rrs, e, last).err = e
         /\ Send(i, rrs, e, last).last <=> last
         /\ Send(i, rrs, e, last).first <=> i.first
         /\ Send(i, rrs, e, last).n = i.n
         /\ Send(i, rrs, e, last).axfr <=> i.axfr
         /\ Send(i, rrs, e, last).serial = i.serial
<1> DEFINE j == Send(i, rrs, e, last)
<1>1. j \in InType
  BY DEF InType, Send
<1>2. j.pc = "send" /\ j.env = rrs /\ j.err = e
  BY DEF InType, Send
<1>3. j.last = last
  BY DEF InType, Send
<1>4. j.first = i.first /\ j.n = i.n /\ j.axfr = i.axfr /\ j.serial = i.serial
  BY DEF InType, Send
<1> QED BY <1>1, <1>2, <1>3, <1>4

\* What is wrong with a message of the answer has a cause.
LEMMA MsgErrCause ==
  ASSUME NEW m, ~m.idOK => fault = "id", ~m.rcodeOK => fault = "rcode",
         NEW rcode \in BOOLEAN, NEW begins \in BOOLEAN,
         begins => (isSOAFirst(m.rrs) <=> isSOAFirst(job.rrs))
  PROVE  /\ MsgErr(m, rcode, begins) \in Errors
         /\ MsgErr(m, rcode, begins) # "nil" => Cause
         /\ MsgErr(m, rcode, begins) = "nil" => (begins => isSOAFirst(job.rrs))
<1>1. MsgErr(m, rcode, begins) \in {"nil", "ErrId", "errXFR", "ErrSoa"}
  BY DEF MsgErr
<1>2. ASSUME MsgErr(m, rcode, begins) # "nil" PROVE Cause
  <2>1. ~m.idOK \/ ~m.rcodeOK \/ (begins /\ ~isSOAFirst(m.rrs))
    BY <1>2 DEF MsgErr
  <2> QED BY <2>1 DEF Cause
<1>3. ASSUME MsgErr(m, rcode, begins) = "nil", begins PROVE isSOAFirst(job.rrs)
  BY <1>3 DEF MsgErr
<1>4. MsgErr(m, rcode, begins) \in Errors
  BY <1>1 DEF Errors
<1> QED BY <1>2, <1>3, <1>4, Zenon

\* A state in which the goroutine reads the records c + 1 to d of the answer.
Reads(m, c, d) ==
  /\ Active /\ Position /\ in \in InType /\ job \in Transfers
  /\ c \in Nat /\ d \in Nat /\ c < d /\ d <= Len(job.rrs) /\ c = seen
  /\ m.rrs = SubSeq(job.rrs, c + 1, d)
  /\ ~m.idOK => fault = "id"
  /\ ~m.rcodeOK => fault = "rcode"

\* What it then has: an error with a cause, the end, or a place before the end.
Handled(i, m, d) ==
  /\ i \in InType /\ i.pc = "send" /\ i.env = m.rrs
  /\ i.err # "nil" => i.last /\ Cause
  /\ i.err = "nil" /\ i.last =>
       d = Len(job.rrs) \/ Unchanged
  /\ ~i.last => /\ isSOAFirst(job.rrs) /\ d < Len(job.rrs)
                /\ job.kind = "axfr" => ~i.first
                /\ job.kind = "ixfr" => /\ i.n = OwnSOAs(job.rrs, d)
                                        /\ i.axfr <=> OnlyOwnSOA(job.rrs, d)
                                        /\ i.serial = job.rrs[1][2]
                                        /\ ~upToDate(job.qser, i.serial)

\* The records of a message of the answer.
LEMMA MessageRecords ==
  ASSUME NEW m, NEW c, NEW d, Reads(m, c, d)
  PROVE  /\ job.rrs \in Seq(RR) /\ Len(job.rrs) \in Nat
         /\ m.rrs \in Seq(RR) /\ Len(m.rrs) = d - c /\ m.rrs # <<>>
         /\ \A k \in 1..(d - c) : m.rrs[k] = job.rrs[c + k]
         /\ isSOALast(m.rrs) <=> isSOA(job.rrs[d])
         /\ c = 0 => m.rrs[1] = job.rrs[1] /\ (isSOAFirst(m.rrs) <=> isSOAFirst(job.rrs))
<1> DEFINE R == job.rrs
<1>1. R \in Seq(RR) /\ Len(R) \in Nat
  BY TransferAssumption DEF Reads, RR
<1>2. c \in Nat /\ d \in Nat /\ c < d /\ d <= Len(R) /\ m.rrs = SubSeq(R, c + 1, d)
  BY DEF Reads
<1>3. /\ m.rrs \in Seq(RR) /\ Len(m.rrs) = d - c
      /\ \A k \in 1..(d - c) : m.rrs[k] = R[c + k]
  BY <1>1, <1>2, Segment
<1>4. m.rrs # <<>> /\ R # <<>>
  <2>1. Len(m.rrs) # 0 /\ Len(R) # 0
    BY <1>1, <1>2, <1>3
  <2>2. Len(<<>>) = 0
    OBVIOUS
  <2> QED BY <2>1, <2>2, Zenon
<1>5. isSOALast(m.rrs) <=> isSOA(R[d])
  <2>1. d - c \in 1..(d - c) /\ c + (d - c) = d
    BY <1>2
  <2>2. Last(m.rrs) = m.rrs[d - c]
    BY <1>3 DEF Last
  <2> QED BY <1>3, <1>4, <2>1, <2>2 DEF isSOALast
<1>6. c = 0 => m.rrs[1] = R[1] /\ (isSOAFirst(m.rrs) <=> isSOAFirst(R))
  BY <1>2, <1>3, <1>4 DEF isSOAFirst
<1> QED BY <1>1, <1>3, <1>4, <1>5, <1>6

\* A whole zone: the loop of inAxfr ends at its last SOA and not at its first.
LEMMA AxfrHandles ==
  ASSUME NEW m, NEW c, NEW d, Reads(m, c, d), job.kind = "axfr"
  PROVE  Handled(inAxfr(m), m, d)
<1> DEFINE R == job.rrs
           e == MsgErr(m, in.first, in.first)
           f == [in EXCEPT !.first = FALSE]
           alone == in.first /\ Len(m.rrs) = 1
           last == ~alone /\ isSOALast(m.rrs)
<1>1. /\ c \in Nat /\ d \in Nat /\ c < d /\ d <= Len(R) /\ in \in InType /\ in.first \in BOOLEAN
      /\ in.first <=> c = 0
      /\ ~isSOAFirst(R) => c = 0
  BY DEF Reads, Position, InType
<1>2. /\ R \in Seq(RR) /\ Len(R) \in Nat
      /\ m.rrs \in Seq(RR) /\ Len(m.rrs) = d - c
      /\ isSOALast(m.rrs) <=> isSOA(R[d])
      /\ c = 0 => (isSOAFirst(m.rrs) <=> isSOAFirst(R))
  BY MessageRecords
<1>3. e \in Errors /\ (e # "nil" => Cause) /\ (e = "nil" => isSOAFirst(R))
  <2>1. (~m.idOK => fault = "id") /\ (~m.rcodeOK => fault = "rcode")
    BY DEF Reads
  <2> QED BY <1>1, <1>2, <2>1, MsgErrCause
<1> HIDE DEF e
<1>4. CASE e # "nil"
  <2>1. inAxfr(m) = Send(in, m.rrs, e, TRUE)
    BY <1>4 DEF inAxfr, e
  <2> DEFINE yes == TRUE
             i == Send(in, m.rrs, e, yes)
  <2>2. i \in InType /\ i.pc = "send" /\ i.env = m.rrs /\ i.err = e /\ i.last
    <3>1. yes \in BOOLEAN
      OBVIOUS
    <3> HIDE DEF yes
    <3>2. /\ i \in InType /\ i.pc = "send" /\ i.env = m.rrs /\ i.err = e
          /\ i.last <=> yes
      BY <1>1, <1>2, <1>3, <3>1, SendIs
    <3> HIDE DEF i
    <3> QED BY <3>2 DEF yes
  <2> HIDE DEF i
  <2>3. Handled(i, m, d)
    BY <1>3, <1>4, <2>2 DEF Handled
  <2> QED BY <2>1, <2>3 DEF i
<1>5. CASE e = "nil"
  <2>1. WholeZone(R)
    <3>1. isSOAFirst(R) /\ job \in Transfers
      BY <1>3, <1>5 DEF Reads
    <3> QED BY <3>1, TransferAssumption
  <2>2. last <=> d = Len(R)
    <3>1. Len(R) >= 2 /\ (isSOA(R[d]) <=> d \in {1, Len(R)})
      BY <1>1, <1>2, <2>1 DEF WholeZone
    <3>2. alone <=> d = 1
      BY <1>1, <1>2
    <3> QED BY <1>1, <1>2, <3>1, <3>2
  <2>3. last \in BOOLEAN
    BY <1>1 DEF isSOALast
  <2>4. f \in InType /\ ~f.first
    BY <1>1 DEF InType
  <2>5. inAxfr(m) = Send(f, m.rrs, "nil", last)
    BY <1>5, Zenon DEF inAxfr, e
  <2> HIDE DEF last, f
  <2> DEFINE i == Send(f, m.rrs, "nil", last)
  <2>6. /\ i \in InType /\ i.pc = "send" /\ i.env = m.rrs /\ i.err = "nil" /\ ~i.first
        /\ i.last <=> last
    <3>1. "nil" \in Errors
      BY DEF Errors
    <3> QED BY <1>2, <2>3, <2>4, <3>1, SendIs
  <2> HIDE DEF i
  <2>7. Handled(i, m, d)
    <3>1. isSOAFirst(R)
      BY <1>3, <1>5
    <3>2. ~i.last => d < Len(R)
      BY <1>1, <1>2, <2>2, <2>6
    <3> QED BY <2>2, <2>6, <3>1, <3>2 DEF Handled
  <2> QED BY <2>5, <2>7 DEF i
<1> QED BY <1>4, <1>5

\* Whole zones and differences in answer to IXFR, and "nothing has changed": the
\* loop of inIxfr ends at the last SOA and at none before it.
LEMMA IxfrHandles ==
  ASSUME NEW m, NEW c, NEW d, Reads(m, c, d), job.kind = "ixfr"
  PROVE  Handled(inIxfr(m), m, d)
<1> DEFINE R == job.rrs
           begins == in.n = 0
           e == MsgErr(m, TRUE, begins)
           a == IF begins THEN [in EXCEPT !.serial = m.rrs[1][2]] ELSE in
           cnt == CountSOA(a, m.rrs)
<1>1. /\ c \in Nat /\ d \in Nat /\ c < d /\ d <= Len(R) /\ in \in InType
      /\ in.n = OwnSOAs(R, c) /\ in.axfr \in BOOLEAN /\ (in.axfr <=> OnlyOwnSOA(R, c))
      /\ c > 0 => in.serial = R[1][2] /\ ~upToDate(job.qser, in.serial)
      /\ ~isSOAFirst(R) => c = 0
  BY DEF Reads, Position, InType
<1>2. /\ R \in Seq(RR) /\ Len(R) \in Nat
      /\ m.rrs \in Seq(RR) /\ Len(m.rrs) = d - c
      /\ c = 0 => m.rrs[1] = R[1] /\ (isSOAFirst(m.rrs) <=> isSOAFirst(R))
  BY MessageRecords
<1>3. begins <=> c = 0
  BY <1>1 DEF OwnSOAs
<1>4. e \in Errors /\ (e # "nil" => Cause) /\ (e = "nil" => isSOAFirst(R))
  <2>1. (~m.idOK => fault = "id") /\ (~m.rcodeOK => fault = "rcode")
    BY DEF Reads
  <2>2. TRUE \in BOOLEAN /\ begins \in BOOLEAN
    OBVIOUS
  <2> QED BY <1>1, <1>2, <1>3, <2>1, <2>2, MsgErrCause
<1>5. a \in InType /\ a.serial = R[1][2] /\ a.n = OwnSOAs(R, c) /\ a.axfr \in BOOLEAN
      /\ (a.axfr <=> OnlyOwnSOA(R, c))
  <2>1. R[1][2] \in Nat
    <3>1. 1 \in 1..Len(R)
      BY <1>1, <1>2
    <3>2. R[1] \in RR
      BY <1>2, <3>1
    <3> QED BY <3>2 DEF RR
  <2>2. CASE begins
    <3>1. a = [in EXCEPT !.serial = R[1][2]]
      BY <1>2, <1>3, <2>2
    <3> HIDE DEF a
    <3>2. a \in InType /\ a.serial = R[1][2] /\ a.n = in.n
      BY <1>1, <2>1, <3>1 DEF InType
    <3>3. a.axfr = in.axfr
      BY <1>1, <3>1 DEF InType
    <3> QED BY <1>1, <3>2, <3>3
  <2>3. CASE ~begins
    <3>1. a = in /\ c > 0
      BY <1>1, <1>3, <2>3
    <3> QED BY <1>1, <3>1
  <2> QED BY <2>2, <2>3
<1>6. inIxfr(m) = IF e # "nil" THEN Send(in, m.rrs, e, TRUE)
                  ELSE IF begins /\ upToDate(job.qser, a.serial) THEN Send(a, m.rrs, "nil", TRUE)
                  ELSE Send([a EXCEPT !.n = cnt.n, !.axfr = cnt.axfr], m.rrs, "nil", cnt.stop)
  BY DEF inIxfr
<1>7. "nil" \in Errors
  BY DEF Errors
<1> HIDE DEF e, a, begins
<1>8. CASE e # "nil"
  <2>1. inIxfr(m) = Send(in, m.rrs, e, TRUE)
    BY <1>6, <1>8
  <2> DEFINE yes == TRUE
             i == Send(in, m.rrs, e, yes)
  <2>2. i \in InType /\ i.pc = "send" /\ i.env = m.rrs /\ i.err = e /\ i.last
    <3>1. yes \in BOOLEAN
      OBVIOUS
    <3> HIDE DEF yes
    <3>2. /\ i \in InType /\ i.pc = "send" /\ i.env = m.rrs /\ i.err = e
          /\ i.last <=> yes
      BY <1>1, <1>2, <1>4, <3>1, SendIs
    <3> HIDE DEF i
    <3> QED BY <3>2 DEF yes
  <2> HIDE DEF i
  <2>3. Handled(i, m, d)
    BY <1>4, <1>8, <2>2 DEF Handled
  <2> QED BY <2>1, <2>3 DEF i
<1>9. CASE e = "nil" /\ begins /\ upToDate(job.qser, a.serial)
  <2>1. inIxfr(m) = Send(a, m.rrs, "nil", TRUE)
    BY <1>6, <1>9
  <2> DEFINE yes == TRUE
             i == Send(a, m.rrs, "nil", yes)
  <2>2. i \in InType /\ i.pc = "send" /\ i.env = m.rrs /\ i.err = "nil" /\ i.last
    <3>1. yes \in BOOLEAN
      OBVIOUS
    <3> HIDE DEF yes
    <3>2. /\ i \in InType /\ i.pc = "send" /\ i.env = m.rrs /\ i.err = "nil"
          /\ i.last <=> yes
      BY <1>2, <1>5, <1>7, <3>1, SendIs
    <3> HIDE DEF i
    <3> QED BY <3>2 DEF yes
  <2> HIDE DEF i
  <2>3. Unchanged
    BY <1>4, <1>5, <1>9 DEF Unchanged
  <2>4. Handled(i, m, d)
    BY <2>2, <2>3 DEF Handled
  <2> QED BY <2>1, <2>4 DEF i
<1>10. CASE e = "nil" /\ ~(begins /\ upToDate(job.qser, a.serial))
  <2>1. ~upToDate(job.qser, R[1][2])
    BY <1>1, <1>3, <1>5, <1>10
  <2>2. isSOAFirst(R) /\ (WholeZone(R) \/ Incremental(R))
    <3>1. isSOAFirst(R) /\ job \in Transfers
      BY <1>4, <1>10 DEF Reads
    <3> QED BY <2>1, <3>1, TransferAssumption
  <2>3. cnt = Counted(R, d)
    <3>1. m.rrs = SubSeq(R, c + 1, d)
      BY DEF Reads
    <3>2. CountSOA(a, SubSeq(R, c + 1, d)) = Counted(R, d)
      BY <1>1, <1>2, <1>5, <2>2, CountMessage
    <3> QED BY <3>1, <3>2
  <2> DEFINE b == [a EXCEPT !.n = cnt.n, !.axfr = cnt.axfr]
             i == Send(b, m.rrs, "nil", cnt.stop)
             N == OwnSOAs(R, d)
             B == OnlyOwnSOA(R, d)
             end == d = Len(R)
  <2>4. N \in 0..3 /\ B \in BOOLEAN /\ end \in BOOLEAN
    BY DEF OwnSOAs, OnlyOwnSOA
  <2>5. cnt = [n |-> N, axfr |-> B, stop |-> end]
    BY <2>3, Zenon DEF Counted
  <2> HIDE DEF cnt
  <2>6. /\ cnt.n = N /\ cnt.n \in 0..3
        /\ cnt.axfr \in BOOLEAN /\ (cnt.axfr <=> B)
        /\ cnt.stop \in BOOLEAN /\ (cnt.stop <=> end)
    <3> HIDE DEF N, B, end
    <3> QED BY <2>4, <2>5
  <2>7. b \in InType /\ b.n = cnt.n /\ b.serial = a.serial
    BY <1>5, <2>6 DEF InType
  <2>8. b.axfr = cnt.axfr
    BY <1>5 DEF InType
  <2> HIDE DEF b
  <2>9. /\ i \in InType /\ i.pc = "send" /\ i.env = m.rrs /\ i.err = "nil"
        /\ i.last <=> cnt.stop
        /\ i.n = b.n /\ i.serial = b.serial /\ (i.axfr <=> b.axfr)
    BY <1>2, <1>7, <2>6, <2>7, SendIs
  <2>10. inIxfr(m) = i
    BY <1>6, <1>10, Zenon DEF b
  <2> HIDE DEF i
  <2>11. /\ i.n = OwnSOAs(R, d) /\ i.serial = R[1][2] /\ (i.axfr <=> OnlyOwnSOA(R, d))
         /\ i.last <=> d = Len(R)
    BY <1>5, <2>6, <2>7, <2>8, <2>9
  <2>12. ~i.last => d < Len(R)
    BY <1>1, <1>2, <2>11
  <2>13. Handled(i, m, d)
    BY <2>1, <2>2, <2>9, <2>11, <2>12 DEF Handled
  <2> QED BY <2>10, <2>13
<1> QED BY <1>8, <1>9, <1>10

-----------------------------------------------------------------------------
(* The invariant holds at first.                                           *)

\* Whether the server signs: a used Transfer's request does not verify.
LEMMA StatusIs ==
  ASSUME signed \in BOOLEAN, used \in BOOLEAN
  PROVE  signed /\ TsigStatus <=> Signs
<1>1. CASE signed /\ used
  <2>1. TimersOnlyAtStart = TRUE
    BY <1>1 DEF TimersOnlyAtStart
  <2>2. <<0, TRUE, NoMAC>> # <<0, FALSE, NoMAC>>
    OBVIOUS
  <2> QED BY <1>1, <2>1, <2>2 DEF TsigStatus, RequestMAC, Digest, Signs
<1>2. CASE ~(signed /\ used)
  <2>1. TimersOnlyAtStart = FALSE
    BY <1>2 DEF TimersOnlyAtStart
  <2> QED BY <1>2, <2>1, Zenon DEF TsigStatus, RequestMAC, Digest, Signs
<1> QED BY <1>1, <1>2

\* The answer of a transfer.
LEMMA AnswerType == Shapes => job.rrs \in Seq(RR) /\ Len(job.rrs) \in Nat /\ Range(<<>>) = {}
<1> SUFFICES ASSUME Shapes PROVE job.rrs \in Seq(RR) /\ Len(job.rrs) \in Nat /\ Range(<<>>) = {}
  OBVIOUS
<1>1. job.rrs \in Seq(RR)
  BY TransferAssumption DEF Shapes, RR
<1> QED BY <1>1 DEF Range

\* Nothing has been sent, and the client waits for the first message.
LEMMA IInvInit == Init => IInv
<1> SUFFICES ASSUME Init PROVE IInv
  OBVIOUS
<1> DEFINE R == job.rrs
<1>1. /\ job \in Transfers /\ signed \in BOOLEAN /\ used \in BOOLEAN /\ quit = FALSE
      /\ todo = R /\ ch = "open" /\ wire = <<>> /\ got = <<>> /\ err = "nil"
  BY DEF Init
<1>2. /\ out = [pc |-> "range", cur |-> <<>>, mac |-> IF signed THEN RequestMAC ELSE NoMAC,
                timersOnly |-> FALSE, n |-> 1]
      /\ t = [mac |-> IF signed THEN RequestMAC ELSE NoMAC, timersOnly |-> TimersOnlyAtStart,
              open |-> TRUE]
      /\ in = [pc |-> "read", first |-> TRUE, n |-> 0, axfr |-> TRUE, serial |-> 0,
               env |-> <<>>, err |-> "nil", last |-> FALSE]
  BY DEF Init
<1>3. R \in Seq(RR) /\ Len(R) \in Nat
  <2>1. R \in Seq(RR)
    BY <1>1, TransferAssumption DEF RR
  <2> QED BY <2>1
<1>4. out.pc = "range" /\ out.cur = <<>> /\ out.mac = t.mac /\ ~out.timersOnly /\ out.n = 1
  BY <1>2
<1>5. t.timersOnly <=> used /\ signed
  BY <1>2 DEF TimersOnlyAtStart
<1>6. in.pc = "read" /\ in.n = 0 /\ in.env = <<>> /\ in.err = "nil" /\ in.first /\ in.axfr
  BY <1>2
<1>7. Shapes
  <2>1. t \in [mac : {t.mac}, timersOnly : BOOLEAN, open : BOOLEAN]
    <3>1. TimersOnlyAtStart \in BOOLEAN
      BY DEF TimersOnlyAtStart
    <3> QED BY <1>2, <3>1
  <2>2. out \in [pc : {"range", "write", "failed", "returned"}, cur : Seq(RR), mac : {out.mac},
                 timersOnly : BOOLEAN, n : Nat]
    BY <1>2
  <2>3. in \in InType
    BY <1>2 DEF InType, Errors
  <2>4. IsSeq(wire)
    BY <1>1 DEF IsSeq, Range
  <2>5. todo \in Seq(RR) /\ got \in Seq(RR) /\ ch \in {"open", "closed"} /\ quit \in BOOLEAN
    <3>1. <<>> \in Seq(RR)
      OBVIOUS
    <3>2. todo \in Seq(RR) /\ got \in Seq(RR)
      BY <1>1, <1>3, <3>1, Zenon
    <3>3. ch \in {"open", "closed"} /\ quit \in BOOLEAN
      BY <1>1
    <3> QED BY <3>2, <3>3
  <2> QED BY <1>1, <1>6, <2>1, <2>2, <2>3, <2>4, <2>5, Zenon DEF Shapes
<1>8. Len(<<>>) = 0 /\ seen = 0 /\ sent = 0 /\ Active
  <2>1. Len(got) = 0 /\ Len(in.env) = 0 /\ Len(out.cur) = 0 /\ Len(todo) = Len(R)
    BY <1>1, <1>4, <1>6
  <2> HIDE DEF R
  <2> QED BY <1>3, <1>6, <2>1 DEF seen, sent, Active, R
<1>9. ServerOrder
  BY <1>1, <1>4 DEF ServerOrder
<1>10. SubSeq(R, 1, 0) = <<>> /\ SubSeq(R, 1, Len(R)) = R
  BY <1>3, SubSeqEmpty, SubSeqFull
<1>11. StillToSend
  <2>1. SubSeq(R, sent + 1, sent + Len(out.cur)) = <<>>
    BY <1>4, <1>8, <1>10
  <2>2. SubSeq(R, sent + Len(out.cur) + 1, Len(R)) = R
    BY <1>4, <1>8, <1>10
  <2> QED BY <1>1, <1>4, <1>8, <2>1, <2>2 DEF StillToSend
<1>12. Received
  BY <1>1, <1>3, <1>6, <1>8, <1>10 DEF Received
<1>13. OnTheWay
  <2> DEFINE cut == [i \in 1..(Len(wire) + 1) |-> 0]
  <2>1. Len(wire) = 0 /\ Len(wire) + 1 = 1
    BY <1>1
  <2>2. cut \in [1..(Len(wire) + 1) -> 0..Len(R)]
    BY <1>3
  <2>3. cut[1] = 0 /\ cut[Len(wire) + 1] = 0
    BY <2>1
  <2> HIDE DEF cut
  <2>4. CutAt(cut)
    BY <1>8, <2>1, <2>2, <2>3 DEF CutAt
  <2> QED BY <2>2, <2>4 DEF OnTheWay
<1>14. FaultsOnTheWay
  BY <1>1 DEF FaultsOnTheWay
<1>15. Signatures
  <2>1. Len(wire) = 0 /\ out.n - Len(wire) = 1
    BY <1>1, <1>4
  <2>2. Signs => Chain
    BY <1>1, <1>4, <1>5, <2>1 DEF Chain, Signs
  <2> QED BY <2>1, <2>2 DEF Signatures
<1>16. Position
  <2>1. OwnSOAs(R, seen) = 0 /\ OnlyOwnSOA(R, seen)
    BY <1>8 DEF OwnSOAs, OnlyOwnSOA
  <2>2. isSOAFirst(R) => Len(R) > 0
    BY <1>3 DEF isSOAFirst
  <2> QED BY <1>1, <1>6, <1>8, <2>1, <2>2 DEF Position
<1>17. Ended
  BY <1>8 DEF Ended
<1> QED BY <1>7, <1>9, <1>11, <1>12, <1>13, <1>14, <1>15, <1>16, <1>17 DEF IInv

-----------------------------------------------------------------------------
(* The steps of the server.                                                *)

\* What a step of the server keeps that sends no message.
LEMMA NothingSent ==
  ASSUME IInv, UNCHANGED <<job, fault, signed, used, t, wire, in, got, err>>,
         sent' = sent, out'.mac = out.mac, out'.n = out.n, out'.timersOnly = out.timersOnly
  PROVE  /\ Received' /\ OnTheWay' /\ FaultsOnTheWay' /\ Signatures' /\ Position' /\ Ended'
<1>1. /\ job' = job /\ fault' = fault /\ signed' = signed /\ used' = used /\ t' = t
      /\ wire' = wire /\ in' = in /\ got' = got /\ err' = err
  OBVIOUS
<1>2. seen' = seen /\ Active' = Active
  BY <1>1 DEF seen, Active
<1>3. Received'
  BY <1>1, <1>2 DEF IInv, Received
<1>4. OnTheWay'
  <2>1. \A cut : CutAt(cut) => CutAt(cut)'
    BY <1>1, <1>2 DEF CutAt
  <2> QED BY <1>1, <1>2, <2>1 DEF IInv, OnTheWay
<1>5. FaultsOnTheWay' /\ Position' /\ Ended'
  BY <1>1, <1>2 DEF IInv, FaultsOnTheWay, Position, Ended, Cause, Unchanged
<1>6. Signatures'
  <2>1. Chain => Chain'
    BY <1>1 DEF Chain
  <2> QED BY <1>1, <1>2, <2>1 DEF IInv, Signatures, Signs
<1> QED BY <1>3, <1>4, <1>5, <1>6

\* The fields of Out.
LEMMA OutFields ==
  ASSUME Shapes
  PROVE  /\ out.pc \in {"range", "write", "failed", "returned"} /\ out.cur \in Seq(RR)
         /\ out.n \in Nat /\ out.timersOnly \in BOOLEAN
         /\ Len(out.cur) \in Nat /\ Len(todo) \in Nat /\ todo \in Seq(RR)
<1>1. /\ out.pc \in {"range", "write", "failed", "returned"} /\ out.cur \in Seq(RR)
      /\ out.n \in Nat /\ out.timersOnly \in BOOLEAN /\ todo \in Seq(RR)
  BY DEF Shapes
<1> QED BY <1>1

\* The handler hands over an envelope: the next records of the answer.
LEMMA HandStep ==
  ASSUME IInv, NEW k \in 1..Len(todo), Hand(k)
  PROVE  IInv'
<1> DEFINE R == job.rrs
           o == [out EXCEPT !.pc = "write", !.cur = SubSeq(todo, 1, k)]
<1>1. /\ ch = "open" /\ out.pc = "range"
      /\ todo' = SubSeq(todo, k + 1, Len(todo)) /\ out' = o
      /\ job' = job /\ fault' = fault /\ signed' = signed /\ used' = used /\ t' = t /\ ch' = ch
      /\ wire' = wire /\ in' = in /\ got' = got /\ err' = err /\ quit' = quit
  BY DEF Hand
<1>2. Shapes /\ out.cur \in Seq(RR) /\ Len(out.cur) \in Nat /\ Len(todo) \in Nat /\ todo \in Seq(RR)
  BY OutFields DEF IInv
<1>3. R \in Seq(RR) /\ Len(R) \in Nat
  BY <1>2, AnswerType
<1>4. out.cur = <<>> /\ Len(out.cur) = 0 /\ k \in Nat /\ k >= 1 /\ k <= Len(todo)
  BY <1>1, <1>2 DEF IInv, ServerOrder
<1>5. sent \in Nat /\ sent = Len(R) - Len(todo)
  <2>1. sent \in Nat
    BY DEF IInv, StillToSend
  <2> HIDE DEF R
  <2> QED BY <1>2, <1>3, <1>4, <2>1 DEF sent, R
<1>6. todo = SubSeq(R, sent + 1, Len(R))
  <2>1. todo = SubSeq(R, sent + Len(out.cur) + 1, Len(R))
    BY DEF IInv, StillToSend
  <2>2. sent + Len(out.cur) + 1 = sent + 1
    BY <1>4, <1>5
  <2> QED BY <2>1, <2>2
<1>7. /\ sent <= Len(R) /\ Len(R) - sent = Len(todo) /\ sent + Len(todo) = Len(R)
       /\ 0 <= k /\ sent + 0 + 1 = sent + 1 /\ k - 0 = k
  <2> HIDE DEF R
  <2> QED BY <1>2, <1>3, <1>4, <1>5
<1>8. /\ SubSeq(todo, 1, k) = SubSeq(R, sent + 1, sent + k)
      /\ SubSeq(todo, 1, k) \in Seq(RR) /\ Len(SubSeq(todo, 1, k)) = k
  <2>1. SubSeq(SubSeq(R, sent + 1, Len(R)), 0 + 1, k) = SubSeq(R, sent + 0 + 1, sent + k)
    <3> HIDE DEF R
    <3>1. 0 \in Nat /\ Len(R) <= Len(R) /\ k <= Len(R) - sent
      BY <1>3, <1>4, <1>7
    <3> QED BY <1>3, <1>4, <1>5, <1>7, <3>1, SegmentOfSegment, SMTT(30)
  <2>2. SubSeq(todo, 0 + 1, k) \in Seq(RR) /\ Len(SubSeq(todo, 0 + 1, k)) = k - 0
    <3> HIDE DEF R
    <3> QED BY <1>2, <1>4, Segment
  <2>3. 0 + 1 = 1
    OBVIOUS
  <2>4. SubSeq(todo, 0 + 1, k) = SubSeq(R, sent + 0 + 1, sent + k)
    BY <1>6, <2>1, Zenon
  <2> QED BY <1>7, <2>2, <2>3, <2>4, Zenon
<1>9. /\ todo' = SubSeq(R, sent + k + 1, Len(R))
      /\ todo' \in Seq(RR) /\ Len(todo') = Len(todo) - k
  <2>1. SubSeq(SubSeq(R, sent + 1, Len(R)), k + 1, Len(todo))
          = SubSeq(R, sent + k + 1, sent + Len(todo))
    <3> HIDE DEF R
    <3>1. Len(R) <= Len(R) /\ k <= Len(todo) /\ Len(todo) <= Len(R) - sent
      BY <1>2, <1>3, <1>4, <1>7
    <3> QED BY <1>2, <1>3, <1>4, <1>5, <1>7, <3>1, SegmentOfSegment, SMTT(30)
  <2>2. /\ SubSeq(todo, k + 1, Len(todo)) \in Seq(RR)
        /\ Len(SubSeq(todo, k + 1, Len(todo))) = Len(todo) - k
    BY <1>2, <1>4, Segment
  <2>3. SubSeq(todo, k + 1, Len(todo)) = SubSeq(R, sent + k + 1, sent + Len(todo))
    BY <1>6, <2>1, Zenon
  <2> QED BY <1>1, <1>7, <2>2, <2>3, Zenon
<1>10. o.pc = "write" /\ o.cur = SubSeq(todo, 1, k) /\ o.mac = out.mac /\ o.n = out.n
      /\ o.timersOnly = out.timersOnly
  BY <1>2 DEF Shapes
<1>11. o \in [pc : {"range", "write", "failed", "returned"}, cur : Seq(RR), mac : {o.mac},
             timersOnly : BOOLEAN, n : Nat]
  <2> HIDE DEF R
  <2> QED BY <1>2, <1>8 DEF Shapes
<1> HIDE DEF o
<1>12. sent' = sent
  <2>1. sent' = Len(R) - Len(todo') - Len(o.cur)
    BY <1>1 DEF sent
  <2> QED BY <1>2, <1>3, <1>4, <1>5, <1>8, <1>9, <1>10, <2>1
<1>13. Shapes'
  BY <1>1, <1>2, <1>9, <1>11, Zenon DEF Shapes
<1>14. ServerOrder'
  <2>1. o.cur # <<>>
    BY <1>4, <1>8, <1>10
  <2> QED BY <1>1, <1>10, <2>1 DEF ServerOrder
<1>15. StillToSend'
  <2>1. Len(out'.cur) = k /\ out'.cur = SubSeq(R, sent + 1, sent + k)
    BY <1>1, <1>8, <1>10
  <2> QED BY <1>1, <1>5, <1>9, <1>12, <2>1 DEF StillToSend
<1>16. Received' /\ OnTheWay' /\ FaultsOnTheWay' /\ Signatures' /\ Position' /\ Ended'
  BY <1>1, <1>10, <1>12, NothingSent
<1> QED BY <1>13, <1>14, <1>15, <1>16 DEF IInv

\* The handler closes the channel, and Out returns.
LEMMA CloseStep ==
  ASSUME IInv, CloseCh \/ OutReturn
  PROVE  IInv'
<1>1. /\ job' = job /\ fault' = fault /\ signed' = signed /\ used' = used /\ t' = t
      /\ todo' = todo /\ wire' = wire /\ in' = in /\ got' = got /\ err' = err /\ quit' = quit
  BY DEF CloseCh, OutReturn
<1>2. /\ ch' = "closed" /\ (ch = "open" => todo = <<>> /\ out' = out)
      /\ out' = out \/ (out.pc = "range" /\ out' = [out EXCEPT !.pc = "returned"])
  BY DEF CloseCh, OutReturn
<1>3. Shapes
  BY DEF IInv
<1>4. /\ out'.cur = out.cur /\ out'.mac = out.mac /\ out'.n = out.n
      /\ out'.timersOnly = out.timersOnly
      /\ out'.pc = out.pc \/ (out.pc = "range" /\ out'.pc = "returned")
  BY <1>2, <1>3 DEF Shapes
<1>5. Shapes'
  <2>1. out' \in [pc : {"range", "write", "failed", "returned"}, cur : Seq(RR), mac : {out'.mac},
                  timersOnly : BOOLEAN, n : Nat]
    BY <1>2, <1>3, <1>4 DEF Shapes
  <2>2. ch' \in {"open", "closed"}
    BY <1>2
  <2> QED BY <1>1, <1>3, <2>1, <2>2, Zenon DEF Shapes
<1>6. ServerOrder'
  BY <1>1, <1>2, <1>3, <1>4 DEF IInv, ServerOrder, Shapes
<1>7. sent' = sent
  BY <1>1, <1>4 DEF sent
<1>8. StillToSend'
  BY <1>1, <1>4, <1>7 DEF IInv, StillToSend
<1>9. Received' /\ OnTheWay' /\ FaultsOnTheWay' /\ Signatures' /\ Position' /\ Ended'
  BY <1>1, <1>4, <1>7, NothingSent
<1> QED BY <1>5, <1>6, <1>8, <1>9 DEF IInv

\* Out writes a message: the next records, signed over the message before.
LEMMA OutWriteStep ==
  ASSUME IInv, OutWrite
  PROVE  IInv'
<1> DEFINE R == job.rrs
           mac == Digest(out.n, out.timersOnly, out.mac)
           signs == signed /\ TsigStatus
           bad == out.n = 2 \/ todo = <<>>
           msg == [rrs |-> out.cur, idOK |-> ~(bad /\ fault = "id"),
                   rcodeOK |-> ~(out.n = 1 /\ fault = "rcode"), n |-> out.n,
                   tsig |-> IF signs THEN mac ELSE NoTsig]
           o == [out EXCEPT !.pc = "range", !.cur = <<>>, !.n = @ + 1,
                            !.mac = IF signs THEN mac ELSE @, !.timersOnly = TRUE]
<1>1. /\ out.pc = "write"
      /\ job' = job /\ fault' = fault /\ signed' = signed /\ used' = used /\ t' = t
      /\ todo' = todo /\ ch' = ch /\ in' = in /\ got' = got /\ err' = err /\ quit' = quit
  BY DEF OutWrite
<1>2. Shapes
  BY DEF IInv
<1>3. /\ out.cur \in Seq(RR) /\ out.n \in Nat /\ out.timersOnly \in BOOLEAN
      /\ Len(out.cur) \in Nat /\ Len(todo) \in Nat /\ todo \in Seq(RR)
  BY <1>2, OutFields
<1>4. CASE bad /\ fault = "break"
  <2>1. wire' = wire /\ out' = [out EXCEPT !.pc = "failed"]
    BY <1>4 DEF OutWrite
  <2>2. /\ out'.pc = "failed" /\ out'.cur = out.cur /\ out'.mac = out.mac /\ out'.n = out.n
        /\ out'.timersOnly = out.timersOnly
    BY <1>2, <2>1 DEF Shapes
  <2>3. out' \in [pc : {"range", "write", "failed", "returned"}, cur : Seq(RR), mac : {out'.mac},
                  timersOnly : BOOLEAN, n : Nat]
    BY <1>2, <2>1, <2>2 DEF Shapes
  <2>4. Shapes'
    BY <1>1, <1>2, <2>1, <2>3, Zenon DEF Shapes
  <2>5. ServerOrder'
    BY <1>1, <1>4, <2>2 DEF IInv, ServerOrder
  <2>6. sent' = sent
    BY <1>1, <2>2 DEF sent
  <2>7. StillToSend'
    BY <1>1, <2>2, <2>6 DEF IInv, StillToSend
  <2>8. Received' /\ OnTheWay' /\ FaultsOnTheWay' /\ Signatures' /\ Position' /\ Ended'
    BY <1>1, <2>1, <2>2, <2>6, NothingSent
  <2> QED BY <2>4, <2>5, <2>7, <2>8 DEF IInv
<1>5. CASE ~(bad /\ fault = "break")
  <2>1. wire' = Append(wire, msg) /\ out' = o
    BY <1>5, Zenon DEF OutWrite
  <2>2. signs <=> Signs
    BY <1>2, StatusIs DEF Shapes
  <2>3. o.pc = "range" /\ o.cur = <<>> /\ o.n = out.n + 1 /\ o.timersOnly = TRUE
    BY <1>2 DEF Shapes
  <2>4. o.mac = IF signs THEN mac ELSE out.mac
    BY <1>2 DEF Shapes
  <2>5. o \in [pc : {"range", "write", "failed", "returned"}, cur : Seq(RR), mac : {o.mac},
               timersOnly : BOOLEAN, n : Nat]
    <3> DEFINE x == IF signs THEN mac ELSE out.mac
               yes == TRUE
               n == out.n + 1
               none == <<>>
    <3>1. o = [out EXCEPT !.pc = "range", !.cur = none, !.n = n, !.mac = x, !.timersOnly = yes]
      BY Zenon
    <3>2. yes \in BOOLEAN /\ n \in Nat /\ none \in Seq(RR)
      BY <1>3
    <3>3. out \in [pc : {"range", "write", "failed", "returned"}, cur : Seq(RR),
                   mac : {out.mac}, timersOnly : BOOLEAN, n : Nat]
      BY <1>2 DEF Shapes
    <3> HIDE DEF x, yes, n, none, o
    <3> QED BY <3>1, <3>2, <3>3
  <2>6. msg.rrs = out.cur /\ msg.n = out.n
    OBVIOUS
  <2>7. (~msg.idOK => fault = "id") /\ (~msg.rcodeOK => fault = "rcode")
    OBVIOUS
  <2>8. msg.tsig = IF signs THEN mac ELSE NoTsig
    OBVIOUS
  <2> HIDE DEF o, msg, signs, bad, mac
  <2>9. /\ IsSeq(wire') /\ Len(wire) \in Nat /\ Len(wire') = Len(wire) + 1
        /\ \A j \in 1..Len(wire) : wire'[j] = wire[j]
        /\ wire'[Len(wire) + 1] = msg
    BY <1>2, <2>1, AppendMessage DEF Shapes
  <2>10. R \in Seq(RR) /\ Len(R) \in Nat
    BY <1>2, AnswerType
  <2>11. sent \in Nat /\ sent + Len(out.cur) = Len(R) - Len(todo) /\ Len(out.cur) >= 1
    <3>1. sent \in Nat /\ out.cur # <<>>
      BY <1>1 DEF IInv, StillToSend, ServerOrder
    <3>2. Len(out.cur) >= 1
      BY <1>3, <3>1
    <3> QED BY <1>3, <2>10, <3>1, <3>2 DEF sent
  <2>12. sent' = sent + Len(out.cur) /\ sent' \in Nat /\ sent' <= Len(R)
    <3>1. sent' = Len(R) - Len(todo) - 0
      <4>1. Len(out'.cur) = 0
        BY <2>1, <2>3
      <4> QED BY <1>1, <4>1 DEF sent
    <3> HIDE DEF R
    <3> QED BY <1>3, <2>10, <2>11, <3>1
  <2>13. Shapes'
    BY <1>1, <1>2, <2>1, <2>5, <2>9, Zenon DEF Shapes
  <2>14. ServerOrder'
    BY <1>1, <2>1, <2>3 DEF IInv, ServerOrder
  <2>15. StillToSend'
    <3>1. Len(out'.cur) = 0 /\ out'.cur = <<>>
      BY <2>1, <2>3
    <3>2. todo = SubSeq(R, sent + Len(out.cur) + 1, Len(R))
      BY DEF IInv, StillToSend
    <3>3. SubSeq(R, sent' + 1, sent' + 0) = <<>>
      BY <2>12, SubSeqEmpty
    <3>4. sent' + 0 + 1 = sent + Len(out.cur) + 1
      BY <2>12
    <3> QED BY <1>1, <2>12, <3>1, <3>2, <3>3, <3>4 DEF StillToSend
  <2>16. seen' = seen /\ Active' = Active
    BY <1>1 DEF seen, Active
  <2>17. Received'
    BY <1>1, <2>16 DEF IInv, Received
  <2>18. OnTheWay'
    <3>1. SUFFICES ASSUME Active PROVE \E c \in [1..(Len(wire') + 1) -> 0..Len(R)] : CutAt(c)'
      BY <1>1, <2>16 DEF OnTheWay
    <3>2. PICK cut \in [1..(Len(wire) + 1) -> 0..Len(R)] : CutAt(cut)
      BY <3>1 DEF IInv, OnTheWay
    <3>3. Len(wire') + 1 = Len(wire) + 2
      BY <2>9
    <3>4. PICK new \in [1..(Len(wire') + 1) -> 0..Len(R)] :
            new = [j \in 1..(Len(wire') + 1) |-> IF j <= Len(wire) + 1 THEN cut[j] ELSE sent']
      <4> DEFINE f == [j \in 1..(Len(wire') + 1) |->
                         IF j <= Len(wire) + 1 THEN cut[j] ELSE sent']
      <4>1. f \in [1..(Len(wire') + 1) -> 0..Len(R)]
        BY <2>9, <2>10, <2>12, <3>2
      <4> QED BY <4>1
    <3>5. /\ \A j \in 1..(Len(wire) + 1) : new[j] = cut[j]
          /\ new[Len(wire) + 2] = sent'
      BY <2>9, <3>3, <3>4
    <3>6. cut[1] = seen /\ cut[Len(wire) + 1] = sent
      BY <3>2 DEF CutAt
    <3>7. new[1] = seen /\ new[Len(wire) + 1] = sent
      BY <2>9, <3>5, <3>6
    <3>8. ASSUME NEW j \in 1..Len(wire')
          PROVE  new[j] < new[j + 1] /\ wire'[j].rrs = SubSeq(R, new[j] + 1, new[j + 1])
      <4>1. CASE j \in 1..Len(wire)
        <5>1. cut[j] < cut[j + 1] /\ wire[j].rrs = SubSeq(R, cut[j] + 1, cut[j + 1])
          BY <3>2, <4>1 DEF CutAt
        <5>2. j \in 1..(Len(wire) + 1) /\ j + 1 \in 1..(Len(wire) + 1)
          BY <2>9, <4>1
        <5>3. new[j] = cut[j] /\ new[j + 1] = cut[j + 1] /\ wire'[j] = wire[j]
          BY <2>9, <3>5, <4>1, <5>2
        <5> QED BY <5>1, <5>3
      <4>2. CASE j = Len(wire) + 1
        <5>1. out.cur = SubSeq(R, sent + 1, sent + Len(out.cur))
          BY DEF IInv, StillToSend
        <5>2. new[j] = sent /\ new[j + 1] = sent' /\ wire'[j].rrs = out.cur
          <6>1. j + 1 = Len(wire) + 2
            BY <2>9, <4>2
          <6> QED BY <2>6, <2>9, <3>5, <3>7, <4>2, <6>1
        <5>3. sent < sent'
          BY <1>3, <2>11, <2>12
        <5> QED BY <2>12, <5>1, <5>2, <5>3
      <4> QED BY <2>9, <4>1, <4>2
    <3>9. CutAt(new)'
      BY <1>1, <2>16, <3>3, <3>4, <3>5, <3>7, <3>8 DEF CutAt
    <3> QED BY <3>4, <3>9
  <2>19. FaultsOnTheWay'
    BY <1>1, <2>7, <2>9, <2>16 DEF IInv, FaultsOnTheWay
  <2>20. Signatures'
    <3>1. ASSUME Active, ~Signs PROVE \A j \in 1..Len(wire') : wire'[j].tsig = NoTsig
      BY <2>2, <2>8, <2>9, <3>1 DEF IInv, Signatures
    <3>2. ASSUME Active, Signs PROVE Chain'
      <4> DEFINE n == Len(wire)
      <4>1. Chain
        BY <3>2 DEF IInv, Signatures
      <4>2. out.n - n >= 1 /\ n \in Nat /\ out.n \in Nat /\ Len(wire') = n + 1
        BY <1>3, <2>9, <4>1 DEF Chain
      <4>3. out'.n = out.n + 1 /\ out'.mac = mac /\ out'.timersOnly
        BY <2>1, <2>2, <2>3, <2>4, <3>2
      <4>4. msg.tsig = mac /\ msg.n = out.n
        BY <2>2, <2>6, <2>8, <3>2
      <4>5. wire' # <<>> /\ wire'[Len(wire')].tsig = mac
        BY <2>9, <4>2, <4>4
      <4>6. out'.n - Len(wire') = out.n - n /\ out'.n # 1
        BY <4>2, <4>3
      <4>7. t'.timersOnly <=> out'.n - Len(wire') # 1
        BY <1>1, <4>1, <4>6 DEF Chain
      <4>8. ASSUME NEW j \in 1..(n + 1)
            PROVE  /\ wire'[j].n = out'.n - Len(wire') - 1 + j
                   /\ wire'[j].tsig = Digest(wire'[j].n, wire'[j].n # 1,
                                             IF j = 1 THEN t.mac ELSE wire'[j - 1].tsig)
        <5>1. CASE j \in 1..n
          <6>1. /\ wire[j].n = out.n - n - 1 + j
                /\ wire[j].tsig = Digest(wire[j].n, wire[j].n # 1,
                                         IF j = 1 THEN t.mac ELSE wire[j - 1].tsig)
            BY <4>1, <5>1 DEF Chain
          <6>2. wire'[j] = wire[j] /\ (j # 1 => wire'[j - 1] = wire[j - 1])
            BY <2>9, <4>2, <5>1
          <6>3. wire'[j].n = out'.n - Len(wire') - 1 + j
            BY <4>6, <6>1, <6>2
          <6>4. (IF j = 1 THEN t.mac ELSE wire[j - 1].tsig)
                  = (IF j = 1 THEN t.mac ELSE wire'[j - 1].tsig)
            BY <6>2
          <6> QED BY <6>1, <6>2, <6>3, <6>4, Zenon
        <5>2. CASE j = n + 1
          <6>1. wire'[j].tsig = mac /\ wire'[j].n = out.n
            BY <2>9, <4>4, <5>2
          <6>2. out.timersOnly = (wire'[j].n # 1)
            BY <1>3, <4>1, <6>1 DEF Chain
          <6>3. out.mac = IF j = 1 THEN t.mac ELSE wire'[j - 1].tsig
            <7>1. CASE n = 0
              <8>1. wire = <<>>
                BY <1>2, <7>1 DEF Shapes, IsSeq
              <8> QED BY <4>1, <5>2, <7>1, <8>1 DEF Chain
            <7>2. CASE n # 0
              <8>1. wire # <<>> /\ j # 1 /\ j - 1 = n /\ n \in 1..n
                BY <4>2, <5>2, <7>2
              <8>2. wire'[j - 1] = wire[n] /\ out.mac = wire[n].tsig
                BY <2>9, <4>1, <8>1 DEF Chain
              <8> QED BY <8>1, <8>2
            <7> QED BY <7>1, <7>2
          <6>4. wire'[j].n = out'.n - Len(wire') - 1 + j
            BY <4>2, <4>6, <5>2, <6>1
          <6>5. mac = Digest(out.n, out.timersOnly, out.mac)
            BY DEF mac
          <6> QED BY <6>1, <6>2, <6>3, <6>4, <6>5, Zenon
        <5> QED BY <4>2, <5>1, <5>2
      <4> HIDE DEF n
      <4> QED BY <1>1, <4>2, <4>3, <4>5, <4>6, <4>7, <4>8 DEF Chain
    <3>3. Signs' = Signs
      BY <1>1 DEF Signs
    <3> QED BY <2>16, <3>1, <3>2, <3>3 DEF Signatures
  <2>21. Position' /\ Ended'
    BY <1>1, <2>16 DEF IInv, Position, Ended, Cause, Unchanged
  <2> QED BY <2>13, <2>14, <2>15, <2>17, <2>18, <2>19, <2>20, <2>21 DEF IInv
<1> QED BY <1>4, <1>5

-----------------------------------------------------------------------------
(* The steps of the client.                                                *)

\* A step of the client leaves the server alone.
LEMMA ServerKept ==
  ASSUME IInv, UNCHANGED <<job, fault, todo, ch, out>>
  PROVE  ServerOrder' /\ StillToSend' /\ sent' = sent
<1>1. job' = job /\ fault' = fault /\ todo' = todo /\ ch' = ch /\ out' = out
  OBVIOUS
<1>2. sent' = sent
  BY <1>1 DEF sent
<1> QED BY <1>1, <1>2 DEF IInv, ServerOrder, StillToSend

\* The fields of the goroutine and of what it has read.
LEMMA InFields ==
  ASSUME IInv
  PROVE  /\ in \in InType /\ in.env \in Seq(RR) /\ got \in Seq(RR)
         /\ Len(in.env) \in Nat /\ Len(got) \in Nat /\ seen \in Nat
         /\ in.pc # "send" => in.env = <<>> /\ Len(in.env) = 0 /\ seen = Len(got)
<1>1. in \in InType /\ in.env \in Seq(RR) /\ got \in Seq(RR)
  BY DEF IInv, Shapes, InType
<1>2. Len(in.env) \in Nat /\ Len(got) \in Nat
  BY <1>1
<1>3. in.pc # "send" => in.env = <<>>
  BY DEF IInv, Shapes
<1> QED BY <1>1, <1>2, <1>3 DEF seen

\* Both sides agree on the signature of every message: reading one fails only when
\* the Transfer was used before.
LEMMA ReadErrIs ==
  ASSUME IInv, in.pc = "read", wire # <<>>
  PROVE  /\ ReadErr(Head(wire)) \in Errors
         /\ ReadErr(Head(wire)) = "nil" <=> ~(used /\ signed)
<1> DEFINE m == Head(wire)
<1>1. Active
  BY DEF Active
<1>2. m = wire[1] /\ Len(wire) \in Nat /\ 1 \in 1..Len(wire)
  BY TailMessages DEF IInv, Shapes
<1>3. /\ ReadErr(m) \in {"nil", "ErrNoSig", "ErrSig"}
      /\ signed /\ m.tsig = NoTsig => ReadErr(m) = "ErrNoSig"
      /\ ~signed => ReadErr(m) = "nil"
      /\ m.tsig = Digest(m.n, t.timersOnly, t.mac) /\ m.tsig # NoTsig => ReadErr(m) = "nil"
  BY DEF ReadErr
<1>4. CASE ~signed
  BY <1>3, <1>4 DEF Errors
<1>5. CASE signed /\ used
  <2>1. m.tsig = NoTsig
    BY <1>1, <1>2, <1>5 DEF IInv, Signatures, Signs
  <2> QED BY <1>3, <1>5, <2>1 DEF Errors
<1>6. CASE signed /\ ~used
  <2>1. Chain
    BY <1>1, <1>6 DEF IInv, Signatures, Signs
  <2>2. /\ wire[1].n = out.n - Len(wire) - 1 + 1
        /\ wire[1].tsig = Digest(wire[1].n, wire[1].n # 1,
                                 IF 1 = 1 THEN t.mac ELSE wire[1 - 1].tsig)
        /\ t.timersOnly <=> out.n - Len(wire) # 1
    BY <1>2, <2>1 DEF Chain
  <2>3. t.timersOnly = (wire[1].n # 1)
    <3>1. out.n - Len(wire) - 1 + 1 = out.n - Len(wire)
      BY <1>2, OutFields DEF IInv
    <3>2. t.timersOnly \in BOOLEAN
      BY DEF IInv, Shapes
    <3> QED BY <2>2, <3>1, <3>2
  <2>4. m.tsig = Digest(m.n, t.timersOnly, t.mac)
    <3>1. (IF 1 = 1 THEN t.mac ELSE wire[1 - 1].tsig) = t.mac
      OBVIOUS
    <3> QED BY <1>2, <2>2, <2>3, <3>1, Zenon
  <2>5. m.tsig # NoTsig
    <3>1. \A x, y, z : <<x, y, z>> # <<>>
      OBVIOUS
    <3> QED BY <2>4, <3>1, Zenon DEF Digest, NoTsig
  <2> QED BY <1>3, <1>6, <2>4, <2>5 DEF Errors
<1> QED BY <1>4, <1>5, <1>6 DEF IInv, Shapes

\* The last step of a transfer: what it may leave behind.
LEMMA EndStep ==
  ASSUME IInv, UNCHANGED <<job, fault, signed, used, todo, ch, out, got, quit>>, IsSeq(wire'),
         t' \in [mac : {t'.mac}, timersOnly : BOOLEAN, open : BOOLEAN],
         in' \in InType, in'.pc = "send", in'.last, Received', Ended'
  PROVE  IInv'
<1>1. ~Active'
  BY DEF Active
<1>2. Shapes'
  BY DEF IInv, Shapes
<1>3. ServerOrder' /\ StillToSend'
  BY ServerKept
<1> QED BY <1>1, <1>2, <1>3 DEF IInv, OnTheWay, FaultsOnTheWay, Signatures, Position

\* The read fails: the server has closed the connection before the last message.
LEMMA ReadFailsStep ==
  ASSUME IInv, ReadFails
  PROVE  IInv'
<1> DEFINE R == job.rrs
           none == <<>>
           yes == TRUE
<1>1. /\ in.pc = "read" /\ wire = <<>> /\ (out.pc \in {"returned", "failed"} \/ fault = "slow")
      /\ in' = Send(in, none, "read", yes)
      /\ job' = job /\ fault' = fault /\ signed' = signed /\ used' = used /\ t' = t /\ todo' = todo
      /\ ch' = ch /\ out' = out /\ wire' = wire /\ got' = got /\ err' = err /\ quit' = quit
  BY DEF ReadFails, server
<1>2. Active
  BY <1>1 DEF Active
<1>3. /\ in \in InType /\ in.env = <<>> /\ seen = Len(got) /\ Len(got) \in Nat
  BY <1>1, InFields
<1>4. in' \in InType /\ in'.pc = "send" /\ in'.env = <<>> /\ in'.err = "read" /\ in'.last
  <2>1. none \in Seq(RR) /\ "read" \in Errors /\ yes \in BOOLEAN
    BY DEF Errors
  <2> HIDE DEF none, yes
  <2>2. /\ in' \in InType /\ in'.pc = "send" /\ in'.env = none /\ in'.err = "read"
        /\ in'.last <=> yes
    BY <1>1, <1>3, <2>1, SendIs
  <2> QED BY <2>2 DEF none, yes
<1>5. seen' = seen
  <2>1. Len(in'.env) = 0
    BY <1>4
  <2> QED BY <1>1, <1>3, <2>1 DEF seen
<1>6. Received'
  BY <1>1, <1>3, <1>4, <1>5 DEF IInv, Received
<1>7. Cause
  <2>1. CASE fault = "slow" \/ out.pc = "failed"
    BY <2>1 DEF IInv, ServerOrder, Cause
  <2>2. CASE out.pc = "returned"
    <3>1. todo = <<>> /\ out.cur = <<>>
      BY <2>2 DEF IInv, ServerOrder
    <3>2. Len(R) \in Nat
      BY AnswerType DEF IInv
    <3>3. sent = Len(R)
      <4>1. Len(todo) = 0 /\ Len(out.cur) = 0
        BY <3>1
      <4> HIDE DEF R
      <4> QED BY <3>2, <4>1 DEF sent, R
    <3>4. seen = sent
      <4>1. PICK cut \in [1..(Len(wire) + 1) -> 0..Len(R)] : CutAt(cut)
        BY <1>2 DEF IInv, OnTheWay
      <4>2. Len(wire) + 1 = 1
        BY <1>1
      <4> QED BY <4>1, <4>2 DEF CutAt
    <3>5. isSOAFirst(R) => seen < Len(R)
      BY <1>2 DEF IInv, Position
    <3> QED BY <3>2, <3>3, <3>4, <3>5 DEF Cause
  <2> QED BY <1>1, <2>1, <2>2
<1>8. Ended'
  <2>1. err = "nil" /\ ((used /\ signed) => seen = 0)
    BY <1>2 DEF IInv, Position
  <2> QED BY <1>1, <1>4, <1>5, <1>7, <2>1 DEF Ended, Cause
<1>9. IsSeq(wire') /\ t' \in [mac : {t'.mac}, timersOnly : BOOLEAN, open : BOOLEAN]
  BY <1>1 DEF IInv, Shapes
<1> QED BY <1>1, <1>4, <1>6, <1>8, <1>9, EndStep

\* A message is read: the next records, in order; the goroutine goes on unless
\* they are the last, and is in step with the signatures when it does.
LEMMA ReadStep ==
  ASSUME IInv, Read
  PROVE  IInv'
<1> DEFINE R == job.rrs
           m == Head(wire)
           e == ReadErr(m)
           i == IF job.kind = "axfr" THEN inAxfr(m) ELSE inIxfr(m)
           to == t.timersOnly \/ (e = "nil" /\ SetsTimersOnly(m))
<1>1. /\ in.pc = "read" /\ wire # <<>> /\ wire' = Tail(wire)
      /\ job' = job /\ fault' = fault /\ signed' = signed /\ used' = used
      /\ todo' = todo /\ ch' = ch /\ out' = out /\ got' = got /\ err' = err /\ quit' = quit
  BY DEF Read, server
<1>2. /\ in' = IF e # "nil" THEN Send(in, <<>>, e, TRUE) ELSE i
      /\ t' = [t EXCEPT !.mac = NextMAC(m), !.timersOnly = to]
  BY DEF Read
<1>3. Active
  BY <1>1 DEF Active
<1>4. /\ IsSeq(wire') /\ Len(wire) \in Nat /\ Len(wire) >= 1 /\ Len(wire') = Len(wire) - 1
      /\ \A j \in 1..(Len(wire) - 1) : wire'[j] = wire[j + 1]
      /\ m = wire[1]
  BY <1>1, TailMessages DEF IInv, Shapes
<1>5. t' \in [mac : {t'.mac}, timersOnly : BOOLEAN, open : BOOLEAN]
      /\ t'.mac = NextMAC(m) /\ (t'.timersOnly <=> to)
  <2> DEFINE x == NextMAC(m)
  <2>1. to \in BOOLEAN
    BY DEF IInv, Shapes, SetsTimersOnly
  <2>2. t \in [mac : {t.mac}, timersOnly : BOOLEAN, open : BOOLEAN]
    BY DEF IInv, Shapes
  <2> HIDE DEF to, x
  <2>3. t' = [t EXCEPT !.mac = x, !.timersOnly = to]
    BY <1>2 DEF x
  <2>4. t' \in [mac : {t'.mac}, timersOnly : BOOLEAN, open : BOOLEAN]
    BY <2>1, <2>2, <2>3
  <2>5. t'.mac = x /\ t'.timersOnly = to
    BY <2>2, <2>3
  <2> QED BY <2>4, <2>5 DEF x
<1>6. /\ in \in InType /\ in.env = <<>> /\ seen = Len(got) /\ Len(got) \in Nat /\ got \in Seq(RR)
  BY <1>1, InFields
<1>7. e \in Errors /\ (e = "nil" <=> ~(used /\ signed))
  BY <1>1, ReadErrIs
<1>8. R \in Seq(RR) /\ Len(R) \in Nat
  BY AnswerType DEF IInv
<1>9. CASE e # "nil"
  <2> DEFINE none == <<>>
             yes == TRUE
  <2>1. in' = Send(in, none, e, yes)
    BY <1>2, <1>9, Zenon
  <2>2. in' \in InType /\ in'.pc = "send" /\ in'.env = <<>> /\ in'.err = e /\ in'.last
    <3>1. none \in Seq(RR) /\ yes \in BOOLEAN
      OBVIOUS
    <3> HIDE DEF none, yes, e
    <3>2. /\ in' \in InType /\ in'.pc = "send" /\ in'.env = none /\ in'.err = e
          /\ in'.last <=> yes
      BY <1>6, <1>7, <2>1, <3>1, SendIs
    <3> QED BY <3>2 DEF none, yes
  <2> HIDE DEF e
  <2>3. seen' = seen
    <3>1. Len(in'.env) = 0
      BY <2>2
    <3> QED BY <1>1, <1>6, <3>1 DEF seen
  <2>4. Received'
    BY <1>1, <1>6, <2>2, <2>3 DEF IInv, Received
  <2>5. Ended'
    <3>1. err = "nil" /\ seen = 0 /\ used /\ signed
      BY <1>3, <1>7, <1>9 DEF IInv, Position
    <3> QED BY <1>1, <1>9, <2>2, <2>3, <3>1 DEF Ended, Cause
  <2> QED BY <1>1, <1>4, <1>5, <2>2, <2>4, <2>5, EndStep
<1>10. CASE e = "nil"
  <2>1. in' = i /\ ~(used /\ signed)
    BY <1>2, <1>7, <1>10
  <2>2. PICK cut \in [1..(Len(wire) + 1) -> 0..Len(R)] : CutAt(cut)
    BY <1>3 DEF IInv, OnTheWay
  <2> DEFINE c == cut[1]
             d == cut[2]
  <2>3. /\ c \in Nat /\ d \in Nat /\ c < d /\ d <= Len(R) /\ c = seen
        /\ m.rrs = SubSeq(R, c + 1, d)
    <3>1. 1 \in 1..Len(wire) /\ 1 + 1 = 2 /\ 1 \in 1..(Len(wire) + 1) /\ 2 \in 1..(Len(wire) + 1)
      BY <1>4
    <3>2. cut[1] = seen /\ cut[1] < cut[2] /\ wire[1].rrs = SubSeq(R, cut[1] + 1, cut[2])
      BY <2>2, <3>1 DEF CutAt
    <3>3. cut[1] \in 0..Len(R) /\ cut[2] \in 0..Len(R)
      BY <2>2, <3>1
    <3>4. cut[1] \in Nat /\ cut[2] \in Nat /\ cut[2] <= Len(R)
      <4> HIDE DEF R
      <4> QED BY <1>8, <3>3
    <3> QED BY <1>4, <3>2, <3>4, Zenon
  <2>4. Reads(m, c, d)
    <3>1. (~m.idOK => fault = "id") /\ (~m.rcodeOK => fault = "rcode")
      <4>1. 1 \in 1..Len(wire)
        BY <1>4
      <4> QED BY <1>3, <1>4, <4>1 DEF IInv, FaultsOnTheWay
    <3>2. job \in Transfers /\ Position
      BY DEF IInv, Shapes
    <3> HIDE DEF m, c, d
    <3> QED BY <1>3, <1>6, <2>3, <3>1, <3>2 DEF Reads
  <2>5. Handled(i, m, d)
    <3>1. job.kind \in {"axfr", "ixfr"}
      BY TransferAssumption DEF IInv, Shapes
    <3> HIDE DEF m, c, d
    <3> QED BY <2>4, <3>1, AxfrHandles, IxfrHandles
  <2>6. to <=> t.timersOnly \/ (i.err = "nil" /\ (job.kind = "axfr" \/ ~i.last \/ i.n > 0))
    BY <1>10 DEF SetsTimersOnly
  <2>7. m.rrs \in Seq(RR) /\ Len(m.rrs) = d - c
    <3> HIDE DEF m, c, d
    <3> QED BY <2>4, MessageRecords
  <2> HIDE DEF i, m, e, to, c, d
  <2>8. in' \in InType /\ in'.pc = "send" /\ in'.env = m.rrs
    BY <2>1, <2>5 DEF Handled
  <2>9. seen' = d /\ Len(got) = c
    <3>1. seen' = Len(got) + (d - c)
      BY <1>1, <2>7, <2>8 DEF seen
    <3> QED BY <1>6, <2>3, <3>1
  <2>10. Received'
    BY <1>1, <2>3, <2>8, <2>9 DEF IInv, Received
  <2>11. err = "nil"
    BY <1>3 DEF IInv, Position
  <2>12. CASE in'.last
    <3>1. ~Active'
      BY <2>8, <2>12 DEF Active
    <3>2. Ended'
      <4>1. (Unchanged' <=> Unchanged) /\ (Cause' <=> Cause)
        BY <1>1 DEF Unchanged, Cause
      <4>2. d > 0
        BY <2>3
      <4> QED BY <1>1, <2>1, <2>5, <2>8, <2>9, <2>11, <2>12, <4>1, <4>2 DEF Ended, Handled
    <3> QED BY <1>1, <1>4, <1>5, <2>8, <2>10, <2>12, <3>2, EndStep
  <2>13. CASE ~in'.last
    <3>1. Active'
      BY <2>8, <2>13 DEF Active
    <3>2. Shapes'
      BY <1>1, <1>4, <1>5, <2>8, Zenon DEF IInv, Shapes
    <3>3. ServerOrder' /\ StillToSend' /\ sent' = sent
      BY <1>1, ServerKept
    <3>4. OnTheWay'
      <4>1. PICK new \in [1..(Len(wire') + 1) -> 0..Len(R)] :
              new = [j \in 1..(Len(wire') + 1) |-> cut[j + 1]]
        <5> DEFINE f == [j \in 1..(Len(wire') + 1) |-> cut[j + 1]]
        <5>1. \A j \in 1..(Len(wire') + 1) : j + 1 \in 1..(Len(wire) + 1)
          BY <1>4
        <5>2. f \in [1..(Len(wire') + 1) -> 0..Len(R)]
          BY <2>2, <5>1
        <5> QED BY <5>2
      <4>2. new[1] = d /\ new[Len(wire') + 1] = sent
        <5>1. 1 \in 1..(Len(wire') + 1) /\ Len(wire') + 1 \in 1..(Len(wire') + 1)
              /\ 1 + 1 = 2 /\ Len(wire') + 1 + 1 = Len(wire) + 1
          BY <1>4
        <5>2. cut[Len(wire) + 1] = sent
          BY <2>2 DEF CutAt
        <5> QED BY <4>1, <5>1, <5>2 DEF d
      <4>3. ASSUME NEW j \in 1..Len(wire')
            PROVE  new[j] < new[j + 1] /\ wire'[j].rrs = SubSeq(R, new[j] + 1, new[j + 1])
        <5>1. j \in 1..(Len(wire') + 1) /\ j + 1 \in 1..(Len(wire') + 1) /\ j + 1 \in 1..Len(wire)
              /\ j \in 1..(Len(wire) - 1)
          BY <1>4
        <5>2. new[j] = cut[j + 1] /\ new[j + 1] = cut[j + 1 + 1] /\ wire'[j] = wire[j + 1]
          BY <1>4, <4>1, <5>1
        <5>3. /\ cut[j + 1] < cut[j + 1 + 1]
              /\ wire[j + 1].rrs = SubSeq(R, cut[j + 1] + 1, cut[j + 1 + 1])
          BY <2>2, <5>1 DEF CutAt
        <5> QED BY <5>2, <5>3
      <4>4. CutAt(new)'
        BY <1>1, <2>9, <3>3, <4>1, <4>2, <4>3 DEF CutAt
      <4> QED BY <1>1, <4>1, <4>4 DEF OnTheWay
    <3>5. FaultsOnTheWay'
      <4>1. \A j \in 1..Len(wire') : j + 1 \in 1..Len(wire) /\ wire'[j] = wire[j + 1]
        BY <1>4
      <4> QED BY <1>1, <1>3, <4>1 DEF IInv, FaultsOnTheWay
    <3>6. Position'
      <4>1. in'.err = "nil" /\ d > 0
        BY <2>1, <2>3, <2>5, <2>13 DEF Handled
      <4>2. job.kind = "axfr" => ~in'.first
        BY <2>1, <2>5, <2>13 DEF Handled
      <4>3. isSOAFirst(R) /\ d < Len(R)
        BY <2>1, <2>5, <2>13 DEF Handled
      <4>4. job.kind = "ixfr" => /\ in'.n = OwnSOAs(R, d)
                                 /\ in'.axfr <=> OnlyOwnSOA(R, d)
                                 /\ in'.serial = R[1][2]
                                 /\ ~upToDate(job.qser, in'.serial)
        BY <2>1, <2>5, <2>13 DEF Handled
      <4>5. d # 0
        BY <2>3, <4>1
      <4> QED BY <1>1, <2>1, <2>9, <2>11, <4>1, <4>2, <4>3, <4>4, <4>5 DEF Position
    <3>7. Ended'
      BY <3>1 DEF Ended
    <3>8. Signatures'
      <4>1. ASSUME ~Signs PROVE \A j \in 1..Len(wire') : wire'[j].tsig = NoTsig
        <5>1. \A j \in 1..Len(wire') : j + 1 \in 1..Len(wire) /\ wire'[j] = wire[j + 1]
          BY <1>4
        <5> QED BY <1>3, <4>1, <5>1 DEF IInv, Signatures
      <4>2. ASSUME Signs PROVE Chain'
        <5>1. Chain
          BY <1>3, <4>2 DEF IInv, Signatures
        <5>2. 1 \in 1..Len(wire) /\ out.n \in Nat
          BY <1>4, OutFields DEF IInv
        <5>3. m.tsig = Digest(m.n, m.n # 1, IF 1 = 1 THEN t.mac ELSE wire[1 - 1].tsig)
          BY <1>4, <5>1, <5>2 DEF Chain
        <5>4. m.tsig # NoTsig
          <6>1. \A x, y, z : <<x, y, z>> # <<>>
            OBVIOUS
          <6> QED BY <5>3, <6>1, Zenon DEF Digest, NoTsig
        <5>5. t'.mac = wire[1].tsig
          BY <1>4, <1>5, <4>2, <5>4 DEF NextMAC, Signs
        <5>6. t'.timersOnly
          <6>1. i.err = "nil"
            BY <2>1, <2>5, <2>13 DEF Handled
          <6> QED BY <1>5, <2>1, <2>6, <2>13, <6>1
        <5>7. out'.n - Len(wire') >= 1 /\ out'.n - Len(wire') # 1
          <6>1. out.n - Len(wire) >= 1
            BY <5>1 DEF Chain
          <6> QED BY <1>1, <1>4, <5>2, <6>1
        <5>8. out'.mac = IF wire' = <<>> THEN t'.mac ELSE wire'[Len(wire')].tsig
          <6>1. out.mac = wire[Len(wire)].tsig
            BY <1>1, <5>1 DEF Chain
          <6>2. CASE Len(wire) = 1
            <7>1. wire' = <<>>
              BY <1>4, <6>2 DEF IsSeq
            <7> QED BY <1>1, <5>5, <6>1, <6>2, <7>1
          <6>3. CASE Len(wire) # 1
            <7>1. wire' # <<>> /\ Len(wire') \in 1..(Len(wire) - 1) /\ Len(wire') + 1 = Len(wire)
              BY <1>4, <6>3
            <7>2. wire'[Len(wire')] = wire[Len(wire)]
              BY <1>4, <7>1
            <7> QED BY <1>1, <6>1, <7>1, <7>2
          <6> QED BY <6>2, <6>3
        <5>9. out'.timersOnly <=> out'.n # 1
          BY <1>1, <5>1 DEF Chain
        <5>10. ASSUME NEW j \in 1..Len(wire')
               PROVE  /\ wire'[j].n = out'.n - Len(wire') - 1 + j
                      /\ wire'[j].tsig = Digest(wire'[j].n, wire'[j].n # 1,
                                                IF j = 1 THEN t'.mac ELSE wire'[j - 1].tsig)
          <6>1. j + 1 \in 1..Len(wire) /\ wire'[j] = wire[j + 1] /\ j + 1 # 1 /\ j + 1 - 1 = j
                /\ (j # 1 => wire'[j - 1] = wire[j])
            <7>1. j \in 1..(Len(wire) - 1) /\ (j # 1 => j - 1 \in 1..(Len(wire) - 1))
                  /\ j - 1 + 1 = j
              BY <1>4
            <7>2. j + 1 \in 1..Len(wire) /\ j + 1 # 1 /\ j + 1 - 1 = j
              BY <1>4
            <7>3. wire'[j] = wire[j + 1]
              BY <1>4, <7>1
            <7>4. j # 1 => wire'[j - 1] = wire[j - 1 + 1]
              BY <1>4, <7>1
            <7> QED BY <7>1, <7>2, <7>3, <7>4, Zenon
          <6>2. /\ wire[j + 1].n = out.n - Len(wire) - 1 + (j + 1)
                /\ wire[j + 1].tsig = Digest(wire[j + 1].n, wire[j + 1].n # 1,
                                         IF j + 1 = 1 THEN t.mac ELSE wire[j + 1 - 1].tsig)
            BY <5>1, <6>1 DEF Chain
          <6>3. out.n - Len(wire) - 1 + (j + 1) = out'.n - Len(wire') - 1 + j
            <7>1. out'.n = out.n /\ Len(wire') = Len(wire) - 1 /\ j \in Int
                  /\ out.n \in Int /\ Len(wire) \in Int
              BY <1>1, <1>4, <5>2
            <7>2. \A a, b, k \in Int : a - b - 1 + (k + 1) = a - (b - 1) - 1 + k
              OBVIOUS
            <7>3. out.n - Len(wire) - 1 + (j + 1) = out.n - (Len(wire) - 1) - 1 + j
              BY <7>1, <7>2
            <7> QED BY <7>1, <7>3, Zenon
          <6>4. (IF j + 1 = 1 THEN t.mac ELSE wire[j + 1 - 1].tsig)
                  = (IF j = 1 THEN t'.mac ELSE wire'[j - 1].tsig)
            BY <5>5, <6>1
          <6> QED BY <6>1, <6>2, <6>3, <6>4, Zenon
        <5> QED BY <5>6, <5>7, <5>8, <5>9, <5>10 DEF Chain
      <4>3. Signs' = Signs
        BY <1>1 DEF Signs
      <4> QED BY <4>1, <4>2, <4>3 DEF Signatures
    <3> QED BY <2>10, <3>2, <3>3, <3>4, <3>5, <3>6, <3>7, <3>8 DEF IInv
  <2> QED BY <2>12, <2>13
<1> QED BY <1>9, <1>10

\* The consumer receives the envelope.
LEMMA ReceiveStep ==
  ASSUME IInv, Receive
  PROVE  IInv'
<1> DEFINE R == job.rrs
           pc == IF in.last THEN "close" ELSE "read"
           none == <<>>
<1>1. /\ in.pc = "send" /\ got' = got \o in.env /\ err' = in.err
      /\ in' = [in EXCEPT !.pc = pc, !.env = none]
      /\ job' = job /\ fault' = fault /\ signed' = signed /\ used' = used /\ t' = t /\ todo' = todo
      /\ ch' = ch /\ out' = out /\ wire' = wire /\ quit' = quit
  BY DEF Receive, server
<1>2. /\ in \in InType /\ in.env \in Seq(RR) /\ got \in Seq(RR)
      /\ Len(in.env) \in Nat /\ Len(got) \in Nat /\ seen \in Nat
  BY InFields
<1>3. /\ in' \in InType /\ in'.pc = pc /\ in'.env = <<>> /\ in'.n = in.n
      /\ in'.serial = in.serial /\ in'.err = in.err
  <2>1. none \in Seq(RR) /\ pc \in {"read", "close"}
    OBVIOUS
  <2> HIDE DEF none, pc
  <2>2. in' \in InType
    BY <1>1, <1>2, <2>1 DEF InType
  <2>3. in'.pc = pc /\ in'.env = none /\ in'.n = in.n /\ in'.serial = in.serial /\ in'.err = in.err
    BY <1>1, <1>2 DEF InType
  <2> QED BY <2>2, <2>3 DEF none
<1>4. in'.first = in.first /\ in'.axfr = in.axfr /\ in'.last = in.last
  <2> HIDE DEF none, pc
  <2> QED BY <1>1, <1>2 DEF InType
<1>5. R \in Seq(RR) /\ Len(R) \in Nat
  BY AnswerType DEF IInv
<1>6. got' \in Seq(RR) /\ Len(got') = seen
  BY <1>1, <1>2, ConcatProperties DEF seen
<1>7. seen' = seen
  <2>1. Len(in'.env) = 0
    BY <1>3
  <2> QED BY <1>2, <1>6, <2>1 DEF seen
<1>8. Active' <=> Active
  BY <1>1, <1>3 DEF Active
<1>9. got' = SubSeq(R, 1, seen) /\ seen <= Len(R)
  <2>1. /\ got = SubSeq(R, 1, Len(got)) /\ in.env = SubSeq(R, Len(got) + 1, seen)
        /\ seen <= Len(R)
    BY DEF IInv, Received
  <2>2. Len(got) <= seen /\ 0 <= Len(got) /\ seen <= Len(R)
    <3>1. seen <= Len(R)
      BY DEF IInv, Received
    <3>2. Len(got) <= seen /\ 0 <= Len(got)
      BY <1>2 DEF seen
    <3> QED BY <3>1, <3>2
  <2>3. SubSeq(R, 0 + 1, Len(got)) \o SubSeq(R, Len(got) + 1, seen) = SubSeq(R, 0 + 1, seen)
    <3> HIDE DEF R
    <3> DEFINE a == 0
               b == Len(got)
               c == seen
    <3>1. a \in Nat /\ b \in Nat /\ c \in Nat /\ a <= b /\ b <= c /\ c <= Len(R)
      BY <1>2, <2>2
    <3> HIDE DEF a, b, c
    <3>2. SubSeq(R, a + 1, b) \o SubSeq(R, b + 1, c) = SubSeq(R, a + 1, c)
      BY <1>5, <3>1, SegmentsMeet
    <3> QED BY <3>2 DEF a, b, c
  <2>4. 0 + 1 = 1
    OBVIOUS
  <2> QED BY <1>1, <2>1, <2>3, <2>4, Zenon
<1> HIDE DEF pc
<1>10. Shapes'
  BY <1>1, <1>3, <1>6, Zenon DEF IInv, Shapes
<1>11. ServerOrder' /\ StillToSend' /\ sent' = sent
  BY <1>1, ServerKept
<1>12. Received'
  <2>1. SubSeq(R, Len(got') + 1, seen) = <<>>
    BY <1>2, <1>6, SubSeqEmpty
  <2> QED BY <1>1, <1>3, <1>6, <1>7, <1>9, <2>1 DEF Received
<1>13. OnTheWay'
  <2>1. \A cut : CutAt(cut) => CutAt(cut)'
    BY <1>1, <1>7, <1>11 DEF CutAt
  <2> QED BY <1>1, <1>8, <2>1 DEF IInv, OnTheWay
<1>14. FaultsOnTheWay'
  BY <1>1, <1>8 DEF IInv, FaultsOnTheWay
<1>15. Signatures'
  <2>1. Chain => Chain'
    BY <1>1 DEF Chain
  <2> QED BY <1>1, <1>8, <2>1 DEF IInv, Signatures, Signs
<1>16. Position'
  BY <1>1, <1>3, <1>4, <1>7, <1>8 DEF IInv, Position
<1>17. Ended'
  <2>1. ~Active => in'.pc # "send"
    BY <1>1, <1>3 DEF Active, pc
  <2> QED BY <1>1, <1>3, <1>7, <1>8, <2>1 DEF IInv, Ended, Cause, Unchanged
<1> QED BY <1>10, <1>11, <1>12, <1>13, <1>14, <1>15, <1>16, <1>17 DEF IInv

\* The deferred function closes the connection and the channel, and the consumer
\* may stop receiving: none of this moves a record.
LEMMA CloseInStep ==
  ASSUME IInv, CloseConn \/ CloseChannel \/ Quit
  PROVE  IInv'
<1>1. /\ job' = job /\ fault' = fault /\ signed' = signed /\ used' = used /\ todo' = todo
      /\ ch' = ch /\ out' = out /\ wire' = wire /\ got' = got /\ err' = err
      /\ quit' \in {quit, TRUE}
  BY DEF CloseConn, CloseChannel, Quit, server
<1>2. /\ in \in InType /\ t \in [mac : {t.mac}, timersOnly : BOOLEAN, open : BOOLEAN]
  BY DEF IInv, Shapes
<1>3. /\ in' \in InType /\ in'.n = in.n /\ in'.serial = in.serial /\ in'.err = in.err
      /\ in'.env = in.env
      /\ in'.pc = in.pc \/ (in.pc \in {"close", "closeCh"} /\ in'.pc \in {"closeCh", "done"})
  BY <1>2 DEF CloseConn, CloseChannel, Quit, InType
<1>4. in'.first = in.first /\ in'.axfr = in.axfr /\ in'.last = in.last
  BY <1>2 DEF CloseConn, CloseChannel, Quit, InType
<1>5. t' \in [mac : {t'.mac}, timersOnly : BOOLEAN, open : BOOLEAN] /\ t'.mac = t.mac
  BY <1>2 DEF CloseConn, CloseChannel, Quit
<1>6. t'.timersOnly = t.timersOnly
  BY <1>2 DEF CloseConn, CloseChannel, Quit
<1>7. seen' = seen /\ (Active' <=> Active)
  BY <1>1, <1>3, <1>4 DEF seen, Active
<1>8. Shapes'
  <2>1. quit' \in BOOLEAN
    BY <1>1 DEF IInv, Shapes
  <2>2. in'.pc # "send" => in'.env = <<>>
    BY <1>3 DEF IInv, Shapes
  <2> QED BY <1>1, <1>3, <1>5, <2>1, <2>2, Zenon DEF IInv, Shapes
<1>9. ServerOrder' /\ StillToSend' /\ sent' = sent
  BY <1>1, ServerKept
<1>10. Received'
  BY <1>1, <1>3, <1>7 DEF IInv, Received
<1>11. OnTheWay'
  <2>1. \A cut : CutAt(cut) => CutAt(cut)'
    BY <1>1, <1>7, <1>9 DEF CutAt
  <2> QED BY <1>1, <1>7, <2>1 DEF IInv, OnTheWay
<1>12. FaultsOnTheWay'
  BY <1>1, <1>7 DEF IInv, FaultsOnTheWay
<1>13. Signatures'
  <2>1. Chain => Chain'
    BY <1>1, <1>5, <1>6 DEF Chain
  <2> QED BY <1>1, <1>7, <2>1 DEF IInv, Signatures, Signs
<1>14. Position'
  BY <1>1, <1>3, <1>4, <1>7 DEF IInv, Position
<1>15. Ended'
  <2>1. in'.pc = "send" <=> in.pc = "send"
    BY <1>3
  <2> QED BY <1>1, <1>3, <1>7, <2>1 DEF IInv, Ended, Cause, Unchanged
<1> QED BY <1>8, <1>9, <1>10, <1>11, <1>12, <1>13, <1>14, <1>15 DEF IInv

-----------------------------------------------------------------------------
(* The theorems.                                                           *)

\* Every step of the server and of the client keeps the invariant.
LEMMA IInvStep == IInv /\ [Next]_vars => IInv'
<1> SUFFICES ASSUME IInv, [Next]_vars PROVE IInv'
  OBVIOUS
<1>1. ASSUME NEW k \in 1..Len(todo), Hand(k) PROVE IInv'
  BY <1>1, HandStep
<1>2. CASE CloseCh \/ OutReturn
  BY <1>2, CloseStep
<1>3. CASE OutWrite
  BY <1>3, OutWriteStep
<1>4. CASE Read
  BY <1>4, ReadStep
<1>5. CASE ReadFails
  BY <1>5, ReadFailsStep
<1>6. CASE Receive
  BY <1>6, ReceiveStep
<1>7. CASE CloseConn \/ CloseChannel \/ Quit
  BY <1>7, CloseInStep
<1>8. CASE UNCHANGED vars
  <2>1. /\ job' = job /\ fault' = fault /\ signed' = signed /\ used' = used /\ t' = t
        /\ todo' = todo /\ ch' = ch /\ out' = out /\ wire' = wire /\ in' = in /\ got' = got
        /\ err' = err /\ quit' = quit
    BY <1>8 DEF vars
  <2>2. sent' = sent
    BY <2>1 DEF sent
  <2>3. Shapes' /\ ServerOrder' /\ StillToSend'
    BY <2>1, <2>2 DEF IInv, Shapes, ServerOrder, StillToSend
  <2>4. Received' /\ OnTheWay' /\ FaultsOnTheWay' /\ Signatures' /\ Position' /\ Ended'
    BY <2>1, <2>2, NothingSent
  <2> QED BY <2>3, <2>4 DEF IInv
<1> QED BY <1>1, <1>2, <1>3, <1>4, <1>5, <1>6, <1>7, <1>8 DEF Next

\* The types of both sides; inIxfr never counts a fourth SOA with the server's
\* serial, in an answer of any length that is cut into messages in any way.
THEOREM TypeCorrect == Spec => []TypeOK
<1>1. IInv => TypeOK
  <2> SUFFICES ASSUME IInv PROVE TypeOK
    OBVIOUS
  <2>1. Shapes
    BY DEF IInv
  <2>2. in.pc \in {"read", "send", "close", "closeCh", "done"} /\ in.n \in 0..3
    BY <2>1 DEF Shapes, InType
  <2>3. t.open \in BOOLEAN /\ t.timersOnly \in BOOLEAN
    BY <2>1 DEF Shapes
  <2>4. out.pc \in {"range", "write", "failed", "returned"} /\ ch \in {"open", "closed"}
        /\ quit \in BOOLEAN
    BY <2>1 DEF Shapes
  <2> QED BY <2>2, <2>3, <2>4 DEF TypeOK
<1> QED BY <1>1, IInvInit, IInvStep, PTL DEF Spec

\* What the consumer has received is a beginning of the answer, and a transfer that
\* ends without an error is complete: inAxfr and inIxfr stop at the last record and
\* at none before it.
THEOREM TransfersAreComplete == Spec => []CompleteOrError
<1>1. IInv => CompleteOrError
  <2> SUFFICES ASSUME IInv PROVE CompleteOrError
    OBVIOUS
  <2> DEFINE R == job.rrs
  <2>1. R \in Seq(RR) /\ Len(R) \in Nat
    BY AnswerType DEF IInv
  <2>2. got \in Seq(RR) /\ Len(got) \in Nat /\ (in.pc # "send" => seen = Len(got))
    BY InFields
  <2>3. got = SubSeq(R, 1, Len(got)) /\ seen <= Len(R) /\ Len(got) <= Len(R)
    <3>1. got = SubSeq(R, 1, Len(got))
      BY DEF IInv, Received
    <3>2. seen <= Len(R)
      BY DEF IInv, Received
    <3>3. Len(got) <= seen /\ seen \in Nat
      BY InFields DEF seen
    <3>4. Len(got) <= Len(R)
      BY <2>1, <2>2, <3>2, <3>3
    <3> QED BY <3>1, <3>2, <3>4
  <2>4. IsPrefix(got, R)
    BY <2>1, <2>2, <2>3 DEF IsPrefix
  <2>5. ASSUME in.pc = "done", err = "nil", job.kind = "axfr" \/ ~upToDate(job.qser, R[1][2])
        PROVE  got = R
    <3>1. in.err = "nil" /\ ~Active
      BY <2>5 DEF IInv, Ended, Active
    <3>2. seen = Len(R)
      BY <2>5, <3>1 DEF IInv, Ended, Unchanged
    <3>3. got = SubSeq(R, 1, Len(R))
      BY <2>2, <2>3, <2>5, <3>2
    <3> QED BY <2>1, <3>3, SubSeqFull
  <2> QED BY <2>4, <2>5 DEF CompleteOrError
<1> QED BY <1>1, IInvInit, IInvStep, PTL DEF Spec

\* An error has a cause: in a transfer without one the two sides agree on the MAC and
\* on timersOnly of every message; a Transfer that is used again for a signed transfer
\* always ends with an error and gives its consumer no record.
THEOREM ErrorsAreCaused == Spec => []ErrorsHaveCauses
<1>1. IInv => ErrorsHaveCauses
  <2> SUFFICES ASSUME IInv PROVE ErrorsHaveCauses
    OBVIOUS
  <2>1. ASSUME err # "nil" PROVE Cause
    <3>1. ~Active /\ in.err = err
      BY <2>1 DEF IInv, Position, Ended
    <3> QED BY <2>1, <3>1 DEF IInv, Ended
  <2>2. ASSUME in.pc = "done", used, signed PROVE err # "nil" /\ got = <<>>
    <3>1. ~Active
      BY <2>2 DEF Active
    <3>2. err # "nil" /\ seen = 0
      BY <2>2, <3>1 DEF IInv, Ended
    <3>3. got \in Seq(RR) /\ seen = Len(got)
      BY <2>2, InFields
    <3> QED BY <3>2, <3>3
  <2> QED BY <2>1, <2>2 DEF ErrorsHaveCauses, Cause
<1> QED BY <1>1, IInvInit, IInvStep, PTL DEF Spec

-----------------------------------------------------------------------------
(* Refinement.                                                             *)

\* The deferred function closes the connection, and nothing else does.
ConnFirst == t.open <=> in.pc \notin {"closeCh", "done"}

\* A read leaves the connection open and the goroutine before a send.
LEMMA ReadsStayOpen ==
  ASSUME IInv, ConnFirst, Read \/ ReadFails
  PROVE  t'.open /\ in'.pc = "send"
<1>1. in \in InType /\ t \in [mac : {t.mac}, timersOnly : BOOLEAN, open : BOOLEAN]
  BY DEF IInv, Shapes
<1>2. in.pc = "read" /\ t.open
  BY DEF ConnFirst, Read, ReadFails
<1>3. CASE Read
  <2> DEFINE m == Head(wire)
  <2>1. PICK mac, to : t' = [t EXCEPT !.mac = mac, !.timersOnly = to]
    BY <1>3 DEF Read
  <2>2. t'.open = t.open
    BY <1>1, <2>1
  <2>3. in'.pc = "send"
    <3>1. ASSUME NEW i, NEW rrs, NEW e, NEW last, "pc" \in DOMAIN i
          PROVE  Send(i, rrs, e, last).pc = "send"
      BY <3>1 DEF Send
    <3>2. "pc" \in DOMAIN in
      BY <1>1 DEF InType
    <3>3. \A i, x : "pc" \in DOMAIN i =>
            "pc" \in DOMAIN [i EXCEPT !.first = x] /\ "pc" \in DOMAIN [i EXCEPT !.serial = x]
      OBVIOUS
    <3>4. \A i, x, y : "pc" \in DOMAIN i => "pc" \in DOMAIN [i EXCEPT !.n = x, !.axfr = y]
      OBVIOUS
    <3>5. inAxfr(m).pc = "send"
      BY <3>1, <3>2, <3>3, Zenon DEF inAxfr
    <3>6. inIxfr(m).pc = "send"
      <4> DEFINE a == IF in.n = 0 THEN [in EXCEPT !.serial = m.rrs[1][2]] ELSE in
                 c == CountSOA(a, m.rrs)
      <4>1. "pc" \in DOMAIN a
        BY <3>2, <3>3, Zenon
      <4>2. "pc" \in DOMAIN [a EXCEPT !.n = c.n, !.axfr = c.axfr]
        BY <3>4, <4>1, Zenon
      <4>3. \/ \E e : inIxfr(m) = Send(in, m.rrs, e, TRUE)
            \/ inIxfr(m) = Send(a, m.rrs, "nil", TRUE)
            \/ inIxfr(m) = Send([a EXCEPT !.n = c.n, !.axfr = c.axfr], m.rrs, "nil", c.stop)
        BY Zenon DEF inIxfr
      <4> DEFINE b == [a EXCEPT !.n = c.n, !.axfr = c.axfr]
      <4> HIDE DEF b, c, a
      <4>4. "pc" \in DOMAIN b
        BY <4>2 DEF b
      <4>5. \E rrs, e, last : \/ inIxfr(m) = Send(in, rrs, e, last)
                              \/ inIxfr(m) = Send(a, rrs, e, last)
                              \/ inIxfr(m) = Send(b, rrs, e, last)
        BY <4>3, Zenon DEF b
      <4>6. \A rrs, e, last : Send(a, rrs, e, last).pc = "send" /\ Send(b, rrs, e, last).pc = "send"
        BY <3>1, <4>1, <4>4
      <4>7. \A rrs, e, last : Send(in, rrs, e, last).pc = "send"
        BY <3>1, <3>2
      <4> QED BY <4>5, <4>6, <4>7
    <3>7. \/ \E e : in' = Send(in, <<>>, e, TRUE)
          \/ in' = inAxfr(m) \/ in' = inIxfr(m)
      BY <1>3, Zenon DEF Read
    <3> QED BY <3>1, <3>2, <3>5, <3>6, <3>7, Zenon
  <2> QED BY <1>2, <2>2, <2>3
<1>4. CASE ReadFails
  BY <1>1, <1>2, <1>4 DEF ReadFails, Send, InType
<1> QED BY <1>3, <1>4

\* What a step of the goroutine does to the connection.
LEMMA ConnFirstStep ==
  ASSUME IInv, ConnFirst, [Next]_vars
  PROVE  ConnFirst'
<1>1. in \in InType /\ t \in [mac : {t.mac}, timersOnly : BOOLEAN, open : BOOLEAN]
  BY DEF IInv, Shapes
<1>2. CASE UNCHANGED <<t, in>>
  BY <1>2 DEF ConnFirst
<1>3. CASE Read \/ ReadFails
  <2>1. t'.open /\ in'.pc = "send"
    BY <1>3, ReadsStayOpen
  <2> QED BY <2>1 DEF ConnFirst
<1>5. CASE Receive
  BY <1>1, <1>5 DEF ConnFirst, Receive, InType
<1>6. CASE CloseConn
  BY <1>1, <1>6 DEF ConnFirst, CloseConn, InType
<1>7. CASE CloseChannel
  BY <1>1, <1>7 DEF ConnFirst, CloseChannel, InType
<1> QED BY <1>2, <1>3, <1>5, <1>6, <1>7
        DEF Next, Hand, CloseCh, OutWrite, OutReturn, Quit, vars

\* Every step of Transfer is, for the consumer, a step of ZoneCopy or none.
LEMMA CopyStep ==
  ASSUME IInv, ConnFirst, [Next]_vars
  PROVE  [Copy!Next]_(Copy!vars)
<1> DEFINE A == Answer(job)
           R == job.rrs
<1>1. /\ in \in InType /\ t \in [mac : {t.mac}, timersOnly : BOOLEAN, open : BOOLEAN]
      /\ (in.pc # "send" => in.env = <<>>)
  BY DEF IInv, Shapes
<1>2. A.rrs = R /\ (A.unchanged <=> Unchanged)
  BY DEF Answer, Unchanged
<1>3. Copy!vars = <<A, got, err # "nil", AbsPhase>>
  BY DEF Copy!vars
<1>4. UNCHANGED job => A' = A
  BY DEF Answer
<1>5. CASE UNCHANGED <<job, got, err, t, in>>
  <2>1. UNCHANGED <<A, got, err # "nil", AbsPhase>>
    BY <1>5 DEF Answer, AbsPhase
  <2> QED BY <2>1 DEF Copy!vars
<1>6. CASE Read \/ ReadFails
  <2>1. job' = job /\ got' = got /\ err' = err /\ in.pc = "read"
    BY <1>6 DEF Read, ReadFails
  <2>2. t.open
    BY <2>1 DEF ConnFirst
  <2>3. t'.open /\ in'.pc = "send"
    BY <1>6, <2>2, ReadsStayOpen
  <2>4. AbsPhase' = AbsPhase
    BY <2>1, <2>2, <2>3 DEF AbsPhase
  <2> QED BY <1>4, <2>1, <2>4 DEF Copy!vars
<1>7. CASE Receive
  <2> DEFINE k == Len(in.env)
  <2>1. /\ job' = job /\ t' = t /\ got' = got \o in.env /\ err' = in.err /\ in.pc = "send"
        /\ in' = [in EXCEPT !.pc = IF in.last THEN "close" ELSE "read", !.env = <<>>]
    BY <1>7 DEF Receive
  <2>2. t.open /\ in'.pc \in {"close", "read"}
    <3>1. t.open
      BY <2>1 DEF ConnFirst
    <3>2. in'.pc \in {"close", "read"}
      BY <1>1, <2>1 DEF InType
    <3> QED BY <3>1, <3>2
  <2>3. AbsPhase = "open" /\ AbsPhase' = "open"
    BY <2>1, <2>2 DEF AbsPhase
  <2>4. err = "nil"
    BY <2>1 DEF IInv, Position, Ended
  <2>5. IInv'
    BY IInvStep
  <2>6. /\ got \in Seq(RR) /\ in.env \in Seq(RR) /\ R \in Seq(RR)
        /\ Len(got) \in Nat /\ k \in Nat /\ Len(R) \in Nat
    BY InFields, AnswerType DEF IInv
  <2>7. Len(got') = Len(got) + k
    BY <2>1, <2>6, ConcatProperties
  <2>8. got' = SubSeq(R, 1, Len(got) + k) /\ Len(got) + k <= Len(R)
    <3>1. got' = SubSeq(R, 1, Len(got'))
      BY <2>1, <2>5 DEF IInv, Received
    <3>2. Len(got) + k <= Len(R)
      BY DEF IInv, Received, seen
    <3> QED BY <2>7, <3>1, <3>2
  <2>9. Copy!Envelope(k)
    BY <1>2, <1>4, <2>1, <2>3, <2>4, <2>8 DEF Copy!Envelope
  <2>10. CASE in.err # "nil"
    <3>1. k \in 0..(Len(A.rrs) - Len(got)) /\ (err' # "nil") = TRUE
      BY <1>2, <2>1, <2>6, <2>8, <2>10
    <3>2. Copy!Fail
      BY <2>9, <3>1 DEF Copy!Fail
    <3> QED BY <3>2 DEF Copy!Next
  <2>11. CASE in.err = "nil" /\ k # 0
    <3>1. k \in 1..(Len(A.rrs) - Len(got)) /\ (err' # "nil") = FALSE
      BY <1>2, <2>1, <2>6, <2>8, <2>11
    <3>2. Copy!Deliver
      BY <2>9, <3>1 DEF Copy!Deliver
    <3> QED BY <3>2 DEF Copy!Next
  <2>12. CASE in.err = "nil" /\ k = 0
    <3>1. got' = got
      BY <2>1, <2>6, <2>12
    <3>2. err' = err
      BY <2>1, <2>4, <2>12
    <3> QED BY <1>4, <2>1, <2>3, <3>1, <3>2 DEF Copy!vars
  <2> QED BY <2>10, <2>11, <2>12
<1>8. CASE CloseConn
  <2>1. /\ job' = job /\ got' = got /\ err' = err /\ in.pc = "close"
        /\ t' = [t EXCEPT !.open = FALSE] /\ in' = [in EXCEPT !.pc = "closeCh"]
    BY <1>8 DEF CloseConn
  <2>2. AbsPhase = "open" /\ AbsPhase' = "closed"
    <3>1. in'.pc = "closeCh" /\ ~t'.open
      BY <1>1, <2>1 DEF InType
    <3> QED BY <2>1, <3>1 DEF AbsPhase, ConnFirst
  <2>3. err # "nil" \/ Copy!Complete
    <3>1. ~Active /\ err = in.err
      BY <2>1 DEF IInv, Ended, Active
    <3>2. in.err = "nil" => got # <<>> /\ (got = R \/ Unchanged)
      <4>1. /\ seen = Len(got) /\ got \in Seq(RR) /\ got = SubSeq(R, 1, Len(got))
            /\ R \in Seq(RR)
        BY <2>1, InFields, AnswerType DEF IInv, Received
      <4>2. SubSeq(R, 1, Len(R)) = R
        BY <4>1, SubSeqFull
      <4>3. in.err = "nil" => seen > 0 /\ (seen = Len(R) \/ Unchanged)
        BY <3>1 DEF IInv, Ended
      <4> QED BY <4>1, <4>2, <4>3
    <3> QED BY <1>2, <3>1, <3>2 DEF Copy!Complete
  <2>4. Copy!Close
    BY <1>4, <2>1, <2>2, <2>3 DEF Copy!Close
  <2> QED BY <2>4 DEF Copy!Next
<1>9. CASE CloseChannel
  <2>1. /\ job' = job /\ got' = got /\ err' = err /\ in.pc = "closeCh"
        /\ in' = [in EXCEPT !.pc = "done"]
    BY <1>9 DEF CloseChannel
  <2>2. AbsPhase = "closed" /\ AbsPhase' = "ended"
    <3>1. in'.pc = "done"
      BY <1>1, <2>1 DEF InType
    <3> QED BY <2>1, <3>1 DEF AbsPhase, ConnFirst
  <2>3. Copy!End
    BY <1>4, <2>1, <2>2 DEF Copy!End
  <2> QED BY <2>3 DEF Copy!Next
<1> QED BY <1>5, <1>6, <1>7, <1>8, <1>9
        DEF Next, Hand, CloseCh, OutWrite, OutReturn, Quit, vars

\* A transfer implements ZoneCopy, for answers of any length cut into messages in any
\* way: no record is lost, repeated or out of order, nothing follows an error, the
\* goroutine ends only with an error or all of the answer, and whoever sees the
\* channel closed finds the connection closed.
THEOREM TransferImplementsCopy == Spec => ImplementsCopy
<1>1. Init => Copy!Init /\ ConnFirst
  <2> SUFFICES ASSUME Init PROVE Copy!Init /\ ConnFirst
    OBVIOUS
  <2>1. job \in Transfers /\ got = <<>> /\ err = "nil" /\ in.pc = "read" /\ t.open
    BY DEF Init
  <2>2. AbsPhase = "open"
    BY <2>1 DEF AbsPhase
  <2> QED BY <2>1, <2>2 DEF Copy!Init, ConnFirst
<1>2. Spec => [](IInv /\ ConnFirst)
  BY <1>1, IInvInit, IInvStep, ConnFirstStep, PTL DEF Spec
<1>3. IInv /\ ConnFirst /\ [Next]_vars => [Copy!Next]_(Copy!vars)
  BY CopyStep
<1> QED BY <1>1, <1>2, <1>3, PTL DEF Spec, ImplementsCopy, Copy!Spec

=============================================================================
