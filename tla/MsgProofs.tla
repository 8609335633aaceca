----------------------------- MODULE MsgProofs -----------------------------
(***************************************************************************)
(* Proofs about Msg: that the computed length covers what is packed, that  *)
(* the compression map is true, and that Truncate keeps its promise, for   *)
(* every corpus of messages whose records can be packed, every size and    *)
(* every limit on pointers and names.                                      *)
(***************************************************************************)
EXTENDS MsgInvariant, FiniteSetTheorems, WellFoundedInduction, TLAPS

\* A set of numbers that is not empty has a least one.
LEMMA Least ==
  ASSUME NEW T, T \subseteq Nat, T # {}
  PROVE  \E n \in T : \A k \in T : n <= k
<1>1. PICK n \in T : \A k \in T : <<k, n>> \notin OpToRel(<, Nat)  BY WFMin, NatLessThanWellFounded
<1>2. \A k \in T : ~ (k < n)  BY <1>1 DEF OpToRel
<1> QED BY <1>2

\* Min of a set of numbers is in it and below the others.
LEMMA MinIn ==
  ASSUME NEW T, T \subseteq Nat, T # {}
  PROVE  Min(T) \in T /\ \A k \in T : Min(T) <= k
BY Least DEF Min

\* The lesser of two numbers.
LEMMA MinTwo ==
  ASSUME NEW x \in Nat, NEW y \in Nat
  PROVE  Min({x, y}) = IF x <= y THEN x ELSE y
<1>1. Min({x, y}) \in {x, y} /\ \A k \in {x, y} : Min({x, y}) <= k  BY MinIn
<1> QED BY <1>1

\* Sequences of any values.
LEMMA SeqOfSome ==
  ASSUME NEW s, IsSeq(s), NEW U, \A i \in 1..Len(s) : s[i] \in U
  PROVE  s \in Seq(U) /\ Len(s) \in Nat /\ DOMAIN s = 1..Len(s)
BY DEF IsSeq

\* A function on 1..n is a sequence.
LEMMA FunctionIsSeq ==
  ASSUME NEW n \in Nat, NEW s, s = [i \in 1..n |-> s[i]]
  PROVE  IsSeq(s) /\ Len(s) = n
<1>1. DOMAIN s = 1..n  OBVIOUS
<1> DEFINE U == {s[i] : i \in 1..n}
<1>2. s \in [1..n -> U]  BY <1>1
<1>3. s \in Seq(U)  BY <1>2
<1> QED BY <1>1, <1>3 DEF IsSeq

\* So is a sequence of elements of a set.
LEMMA SeqIsSeq ==
  ASSUME NEW U, NEW s \in Seq(U)
  PROVE  IsSeq(s) /\ \A i \in 1..Len(s) : s[i] \in U
BY DEF IsSeq

\* One sequence behind another.
LEMMA Cat ==
  ASSUME NEW s, NEW t, IsSeq(s), IsSeq(t)
  PROVE  /\ IsSeq(s \o t) /\ Len(s) \in Nat /\ Len(t) \in Nat
         /\ Len(s \o t) = Len(s) + Len(t)
         /\ \A i \in 1..Len(s) : (s \o t)[i] = s[i]
         /\ \A i \in 1..Len(t) : (s \o t)[Len(s) + i] = t[i]
<1> DEFINE U == {s[i] : i \in 1..Len(s)} \cup {t[i] : i \in 1..Len(t)}
<1>1. s \in Seq(U) /\ t \in Seq(U) /\ Len(s) \in Nat /\ Len(t) \in Nat
  <2>1. \A i \in 1..Len(s) : s[i] \in U  OBVIOUS
  <2>2. \A i \in 1..Len(t) : t[i] \in U  OBVIOUS
  <2> HIDE DEF U
  <2> QED BY <2>1, <2>2, SeqOfSome
<1> HIDE DEF U
<1>2. s \o t \in Seq(U)  BY <1>1
<1>3. IsSeq(s \o t)  BY <1>2, SeqIsSeq
<1> QED BY <1>1, <1>2, <1>3

\* A part of a sequence.
LEMMA Piece ==
  ASSUME NEW s, IsSeq(s), NEW i \in Nat, NEW j \in Nat, 1 <= i, i <= j + 1, j <= Len(s)
  PROVE  /\ IsSeq(SubSeq(s, i, j)) /\ Len(SubSeq(s, i, j)) = j - i + 1 /\ Len(s) \in Nat
         /\ \A k \in 1..(j - i + 1) : SubSeq(s, i, j)[k] = s[i + k - 1]
<1> DEFINE U == {s[k] : k \in 1..Len(s)}
           n == j - i + 1
           t == SubSeq(s, i, j)
<1>1. s \in Seq(U) /\ Len(s) \in Nat
  <2>1. \A k \in 1..Len(s) : s[k] \in U  OBVIOUS
  <2> HIDE DEF U
  <2> QED BY <2>1, SeqOfSome
<1> HIDE DEF U
<1>2. t = [k \in 1..n |-> s[i + k - 1]] /\ n \in Nat  BY <1>1
<1> HIDE DEF n
<1>3. t = [k \in 1..n |-> t[k]]  BY <1>2
<1>4. IsSeq(t) /\ Len(t) = n
  <2> HIDE DEF t
  <2> QED BY <1>2, <1>3, FunctionIsSeq
<1>5. \A k \in 1..n : t[k] = s[i + k - 1]  BY <1>2
<1> QED BY <1>1, <1>4, <1>5 DEF n

\* A sequence of one element.
LEMMA One ==
  ASSUME NEW x
  PROVE  IsSeq(<<x>>) /\ Len(<<x>>) = 1 /\ <<x>>[1] = x
BY DEF IsSeq

\* A sequence with one more element.
LEMMA Added ==
  ASSUME NEW s, IsSeq(s), NEW x
  PROVE  /\ IsSeq(Append(s, x)) /\ Len(s) \in Nat
         /\ Len(Append(s, x)) = Len(s) + 1
         /\ \A i \in 1..Len(s) : Append(s, x)[i] = s[i]
         /\ Append(s, x)[Len(s) + 1] = x
<1> DEFINE U == {s[k] : k \in 1..Len(s)} \cup {x}
<1>1. s \in Seq(U) /\ x \in U /\ Len(s) \in Nat
  <2>1. \A k \in 1..Len(s) : s[k] \in U  OBVIOUS
  <2>2. x \in U  OBVIOUS
  <2> HIDE DEF U
  <2> QED BY <2>1, <2>2, SeqOfSome
<1> HIDE DEF U
<1>2. Append(s, x) \in Seq(U)  BY <1>1
<1>3. IsSeq(Append(s, x))  BY <1>2, SeqIsSeq
<1> QED BY <1>1, <1>2, <1>3

\* Sequences with the same elements are the same.
LEMMA SameSeq ==
  ASSUME NEW s, NEW t, IsSeq(s), IsSeq(t), Len(s) = Len(t), \A i \in 1..Len(s) : s[i] = t[i]
  PROVE  s = t
BY DEF IsSeq

\* There are partial sums.
LEMMA SumExists ==
  ASSUME NEW n \in Nat, NEW d, \A i \in 1..n : d[i] \in Nat
  PROVE  \E f : IsSum(f, d, n)
<1> DEFINE T == {k \in 0..n : ~ \E f : IsSum(f, d, k)}
<1>1. ASSUME T # {} PROVE FALSE
  <2>1. PICK k \in T : \A j \in T : k <= j
    <3>1. T \subseteq Nat  OBVIOUS
    <3> HIDE DEF T
    <3> QED BY <1>1, <3>1, Least
  <2>2. k \in 0..n /\ ~ \E f : IsSum(f, d, k)  BY <2>1
  <2>3. k # 0
    <3>1. IsSum([i \in 0..0 |-> 0], d, 0)  BY DEF IsSum
    <3> QED BY <2>2, <3>1
  <2>4. PICK f : IsSum(f, d, k - 1)  BY <2>1, <2>2, <2>3
  <2> DEFINE g == [i \in 0..k |-> IF i < k THEN f[i] ELSE f[k - 1] + d[k]]
  <2>5. k \in 1..n /\ d[k] \in Nat /\ f[k - 1] \in Nat  BY <2>2, <2>3, <2>4 DEF IsSum
  <2>6. g \in [0..k -> Nat] /\ g[0] = 0  BY <2>4, <2>5 DEF IsSum
  <2>7. \A i \in 1..k : g[i] = g[i - 1] + d[i]  BY <2>4, <2>5 DEF IsSum
  <2>8. IsSum(g, d, k)
    <3> HIDE DEF g
    <3> QED BY <2>6, <2>7 DEF IsSum
  <2> QED BY <2>2, <2>8
<1>2. n \in 0..n  OBVIOUS
<1> QED BY <1>1, <1>2

\* Total gives the last of the partial sums.
LEMMA TotalIsSum ==
  ASSUME NEW d, Len(d) \in Nat, NEW f, IsSum(f, d, Len(d))
  PROVE  Total(d) = f[Len(d)]
<1> DEFINE E(g) == g = [i \in 0..Len(d) |-> IF i = 0 THEN 0 ELSE 1 * g[i - 1] + d[i]]
           g0 == CHOOSE g : E(g)
<1>1. E(f)
  <2>1. f = [i \in 0..Len(d) |-> f[i]]  BY DEF IsSum
  <2>2. \A i \in 0..Len(d) : f[i] = IF i = 0 THEN 0 ELSE 1 * f[i - 1] + d[i]
    <3> TAKE i \in 0..Len(d)
    <3>1. CASE i = 0  BY <3>1 DEF IsSum
    <3>2. CASE i # 0
      <4>1. i \in 1..Len(d) /\ i - 1 \in 0..Len(d)  BY <3>2
      <4>2. f[i] = f[i - 1] + d[i] /\ f[i - 1] \in Nat  BY <4>1 DEF IsSum
      <4> QED BY <3>2, <4>2
    <3> QED BY <3>1, <3>2
  <2> QED BY <2>1, <2>2
<1>2. E(g0)
  <2> HIDE DEF E
  <2> QED BY <1>1
<1>3. Total(d) = g0[Len(d)]  BY DEF Total, Value
<1> HIDE DEF g0
<1> DEFINE T == {k \in 0..Len(d) : g0[k] # f[k]}
<1>4. ASSUME T # {} PROVE FALSE
  <2>1. PICK k \in T : \A j \in T : k <= j
    <3>1. T \subseteq Nat  OBVIOUS
    <3> HIDE DEF T
    <3> QED BY <1>4, <3>1, Least
  <2>2. k \in 0..Len(d) /\ g0[k] # f[k]  BY <2>1
  <2>3. k # 0  BY <1>2, <2>2 DEF IsSum
  <2>4. k \in 1..Len(d) /\ k - 1 \in 0..Len(d) /\ ~ (k <= k - 1)  BY <2>2, <2>3
  <2>5. g0[k - 1] = f[k - 1]  BY <2>1, <2>4
  <2>6. g0[k] = 1 * g0[k - 1] + d[k]  BY <1>2, <2>2, <2>3
  <2>7. f[k] = f[k - 1] + d[k] /\ f[k - 1] \in Nat  BY <2>4 DEF IsSum
  <2> QED BY <2>2, <2>5, <2>6, <2>7
<1> QED BY <1>3, <1>4

\* They grow.
LEMMA SumGrows ==
  ASSUME NEW n \in Nat, NEW d, NEW f, IsSum(f, d, n), \A i \in 1..n : d[i] \in Nat,
         NEW i \in 0..n, NEW j \in 0..n, i <= j
  PROVE  f[i] <= f[j] /\ f[i] \in Nat /\ f[j] \in Nat
<1> DEFINE T == {k \in i..n : f[i] > f[k]}
<1>1. ASSUME T # {} PROVE FALSE
  <2>1. PICK k \in T : \A l \in T : k <= l
    <3>1. T \subseteq Nat  OBVIOUS
    <3> HIDE DEF T
    <3> QED BY <1>1, <3>1, Least
  <2>2. k \in i..n /\ f[i] > f[k] /\ k # i  BY <2>1 DEF IsSum
  <2>3. k \in 1..n /\ k - 1 \in i..n /\ ~ (k <= k - 1) /\ k - 1 \in 0..n  BY <2>2
  <2>4. ~ (f[i] > f[k - 1])  BY <2>1, <2>3
  <2>5. f[k] = f[k - 1] + d[k] /\ f[k - 1] \in Nat /\ d[k] \in Nat /\ f[i] \in Nat  BY <2>3 DEF IsSum
  <2> QED BY <2>2, <2>4, <2>5
<1>2. f[i] \in Nat /\ f[j] \in Nat  BY DEF IsSum
<1> QED BY <1>1, <1>2

\* Sums of smaller numbers are smaller.
LEMMA SumBelow ==
  ASSUME NEW n \in Nat, NEW d, NEW e, NEW f, NEW g, IsSum(f, d, n), IsSum(g, e, n),
         \A i \in 1..n : d[i] \in Nat /\ e[i] \in Nat /\ d[i] <= e[i]
  PROVE  \A i \in 0..n : f[i] <= g[i]
<1> DEFINE T == {k \in 0..n : f[k] > g[k]}
<1>1. ASSUME T # {} PROVE FALSE
  <2>1. PICK k \in T : \A l \in T : k <= l
    <3>1. T \subseteq Nat  OBVIOUS
    <3> HIDE DEF T
    <3> QED BY <1>1, <3>1, Least
  <2>2. k \in 0..n /\ f[k] > g[k] /\ k # 0  BY <2>1 DEF IsSum
  <2>3. k \in 1..n /\ ~ (k <= k - 1) /\ k - 1 \in 0..n  BY <2>2
  <2>4. ~ (f[k - 1] > g[k - 1])  BY <2>1, <2>3
  <2>5. f[k] = f[k - 1] + d[k] /\ f[k - 1] \in Nat /\ d[k] \in Nat  BY <2>3 DEF IsSum
  <2>6. g[k] = g[k - 1] + e[k] /\ g[k - 1] \in Nat /\ e[k] \in Nat /\ d[k] <= e[k]  BY <2>3 DEF IsSum
  <2> QED BY <2>2, <2>4, <2>5, <2>6
<1>2. \A i \in 0..n : f[i] \in Nat /\ g[i] \in Nat  BY DEF IsSum
<1> QED BY <1>1, <1>2

\* Two sums of the same numbers are the same.
LEMMA SumPrefix ==
  ASSUME NEW d, IsSeq(d), \A i \in 1..Len(d) : d[i] \in Nat, NEW f, IsSum(f, d, Len(d)), NEW k \in 0..Len(d)
  PROVE  Total(SubSeq(d, 1, k)) = f[k]
<1> DEFINE e == SubSeq(d, 1, k)
           g == [i \in 0..k |-> f[i]]
<1>0. Len(d) \in Nat  BY DEF IsSeq
<1>1. Len(e) = k /\ \A i \in 1..k : e[i] = d[i]  BY <1>0, Piece
<1>2. IsSum(g, e, k)
  <2>1. g \in [0..k -> Nat] /\ g[0] = 0
    <3>1. f[0] = 0 /\ \A i \in 0..Len(d) : f[i] \in Nat  BY DEF IsSum
    <3>2. 0 \in 0..k /\ \A i \in 0..k : i \in 0..Len(d)  BY <1>0
    <3> QED BY <3>1, <3>2
  <2>2. ASSUME NEW i \in 1..k PROVE g[i] = g[i - 1] + e[i]
    <3>1. i \in 1..Len(d) /\ i \in 0..k /\ i - 1 \in 0..k  BY <1>0
    <3>2. f[i] = f[i - 1] + d[i] /\ e[i] = d[i]  BY <1>1, <3>1 DEF IsSum
    <3>3. g[i] = f[i] /\ g[i - 1] = f[i - 1]  BY <3>1
    <3> HIDE DEF g, e
    <3> QED BY <3>2, <3>3
  <2> HIDE DEF g, e
  <2> QED BY <2>1, <2>2 DEF IsSum
<1>3. g[k] = f[k]  BY <1>0
<1> HIDE DEF e, g
<1>4. Total(e) = g[Len(e)]  BY <1>1, <1>2, TotalIsSum
<1> QED BY <1>1, <1>3, <1>4 DEF e

\* And so is their total.
LEMMA TotalBelow ==
  ASSUME NEW d, NEW e, IsSeq(d), IsSeq(e), Len(d) = Len(e),
         \A i \in 1..Len(d) : d[i] \in Nat /\ e[i] \in Nat /\ d[i] <= e[i]
  PROVE  Total(d) \in Nat /\ Total(e) \in Nat /\ Total(d) <= Total(e)
<1>0. Len(d) \in Nat  BY DEF IsSeq
<1>1. PICK f : IsSum(f, d, Len(d))  BY <1>0, SumExists
<1>2. PICK g : IsSum(g, e, Len(d))  BY <1>0, SumExists
<1>3. Total(d) = f[Len(d)] /\ Total(e) = g[Len(d)]  BY <1>0, <1>1, <1>2, TotalIsSum
<1>4. f[Len(d)] <= g[Len(d)]  BY <1>0, <1>1, <1>2, SumBelow
<1> QED BY <1>0, <1>1, <1>2, <1>3, <1>4 DEF IsSum

-----------------------------------------------------------------------------
(* Names and the octets of a buffer.                                       *)

\* The labels of a name have offsets.
LEMMA OffsetsExist ==
  ASSUME NEW s, Labels(s)
  PROVE  \E w : /\ Offsets(w, s)
                /\ WireLen(s) = w[Len(s)]
                /\ \A k \in 0..Len(s) : WireLen(SubSeq(s, 1, k)) = w[k]
                /\ \A i, j \in 0..Len(s) : i <= j => w[i] <= w[j]
<1> DEFINE d == [i \in 1..Len(s) |-> 1 + Len(s[i])]
<1>0. Len(s) \in Nat /\ \A i \in 1..Len(s) : Len(s[i]) \in Nat  BY DEF Labels, IsSeq
<1>1. d = [i \in 1..Len(s) |-> d[i]] /\ \A i \in 1..Len(s) : d[i] = 1 + Len(s[i]) /\ d[i] \in Nat  BY <1>0
<1>2. IsSeq(d) /\ Len(d) = Len(s)
  <2> HIDE DEF d
  <2> QED BY <1>0, <1>1, FunctionIsSeq
<1>3. PICK w : IsSum(w, d, Len(s))
  <2> HIDE DEF d
  <2> QED BY <1>0, <1>1, SumExists
<1>4. Offsets(w, s)
  <2> SUFFICES \A i \in 1..Len(s) : w[i] = w[i - 1] + 1 + Len(s[i])  BY <1>3 DEF Offsets, IsSum
  <2> TAKE i \in 1..Len(s)
  <2>1. w[i] = w[i - 1] + d[i] /\ w[i - 1] \in Nat /\ Len(s[i]) \in Nat
    <3>1. i - 1 \in 0..Len(s)  BY <1>0
    <3> HIDE DEF d
    <3> QED BY <1>0, <1>3, <3>1 DEF IsSum
  <2>2. d[i] = 1 + Len(s[i])  BY <1>1
  <2> HIDE DEF d
  <2> QED BY <2>1, <2>2
<1>5. WireLen(s) = w[Len(s)]
  <2>1. WireLen(s) = Total(d)  BY DEF WireLen
  <2> HIDE DEF d
  <2> QED BY <2>1, <1>0, <1>2, <1>3, TotalIsSum
<1>6. ASSUME NEW k \in 0..Len(s) PROVE WireLen(SubSeq(s, 1, k)) = w[k]
  <2> DEFINE t == SubSeq(s, 1, k)
             e == [i \in 1..Len(t) |-> 1 + Len(t[i])]
  <2>1. Len(t) = k /\ \A i \in 1..k : t[i] = s[i]
    <3>1. IsSeq(s)  BY DEF Labels
    <3>2. /\ Len(t) = k - 1 + 1
          /\ \A i \in 1..(k - 1 + 1) : t[i] = s[1 + i - 1]
      BY <3>1, <1>0, Piece
    <3> HIDE DEF t
    <3> QED BY <3>2, <1>0
  <2>2. e = SubSeq(d, 1, k)
    <3>1. IsSeq(SubSeq(d, 1, k)) /\ Len(SubSeq(d, 1, k)) = k /\ \A i \in 1..k : SubSeq(d, 1, k)[i] = d[i]
      <4> HIDE DEF d
      <4> QED BY <1>0, <1>2, Piece
    <3>2. \A i \in 1..k : e[i] = d[i]  BY <2>1, <1>0
    <3>3. IsSeq(e) /\ Len(e) = k
      <4>1. e = [i \in 1..k |-> e[i]]
        <5> HIDE DEF t
        <5> QED BY <2>1
      <4> HIDE DEF e
      <4> QED BY <4>1, <1>0, FunctionIsSeq
    <3> HIDE DEF e, d
    <3> QED BY <3>1, <3>2, <3>3, SameSeq
  <2>3. WireLen(t) = Total(e)  BY DEF WireLen
  <2> HIDE DEF e, t, d
  <2> QED BY <2>2, <2>3, <1>0, <1>1, <1>2, <1>3, SumPrefix DEF t
<1>7. \A i, j \in 0..Len(s) : i <= j => w[i] <= w[j]
  <2> HIDE DEF d
  <2> QED BY <1>0, <1>1, <1>3, SumGrows
<1> QED BY <1>4, <1>5, <1>6, <1>7

\* The parts of a flattened sequence have starts.
LEMMA StartsExist ==
  ASSUME NEW es, IsSeq(es), \A i \in 1..Len(es) : IsSeq(es[i])
  PROVE  \E f : Starts(f, es)
<1> DEFINE d == [i \in 1..Len(es) |-> Len(es[i])]
<1>1. Len(es) \in Nat /\ \A i \in 1..Len(es) : d[i] \in Nat /\ d[i] = Len(es[i])  BY DEF IsSeq
<1>2. PICK f : IsSum(f, d, Len(es))
  <2> HIDE DEF d
  <2> QED BY <1>1, SumExists
<1>3. Starts(f, es)
  <2> HIDE DEF d
  <2> QED BY <1>1, <1>2 DEF Starts, IsSum
<1> QED BY <1>3

\* FlattenSeq writes each part where it starts.
LEMMA Flattened ==
  ASSUME NEW es, IsSeq(es), \A i \in 1..Len(es) : IsSeq(es[i]), NEW f, Starts(f, es)
  PROVE  /\ IsSeq(FlattenSeq(es)) /\ Len(FlattenSeq(es)) = f[Len(es)]
         /\ \A i \in 1..Len(es) : \A j \in 1..Len(es[i]) : FlattenSeq(es)[f[i - 1] + j] = es[i][j]
<1> DEFINE E(g, k) == g = [i \in 1..k |-> IF i = 1 THEN es[i] ELSE g[i - 1] \o es[i]]
           T == {k \in 1..Len(es) : ~ \E g : E(g, k)}
           n == Len(es)
<1>0. n \in Nat  BY DEF IsSeq
<1>1. CASE n = 0
  <2>1. FlattenSeq(es) = es  BY <1>1 DEF FlattenSeq
  <2>2. f[0] = 0  BY DEF Starts
  <2> QED BY <1>1, <2>1, <2>2
<1>2. CASE n # 0
  <2>1. ASSUME T # {} PROVE FALSE
    <3>1. PICK k \in T : \A l \in T : k <= l
      <4>1. T \subseteq Nat
        <5> HIDE DEF E
        <5> QED OBVIOUS
      <4> HIDE DEF T
      <4> QED BY <2>1, <4>1, Least
    <3>2. k \in 1..Len(es) /\ ~ \E g : E(g, k)  BY <3>1
    <3>3. k # 1
      <4>1. E([i \in 1..1 |-> es[1]], 1)  OBVIOUS
      <4> QED BY <3>2, <4>1
    <3>4. PICK g : E(g, k - 1)
      <4>1. k - 1 \in 1..n /\ ~ (k <= k - 1)  BY <3>2, <3>3, <1>0
      <4> QED BY <3>1, <4>1
    <3> DEFINE h == [i \in 1..k |-> IF i < k THEN g[i] ELSE g[k - 1] \o es[k]]
    <3>5. ASSUME NEW i \in 1..k PROVE h[i] = IF i = 1 THEN es[i] ELSE h[i - 1] \o es[i]
      <4>0. k \in Nat /\ k > 1  BY <3>2, <3>3, <1>0
      <4>1. CASE i = k
        <5>0. k \in 1..k /\ ~ (k < k) /\ k - 1 \in 1..k /\ k - 1 < k  BY <4>0
        <5>1. h[k] = g[k - 1] \o es[k] /\ h[k - 1] = g[k - 1] /\ k # 1  BY <4>0, <5>0
        <5> HIDE DEF h
        <5> QED BY <5>1, <4>1
      <4>2. CASE i < k
        <5>1. h[i] = g[i] /\ i \in 1..(k - 1)  BY <4>0, <4>2
        <5>2. g[i] = IF i = 1 THEN es[i] ELSE g[i - 1] \o es[i]  BY <3>4, <5>1
        <5>3. i # 1 => h[i - 1] = g[i - 1]  BY <4>0, <4>2
        <5> HIDE DEF h
        <5> QED BY <5>1, <5>2, <5>3
      <4> QED BY <4>0, <4>1, <4>2
    <3>6. E(h, k)
      <4>1. h = [i \in 1..k |-> h[i]]  OBVIOUS
      <4> HIDE DEF h
      <4> QED BY <4>1, <3>5
    <3> QED BY <3>2, <3>6
  <2> DEFINE g == CHOOSE x : E(x, n)
  <2>2. E(g, n)
    <3>1. n \in 1..n  BY <1>0, <1>2
    <3>2. \E x : E(x, n)  BY <2>1, <3>1
    <3> HIDE DEF E
    <3> QED BY <3>2
  <2>3. FlattenSeq(es) = g[n]  BY <1>2 DEF FlattenSeq
  <2> HIDE DEF g
  <2>4. g[1] = es[1] /\ \A k \in 1..n : k # 1 => g[k] = g[k - 1] \o es[k]
    <3>1. \A i \in 1..n : g[i] = IF i = 1 THEN es[i] ELSE g[i - 1] \o es[i]  BY <2>2
    <3>2. 1 \in 1..n  BY <1>0, <1>2
    <3> QED BY <3>1, <3>2
  <2> DEFINE P(k) == /\ IsSeq(g[k]) /\ Len(g[k]) = f[k]
                     /\ \A i \in 1..k : \A j \in 1..Len(es[i]) : g[k][f[i - 1] + j] = es[i][j]
             S == {k \in 1..n : ~ P(k)}
  <2>5. ASSUME S # {} PROVE FALSE
    <3>1. PICK k \in S : \A l \in S : k <= l
      <4>1. S \subseteq Nat  OBVIOUS
      <4> HIDE DEF S
      <4> QED BY <2>5, <4>1, Least
    <3>2. k \in 1..n /\ ~ P(k)  BY <3>1
    <3>3. k # 1
      <4>0. 1 \in 1..n /\ 1 - 1 = 0  BY <1>0, <1>2
      <4>1. f[1] = f[0] + Len(es[1]) /\ f[0] = 0 /\ Len(es[1]) \in Nat  BY <4>0 DEF Starts, IsSeq
      <4>2. f[1] = Len(es[1]) /\ \A i \in 1..1 : f[i - 1] = 0 /\ i = 1  BY <4>1
      <4>3. P(1)  BY <4>0, <4>1, <4>2, <2>4
      <4> QED BY <3>2, <4>3
    <3>4. k - 1 \in 1..n /\ ~ (k <= k - 1) /\ k - 1 \in 0..n  BY <3>2, <3>3, <1>0
    <3>5. P(k - 1)  BY <3>1, <3>4
    <3>6. g[k] = g[k - 1] \o es[k] /\ IsSeq(es[k])  BY <3>2, <3>3, <2>4
    <3>7. f[k] = f[k - 1] + Len(es[k]) /\ Len(es[k]) \in Nat /\ f[k - 1] \in Nat
      BY <3>2, <3>4 DEF Starts, IsSeq
    <3>8. /\ IsSeq(g[k]) /\ Len(g[k]) = f[k - 1] + Len(es[k])
          /\ \A i \in 1..f[k - 1] : g[k][i] = g[k - 1][i]
          /\ \A i \in 1..Len(es[k]) : g[k][f[k - 1] + i] = es[k][i]
      <4>1. IsSeq(g[k - 1]) /\ Len(g[k - 1]) = f[k - 1]  BY <3>5
      <4> DEFINE x == g[k - 1]
                 y == es[k]
      <4>2. /\ IsSeq(x \o y) /\ Len(x \o y) = Len(x) + Len(y)
            /\ \A i \in 1..Len(x) : (x \o y)[i] = x[i]
            /\ \A i \in 1..Len(y) : (x \o y)[Len(x) + i] = y[i]
        <5>1. IsSeq(x) /\ IsSeq(y)  BY <4>1, <3>6
        <5> HIDE DEF x, y
        <5> QED BY <5>1, Cat
      <4>3. g[k] = x \o y /\ Len(x) = f[k - 1] /\ x = g[k - 1] /\ y = es[k]  BY <4>1, <3>6
      <4> HIDE DEF x, y
      <4> QED BY <4>2, <4>3
    <3>9. ASSUME NEW i \in 1..k, NEW j \in 1..Len(es[i]) PROVE g[k][f[i - 1] + j] = es[i][j]
      <4>1. CASE i = k  BY <3>8, <4>1
      <4>2. CASE i # k
        <5>1. i \in 1..(k - 1) /\ i \in 1..n /\ i \in 0..n /\ i - 1 \in 0..n  BY SMTT(20), <3>2, <4>2, <1>0
        <5>2. f[i] = f[i - 1] + Len(es[i]) /\ f[i - 1] \in Nat /\ Len(es[i]) \in Nat
          BY <5>1 DEF Starts, IsSeq
        <5>3. f[i] <= f[k - 1]
          <6> DEFINE d == [x \in 1..n |-> Len(es[x])]
          <6>1. IsSum(f, d, n) /\ \A x \in 1..n : d[x] \in Nat  BY DEF Starts, IsSum, IsSeq
          <6>2. i <= k - 1  BY <5>1
          <6> HIDE DEF d, P, S
          <6> QED BY <6>1, <6>2, <5>1, <3>4, <1>0, SumGrows
        <5>4. f[i - 1] + j \in 1..f[k - 1]
          <6> HIDE DEF P, S, T, E
          <6> QED BY <5>2, <5>3, <3>7
        <5> QED BY <3>5, <3>8, <5>1, <5>4
      <4> QED BY <4>1, <4>2
    <3>10. P(k)  BY <3>7, <3>8, <3>9
    <3> QED BY <3>2, <3>10
  <2>6. P(n)
    <3>1. n \in 1..n  BY <1>0, <1>2
    <3> QED BY <2>5, <3>1
  <2> QED BY <2>3, <2>6
<1> QED BY <1>1, <1>2

\* Octets that fit the buffer are put at its end.
LEMMA PutFits ==
  ASSUME NEW p, IsBuffer(p), ~p.err, NEW o, IsSeq(o), Len(p.msg) + Len(o) <= p.cap
  PROVE  /\ Extends(p, Put(p, o)) /\ Put(p, o).comp = p.comp
         /\ Put(p, o).msg = p.msg \o o /\ Len(Put(p, o).msg) = Len(p.msg) + Len(o)
<1> DEFINE q == Put(p, o)
<1>0. IsSeq(p.msg) /\ Len(p.msg) \in Nat /\ Len(o) \in Nat /\ p.cap \in Nat  BY DEF IsBuffer, IsSeq
<1>1. q = [p EXCEPT !.msg = p.msg \o o]  BY <1>0 DEF Put
<1>2. /\ DOMAIN q = DOMAIN p /\ q.msg = p.msg \o o /\ q.cap = p.cap /\ q.valid = p.valid
      /\ q.comp = p.comp /\ q.err = p.err
  <2> HIDE DEF q
  <2> QED BY <1>1 DEF IsBuffer
<1>3. /\ IsSeq(p.msg \o o) /\ Len(p.msg \o o) = Len(p.msg) + Len(o)
      /\ \A i \in 1..Len(p.msg) : (p.msg \o o)[i] = p.msg[i]
  BY <1>0, Cat
<1>4. IsBuffer(q)
  <2> HIDE DEF q
  <2> QED BY <1>2, <1>3 DEF IsBuffer
<1> HIDE DEF q
<1>5. Extends(p, q)  BY <1>0, <1>2, <1>3, <1>4 DEF Extends
<1> QED BY <1>2, <1>3, <1>5 DEF q

\* A number is written in the octets it is given.
LEMMA BEFacts ==
  ASSUME NEW v, NEW n \in Nat
  PROVE  IsSeq(BE(v, n)) /\ Len(BE(v, n)) = n
<1> DEFINE o == BE(v, n)
<1>1. o = [i \in 1..n |-> o[i]]  BY DEF BE
<1> HIDE DEF o
<1>2. IsSeq(o) /\ Len(o) = n  BY <1>1, FunctionIsSeq
<1> QED BY <1>2 DEF o

\* A pointer is two octets, which give back an offset below the limit.
LEMMA PointerOctets ==
  ASSUME NEW pos \in Nat
  PROVE  /\ IsSeq(PointerTo(pos)) /\ Len(PointerTo(pos)) = 2
         /\ pos < maxCompressionOffset =>
              PointerTo(pos)[1] >= 192 /\ (PointerTo(pos)[1] - 192) * 256 + PointerTo(pos)[2] = pos
<1>1. maxCompressionOffset \in Int /\ maxCompressionOffset <= 16384  BY WireBounds
<1>2. CASE pos < maxCompressionOffset
  <2> DEFINE v == 49152 + pos
             o == BE(v, 2)
  <2>1. PointerTo(pos) = o  BY <1>2 DEF PointerTo
  <2>2. o[1] = (v \div 256) % 256 /\ o[2] = (v \div 1) % 256
    <3> HIDE DEF v
    <3> QED BY DEF BE, Weight
  <2>3. IsSeq(o) /\ Len(o) = 2
    <3> HIDE DEF v
    <3> QED BY BEFacts
  <2>4. PICK q \in Nat, r \in Nat : r < 256 /\ pos = 256 * q + r
    <3>1. pos \div 256 \in Nat /\ pos % 256 \in Nat /\ pos % 256 < 256 /\ pos = 256 * (pos \div 256) + (pos % 256)
      OBVIOUS
    <3> QED BY <3>1
  <2>5. pos <= 16383  BY <1>1, <1>2
  <2>6. q < 64  BY <2>4, <2>5
  <2>7. v = 49152 + (256 * q + r)  BY <2>4
  <2> HIDE DEF v, o
  <2>8. v \div 256 = 192 + q /\ v \div 1 = v /\ v % 256 = r /\ (192 + q) % 256 = 192 + q  BY <2>4, <2>6, <2>7
  <2>9. o[1] = 192 + q /\ o[2] = r  BY <2>2, <2>8
  <2> QED BY <2>1, <2>3, <2>4, <2>9
<1>3. CASE ~ (pos < maxCompressionOffset)
  <2>1. PointerTo(pos) = <<128, pos % 256>>  BY <1>3 DEF PointerTo
  <2> QED BY <1>3, <2>1 DEF IsSeq
<1> QED BY <1>2, <1>3

\* What is known of a name.
LEMMA NameFacts ==
  ASSUME NEW s, IsName(s)
  PROVE  /\ Labels(s) /\ Len(s) \in Nat /\ Len(s) >= 1 /\ s # <<>> /\ IsFqdn(s) /\ s[Len(s)] = <<>>
         /\ \A i \in 1..(Len(s) - 1) : Len(s[i]) \in 1..63
         /\ WireLen(s) <= maxDomainNameWireOctets
<1>1. s \in Seq(Seq(Byte)) /\ s # <<>> /\ s[Len(s)] = <<>>  BY DEF IsName, IsFqdn, Last
<1>2. Len(s) \in Nat /\ Len(s) >= 1  BY <1>1
<1>3. Labels(s)  BY <1>1, SeqIsSeq DEF Labels
<1> QED BY <1>1, <1>2, <1>3 DEF IsName

\* The labels of a suffix.
LEMMA SuffixFacts ==
  ASSUME NEW s, IsSeq(s), NEW i \in 1..Len(s)
  PROVE  /\ IsSeq(Suffix(s, i)) /\ Len(Suffix(s, i)) = Len(s) - i + 1 /\ Len(s) \in Nat
         /\ \A k \in 1..(Len(s) - i + 1) : Suffix(s, i)[k] = s[i + k - 1]
<1>1. Len(s) \in Nat  BY DEF IsSeq
<1> QED BY <1>1, Piece DEF Suffix

\* Each label before hit is written at its offset, behind its length.
LEMMA LabelOctets ==
  ASSUME NEW s, Labels(s), NEW w, Offsets(w, s), NEW hit \in 1..Len(s), NEW o, o = LabelBytes(s, hit)
  PROVE  /\ IsSeq(o) /\ Len(o) = w[hit - 1]
         /\ \A i \in 1..(hit - 1) :
              /\ w[i - 1] \in Nat /\ w[i - 1] + 1 + Len(s[i]) <= w[hit - 1] /\ o[w[i - 1] + 1] = Len(s[i])
              /\ \A j \in 1..Len(s[i]) : o[w[i - 1] + 1 + j] = s[i][j]
<1> DEFINE n == hit - 1
           es == [i \in 1..n |-> <<Len(s[i])>> \o s[i]]
           f == [i \in 0..n |-> w[i]]
<1>0. Len(s) \in Nat /\ n \in Nat /\ n < Len(s) /\ \A i \in 1..Len(s) : IsSeq(s[i]) /\ Len(s[i]) \in Nat
  BY DEF Labels, IsSeq
<1>1. IsSeq(es) /\ Len(es) = n /\ \A i \in 1..n : es[i] = <<Len(s[i])>> \o s[i]
  <2>1. es = [i \in 1..n |-> es[i]]  OBVIOUS
  <2>2. \A i \in 1..n : es[i] = <<Len(s[i])>> \o s[i]  OBVIOUS
  <2> HIDE DEF es, n
  <2> QED BY <1>0, <2>1, <2>2, FunctionIsSeq
<1>2. ASSUME NEW i \in 1..n
      PROVE  /\ IsSeq(es[i]) /\ Len(es[i]) = 1 + Len(s[i]) /\ es[i][1] = Len(s[i])
             /\ \A j \in 1..Len(s[i]) : es[i][1 + j] = s[i][j]
  <2> DEFINE x == <<Len(s[i])>>
             y == s[i]
  <2>1. IsSeq(x) /\ IsSeq(y) /\ Len(x) = 1 /\ x[1] = Len(y)  BY <1>0, One
  <2>2. 1 \in 1..Len(x)  BY <2>1
  <2>3. es[i] = x \o y  BY <1>1
  <2> HIDE DEF x
  <2>4. /\ IsSeq(x \o y) /\ Len(x \o y) = Len(x) + Len(y)
        /\ (x \o y)[1] = x[1]
        /\ \A j \in 1..Len(y) : (x \o y)[Len(x) + j] = y[j]
    <3> HIDE DEF y
    <3>1. /\ IsSeq(x \o y) /\ Len(x \o y) = Len(x) + Len(y)
          /\ \A j \in 1..Len(x) : (x \o y)[j] = x[j]
          /\ \A j \in 1..Len(y) : (x \o y)[Len(x) + j] = y[j]
      <4>1. IsSeq(x) /\ IsSeq(y)  BY <2>1
      <4> QED BY <4>1, Cat
    <3> QED BY <2>2, <3>1
  <2> HIDE DEF es
  <2> QED BY <2>1, <2>3, <2>4
<1>3. Starts(f, es)
  <2>1. ASSUME NEW i \in 1..n PROVE f[i] = f[i - 1] + Len(es[i])
    <3>1. w[i] = w[i - 1] + 1 + Len(s[i]) /\ w[i - 1] \in Nat /\ Len(s[i]) \in Nat
      <4>1. i \in 1..Len(s) /\ i - 1 \in 0..Len(s)  BY <1>0
      <4> QED BY <4>1, <1>0 DEF Offsets
    <3>2. f[i] = w[i] /\ f[i - 1] = w[i - 1]
      <4>1. i \in 0..n /\ i - 1 \in 0..n  BY <1>0
      <4> QED BY <4>1
    <3>3. Len(es[i]) = 1 + Len(s[i])  BY <1>2
    <3> DEFINE a == w[i - 1]
               l == Len(s[i])
    <3>4. w[i] = a + 1 + l /\ a \in Nat /\ l \in Nat  BY <3>1
    <3> HIDE DEF f, es, a, l
    <3>5. w[i] = a + (1 + l)  BY <3>4
    <3> QED BY <3>2, <3>3, <3>5 DEF a, l
  <2>2. f \in [0..n -> Nat] /\ f[0] = 0
    <3>1. w[0] = 0 /\ \A i \in 0..n : w[i] \in Nat
      <4>1. \A i \in 0..n : i \in 0..Len(s)  BY <1>0
      <4> QED BY <4>1 DEF Offsets
    <3>2. 0 \in 0..n  BY <1>0
    <3> QED BY <3>1, <3>2
  <2> HIDE DEF f, es
  <2> QED BY <1>1, <2>1, <2>2 DEF Starts
<1>4. /\ IsSeq(o) /\ Len(o) = f[n]
      /\ \A i \in 1..n : \A j \in 1..Len(es[i]) : o[f[i - 1] + j] = es[i][j]
  <2>1. o = FlattenSeq(es)  BY DEF LabelBytes
  <2>2. \A i \in 1..n : IsSeq(es[i])  BY <1>2
  <2> HIDE DEF f, es
  <2> QED BY <1>1, <1>3, <2>1, <2>2, Flattened
<1>5. \A i \in 0..n : f[i] = w[i]  OBVIOUS
<1>6. ASSUME NEW i \in 1..n
      PROVE  /\ w[i - 1] \in Nat /\ w[i - 1] + 1 + Len(s[i]) <= w[n] /\ o[w[i - 1] + 1] = Len(s[i])
             /\ \A j \in 1..Len(s[i]) : o[w[i - 1] + 1 + j] = s[i][j]
  <2>1. i - 1 \in 0..n /\ i \in 0..n /\ i \in 1..Len(s) /\ i - 1 \in 0..Len(s) /\ n \in 0..Len(s) /\ i \in 0..Len(s) /\ i <= n
    BY <1>0
  <2>2. f[i - 1] = w[i - 1] /\ w[i - 1] \in Nat /\ Len(s[i]) \in Nat /\ w[i] = w[i - 1] + 1 + Len(s[i])
    BY <1>0, <1>5, <2>1 DEF Offsets
  <2>3. /\ Len(es[i]) = 1 + Len(s[i]) /\ es[i][1] = Len(s[i])
        /\ \A j \in 1..Len(s[i]) : es[i][1 + j] = s[i][j]
    BY <1>2
  <2>4. w[i] <= w[n]
    <3> DEFINE d == [k \in 1..Len(s) |-> 1 + Len(s[k])]
    <3>1. \A k \in 1..Len(s) : d[k] = 1 + Len(s[k]) /\ d[k] \in Nat  BY <1>0
    <3> HIDE DEF d
    <3>2. IsSum(w, d, Len(s))
      <4>1. ASSUME NEW k \in 1..Len(s) PROVE w[k] = w[k - 1] + d[k]
        <5>0. k - 1 \in 0..Len(s) /\ Len(s[k]) \in Nat  BY <1>0
        <5>1. w[k] = w[k - 1] + 1 + Len(s[k]) /\ w[k - 1] \in Nat  BY <5>0 DEF Offsets
        <5>2. d[k] = 1 + Len(s[k])  BY <3>1
        <5> DEFINE a == w[k - 1]
                   l == Len(s[k])
        <5>3. a \in Nat /\ l \in Nat /\ w[k] = a + 1 + l /\ d[k] = 1 + l  BY <5>0, <5>1, <5>2
        <5> HIDE DEF a, l
        <5>4. w[k] = a + d[k]  BY <5>3
        <5> QED BY <5>4 DEF a
      <4> QED BY <4>1 DEF IsSum, Offsets
    <3> HIDE DEF n
    <3> QED BY <1>0, <2>1, <3>1, <3>2, SumGrows
  <2> HIDE DEF es, f
  <2>5. \A j \in 1..(1 + Len(s[i])) : o[w[i - 1] + j] = es[i][j]  BY <1>4, <2>2, <2>3
  <2>6. o[w[i - 1] + 1] = Len(s[i])  BY <2>2, <2>3, <2>5
  <2>7. ASSUME NEW j \in 1..Len(s[i]) PROVE o[w[i - 1] + 1 + j] = s[i][j]
    <3> DEFINE a == w[i - 1]
               l == Len(s[i])
    <3>0. a \in Nat /\ l \in Nat /\ j \in 1..l  BY <2>2
    <3>1. 1 + j \in 1..(1 + l) /\ a + (1 + j) = a + 1 + j
      <4> HIDE DEF a, l
      <4> QED BY <3>0
    <3>2. o[w[i - 1] + (1 + j)] = es[i][1 + j]  BY <2>5, <3>1
    <3> QED BY <2>3, <3>1, <3>2
  <2> QED BY <2>2, <2>4, <2>6, <2>7
<1> HIDE DEF es, f
<1>7. Len(o) = w[n]
  <2>1. n \in 0..n  BY <1>0
  <2> QED BY <1>4, <1>5, <2>1
<1> QED BY <1>4, <1>6, <1>7

\* The labels of a name have offsets that are its length so far.
LEMMA NameOffsetsExist ==
  ASSUME NEW s, Labels(s)
  PROVE  \E w : NameOffsets(w, s)
BY OffsetsExist DEF NameOffsets

-----------------------------------------------------------------------------
(* packDomainName.                                                         *)

\* What packDomainName makes of a buffer that has room for the name.
LEMMA PackName ==
  ASSUME NEW s, IsName(s), NEW p, IsBuffer(p), ~p.err, NEW compress \in BOOLEAN,
         NEW w, NameOffsets(w, s), Len(p.msg) + WireLen(s) <= p.cap,
         \A x \in DOMAIN p.comp : p.comp[x] \in Nat
  PROVE  \E hit : NamePacked(p, packDomainName(s, p, compress), s, compress, hit, w)
<1> DEFINE n == Len(s) - 1
           base == Len(p.msg)
           Off(i) == Len(p.msg) + WireLen(SubSeq(s, 1, i - 1))
           Known(i) == p.valid /\ Suffix(s, i) \in DOMAIN p.comp
           hits == {i \in 1..n : compress /\ Known(i)}
           hit == IF hits = {} THEN n + 1 ELSE Min(hits)
           seen == 1..Min({hit, n})
           fresh == {i \in seen : p.valid /\ ~Known(i) /\ Insertable(Off(i))}
           comp == [x \in DOMAIN p.comp \cup {Suffix(s, i) : i \in fresh} |->
                       IF x \in DOMAIN p.comp THEN p.comp[x] ELSE Off(Len(s) - Len(x) + 1)]
           labels == LabelBytes(s, hit)
           tail == IF hit <= n THEN PointerTo(p.comp[Suffix(s, hit)]) ELSE <<0>>
           p1 == [p EXCEPT !.comp = comp]
           q == packDomainName(s, p, compress)
           bad == \/ ~IsFqdn(s)
                  \/ \E i \in seen : Len(s[i]) \notin 1..63 \/ Off(i) + 1 + Len(s[i]) > p.cap
<1>1. q = IF s = <<>> \/ p.err THEN p ELSE IF bad THEN Failed(p) ELSE Put(p1, labels \o tail)
  BY DEF packDomainName, LabelBytes
<1>2. /\ Labels(s) /\ Len(s) \in Nat /\ Len(s) >= 1 /\ s # <<>> /\ IsFqdn(s)
      /\ \A i \in 1..n : Len(s[i]) \in 1..63
  BY NameFacts
<1>3. n \in Nat /\ Len(s) = n + 1 /\ base \in Nat /\ IsSeq(p.msg) /\ IsSeq(s) /\ p.cap \in Nat /\ p.valid \in BOOLEAN
  BY <1>2 DEF IsBuffer, IsSeq, Labels
<1>4. /\ \A i \in 0..Len(s) : w[i] \in Nat
      /\ \A i \in 1..Len(s) : Off(i) = base + w[i - 1] /\ w[i] = w[i - 1] + 1 + Len(s[i])
      /\ WireLen(s) = w[Len(s)] /\ \A i, j \in 0..Len(s) : i <= j => w[i] <= w[j]
  <2>1. ASSUME NEW i \in 1..Len(s) PROVE Off(i) = base + w[i - 1]
    <3>1. i - 1 \in 0..Len(s)  BY <1>3
    <3>2. WireLen(SubSeq(s, 1, i - 1)) = w[i - 1]  BY <3>1 DEF NameOffsets
    <3> QED BY <3>2
  <2> HIDE DEF Off
  <2> QED BY <2>1 DEF NameOffsets, Offsets
<1>5. /\ hit \in 1..(n + 1)
      /\ hit <= n => compress /\ Known(hit)
      /\ \A i \in 1..(hit - 1) : compress => ~Known(i)
  <2> HIDE DEF Known
  <2>1. hits \subseteq Nat /\ hits \subseteq 1..n  OBVIOUS
  <2>2. CASE hits = {}
    <3>1. hit = n + 1 /\ \A i \in 1..n : ~ (compress /\ Known(i))  BY <2>2
    <3> HIDE DEF hit, hits
    <3> QED BY <1>3, <3>1
  <2>3. CASE hits # {}
    <3>1. hit = Min(hits) /\ Min(hits) \in hits /\ \A k \in hits : Min(hits) <= k  BY <2>1, <2>3, MinIn
    <3>2. hit \in 1..n /\ compress /\ Known(hit)  BY <3>1
    <3>3. ASSUME NEW i \in 1..(hit - 1), compress, Known(i) PROVE FALSE
      <4>1. i \in 1..n
        <5> HIDE DEF hit
        <5> QED BY <3>2, <1>3
      <4>2. i \in hits  BY <4>1, <3>3
      <4>3. hit <= i  BY <3>1, <4>2
      <4> HIDE DEF hit
      <4> QED BY <4>3, <3>2, <1>3
    <3> HIDE DEF hit, hits
    <3> QED BY <3>2, <3>3, <1>3
  <2> QED BY <2>2, <2>3
<1> HIDE DEF hit, hits
<1>6. Min({hit, n}) \in 0..n /\ (\A i \in seen : i \in 1..n /\ i <= hit) /\ \A i \in 1..(hit - 1) : i \in seen
  <2>0. hit \in Nat /\ hit >= 1 /\ hit <= n + 1  BY <1>3, <1>5
  <2> DEFINE k == Min({hit, n})
  <2>1. k = IF hit <= n THEN hit ELSE n  BY <1>3, <2>0, MinTwo
  <2>2. seen = 1..k  OBVIOUS
  <2> HIDE DEF k, seen, n
  <2>3. k \in 0..n /\ k <= hit /\ hit - 1 <= k  BY <1>3, <2>0, <2>1
  <2>4. (\A i \in seen : i \in 1..n /\ i <= hit) /\ \A i \in 1..(hit - 1) : i \in seen
    BY <1>3, <2>0, <2>2, <2>3
  <2> QED BY <2>3, <2>4 DEF k
<1> HIDE DEF seen
<1>7. /\ IsSeq(labels) /\ Len(labels) = w[hit - 1]
      /\ \A i \in 1..(hit - 1) :
           /\ w[i - 1] \in Nat /\ w[i - 1] + 1 + Len(s[i]) <= w[hit - 1] /\ labels[w[i - 1] + 1] = Len(s[i])
           /\ \A j \in 1..Len(s[i]) : labels[w[i - 1] + 1 + j] = s[i][j]
  <2>1. Offsets(w, s) /\ hit \in 1..Len(s)  BY <1>3, <1>5 DEF NameOffsets
  <2> QED BY <2>1, <1>2, LabelOctets
<1>8. IsSeq(tail) /\ Len(tail) = IF hit <= n THEN 2 ELSE 1
  <2>1. CASE hit <= n
    <3>1. p.comp[Suffix(s, hit)] \in Nat  BY <2>1, <1>5
    <3> QED BY <2>1, <3>1, PointerOctets
  <2>2. CASE ~ (hit <= n)  BY <2>2, One
  <2> QED BY <2>1, <2>2
<1> DEFINE o == labels \o tail
<1>9. /\ IsSeq(o) /\ Len(o) = w[hit - 1] + Len(tail)
      /\ \A i \in 1..w[hit - 1] : o[i] = labels[i]
      /\ \A i \in 1..Len(tail) : o[w[hit - 1] + i] = tail[i]
  <2> HIDE DEF labels, tail
  <2>1. /\ IsSeq(labels \o tail) /\ Len(labels \o tail) = Len(labels) + Len(tail)
        /\ \A i \in 1..Len(labels) : (labels \o tail)[i] = labels[i]
        /\ \A i \in 1..Len(tail) : (labels \o tail)[Len(labels) + i] = tail[i]
    <3>1. IsSeq(labels) /\ IsSeq(tail)  BY <1>7, <1>8
    <3> QED BY <3>1, Cat
  <2> QED BY <1>7, <2>1
<1>10. base + Len(o) <= p.cap /\ w[hit - 1] \in Nat /\ Len(o) = w[hit - 1] + (IF hit <= n THEN 2 ELSE 1)
  <2>1. hit - 1 \in 0..Len(s) /\ hit \in 0..Len(s) /\ hit \in 1..Len(s) /\ Len(s) \in 0..Len(s) /\ hit <= Len(s)
    BY <1>3, <1>5
  <2>2. w[hit - 1] \in Nat /\ w[hit] = w[hit - 1] + 1 + Len(s[hit]) /\ w[hit] <= w[Len(s)] /\ w[Len(s)] \in Nat
    BY <1>4, <2>1
  <2>3. base + w[Len(s)] <= p.cap  BY <1>4
  <2>4. hit <= n => Len(s[hit]) \in 1..63  BY <1>2, <1>5
  <2>5. hit > n => Len(s[hit]) = 0
    <3>1. hit > n => hit = Len(s)
      <4> HIDE DEF n
      <4> QED BY <1>3, <1>5
    <3>2. s[Len(s)] = <<>>  BY NameFacts
    <3> QED BY <3>1, <3>2
  <2>6. Len(o) = w[hit - 1] + (IF hit <= n THEN 2 ELSE 1)
    <3> HIDE DEF o, tail
    <3> QED BY <1>8, <1>9
  <2> DEFINE a == w[hit - 1]
             b == w[hit]
             e == w[Len(s)]
             l == Len(s[hit])
  <2>7. a \in Nat /\ b = a + 1 + l /\ b <= e /\ e \in Nat /\ base + e <= p.cap /\ p.cap \in Nat /\ base \in Nat
    BY <2>2, <2>3, <1>3
  <2>8. CASE hit <= n
    <3>1. l \in Nat /\ l >= 1 /\ Len(o) = a + 2
      <4> HIDE DEF o
      <4>1. l \in 1..63 /\ Len(o) = a + 2  BY <2>4, <2>6, <2>8
      <4> HIDE DEF l
      <4> QED BY <4>1
    <3> HIDE DEF a, b, e, l, o, base
    <3>2. base + Len(o) <= p.cap  BY <3>1, <2>7
    <3> QED BY <2>8, <3>1, <3>2, <2>7 DEF a
  <2>9. CASE ~ (hit <= n)
    <3>1. l = 0 /\ Len(o) = a + 1
      <4>1. hit > n  BY <2>9, <1>3, <1>5
      <4> QED BY <4>1, <2>5, <2>6, <2>9
    <3> HIDE DEF a, b, e, l, o, base
    <3>2. base + Len(o) <= p.cap  BY <3>1, <2>7
    <3> QED BY <2>9, <3>1, <3>2, <2>7 DEF a
  <2> QED BY <2>8, <2>9
<1>11. ~bad
  <2>1. ASSUME NEW i \in seen PROVE Len(s[i]) \in 1..63 /\ ~ (Off(i) + 1 + Len(s[i]) > p.cap)
    <3>1. i \in 1..n /\ i \in 1..Len(s) /\ i - 1 \in 0..Len(s) /\ i \in 0..Len(s) /\ Len(s) \in 0..Len(s) /\ i <= Len(s)
      BY <1>3, <1>6
    <3>2. Len(s[i]) \in 1..63 /\ Off(i) = base + w[i - 1] /\ w[i] = w[i - 1] + 1 + Len(s[i]) /\ w[i] <= w[Len(s)]
      BY <1>2, <1>4, <3>1
    <3>3. w[i - 1] \in Nat /\ w[Len(s)] \in Nat /\ base + w[Len(s)] <= p.cap  BY <1>4, <3>1
    <3> DEFINE a == w[i - 1]
               e == w[Len(s)]
               l == Len(s[i])
               x == Off(i)
    <3>4. a \in Nat /\ e \in Nat /\ l \in 1..63 /\ x = base + a /\ a + 1 + l <= e /\ base + e <= p.cap
      BY <3>2, <3>3
    <3> HIDE DEF a, e, l, x, base
    <3>5. ~ (x + 1 + l > p.cap)  BY <3>4, <1>3
    <3> QED BY <3>2, <3>5 DEF x, l
  <2> HIDE DEF Off
  <2> QED BY <2>1, <1>2
<1>12. q = Put(p1, o)
  <2> HIDE DEF q, bad, p1
  <2> QED BY <1>1, <1>2, <1>11
<1>13. IsBuffer(p1) /\ ~p1.err /\ p1.msg = p.msg /\ p1.cap = p.cap /\ p1.valid = p.valid /\ p1.comp = comp
  <2> HIDE DEF comp
  <2>1. /\ DOMAIN p1 = DOMAIN p /\ p1.msg = p.msg /\ p1.cap = p.cap /\ p1.valid = p.valid
        /\ p1.comp = comp /\ p1.err = p.err
    BY DEF IsBuffer
  <2> HIDE DEF p1
  <2> QED BY <2>1 DEF IsBuffer
<1>14. /\ Extends(p1, q) /\ q.comp = comp /\ q.msg = p.msg \o o /\ Len(q.msg) = base + Len(o)
  <2> HIDE DEF p1, comp, o, q
  <2>1. IsBuffer(p1) /\ ~p1.err /\ IsSeq(o) /\ Len(p1.msg) + Len(o) <= p1.cap  BY <1>9, <1>10, <1>13
  <2>2. /\ Extends(p1, Put(p1, o)) /\ Put(p1, o).comp = p1.comp
        /\ Put(p1, o).msg = p1.msg \o o /\ Len(Put(p1, o).msg) = Len(p1.msg) + Len(o)
    BY <2>1, PutFits
  <2> QED BY <2>2, <1>12, <1>13
<1>15. Extends(p, q)
  <2> HIDE DEF p1, comp, o, q
  <2> QED BY <1>13, <1>14 DEF Extends
<1>16. \A k \in 1..Len(o) : q.msg[base + k] = o[k]
  <2> HIDE DEF o, q
  <2>1. IsSeq(p.msg) /\ IsSeq(o)  BY <1>3, <1>9
  <2> QED BY SMTT(20), <2>1, <1>14, Cat
<1>17. \A k \in 1..w[hit - 1] : q.msg[base + k] = labels[k]
  <2> HIDE DEF o, q, labels, tail, base
  <2>1. \A k \in 1..w[hit - 1] : k \in 1..Len(o)  BY <1>10
  <2> QED BY <2>1, <1>9, <1>16
<1>18. ASSUME NEW k \in 1..Len(tail) PROVE q.msg[base + w[hit - 1] + k] = tail[k]
  <2> HIDE DEF o, q, labels, tail, base
  <2> DEFINE a == w[hit - 1]
             l == Len(tail)
  <2>1. a \in Nat /\ l \in Nat /\ Len(o) = a + l /\ base \in Nat  BY <1>3, <1>8, <1>9, <1>10
  <2>5. k \in 1..l  OBVIOUS
  <2> HIDE DEF a, l
  <2>2. a + k \in 1..Len(o) /\ base + (a + k) = base + a + k  BY <2>1, <2>5
  <2>3. q.msg[base + (a + k)] = o[a + k]  BY <2>2, <1>16
  <2>4. o[a + k] = tail[k]  BY <1>9 DEF a
  <2> QED BY <2>2, <2>3, <2>4 DEF a
<1>19. ASSUME NEW i \in 1..(hit - 1)
       PROVE  /\ q.msg[base + w[i - 1] + 1] = Len(s[i])
              /\ \A j \in 1..Len(s[i]) : q.msg[base + w[i - 1] + 1 + j] = s[i][j]
  <2> DEFINE a == w[i - 1]
             e == w[hit - 1]
             l == Len(s[i])
  <2>0. Len(s[i]) \in Nat
    <3>1. i \in 1..n
      <4> HIDE DEF n
      <4> QED BY <1>3, <1>5
    <3> QED BY <3>1, <1>2
  <2>1. /\ a \in Nat /\ a + 1 + l <= e /\ labels[a + 1] = l /\ e \in Nat /\ l \in Nat
        /\ \A j \in 1..l : labels[a + 1 + j] = s[i][j]
    BY <1>7, <1>10, <2>0
  <2>2. \A k \in 1..e : q.msg[base + k] = labels[k]  BY <1>17
  <2> HIDE DEF a, e, l, q, labels, base
  <2>3. a + 1 \in 1..e /\ base + (a + 1) = base + a + 1  BY <1>3, <2>1
  <2>4. \A j \in 1..l : a + 1 + j \in 1..e /\ base + (a + 1 + j) = base + a + 1 + j  BY <1>3, <2>1
  <2>5. q.msg[base + a + 1] = l  BY <2>1, <2>2, <2>3
  <2>6. \A j \in 1..l : q.msg[base + a + 1 + j] = s[i][j]  BY <2>1, <2>2, <2>4
  <2> QED BY <2>5, <2>6 DEF a, l
<1>20. hit = Len(s) => q.msg[base + w[hit - 1] + 1] = 0
  <2> SUFFICES ASSUME hit = Len(s) PROVE q.msg[base + w[hit - 1] + 1] = 0  OBVIOUS
  <2>0. ~ (hit <= n)
    <3> HIDE DEF n
    <3> QED BY <1>3
  <2>1. tail = <<0>> /\ Len(tail) = 1  BY <2>0, <1>8
  <2>2. tail[1] = 0 /\ 1 \in 1..Len(tail)  BY <2>1
  <2> HIDE DEF q, tail, base
  <2> QED BY <2>2, <1>18
<1>21. ASSUME hit < Len(s), NEW pos \in Nat, pos = p.comp[Suffix(s, hit)], pos < maxCompressionOffset
       PROVE  /\ q.msg[base + w[hit - 1] + 1] >= 192
              /\ (q.msg[base + w[hit - 1] + 1] - 192) * 256 + q.msg[base + w[hit - 1] + 2] = pos
  <2>0. hit <= n
    <3> HIDE DEF n
    <3> QED BY <1>3, <1>5, <1>21
  <2>1. tail = PointerTo(pos) /\ Len(tail) = 2  BY <2>0, <1>8, <1>21
  <2>2. tail[1] >= 192 /\ (tail[1] - 192) * 256 + tail[2] = pos  BY <2>1, <1>21, PointerOctets
  <2>3. 1 \in 1..Len(tail) /\ 2 \in 1..Len(tail)
    <3> HIDE DEF tail
    <3> QED BY <2>1
  <2> HIDE DEF q, tail, base
  <2>4. q.msg[base + w[hit - 1] + 1] = tail[1] /\ q.msg[base + w[hit - 1] + 2] = tail[2]  BY <1>18, <2>3
  <2> QED BY <2>2, <2>4
<1>22. \A x \in DOMAIN p.comp : x \in DOMAIN comp /\ comp[x] = p.comp[x]
  <2> HIDE DEF fresh, Off
  <2> QED OBVIOUS
<1>23. ASSUME NEW i \in 1..Len(s) PROVE Len(s) - Len(Suffix(s, i)) + 1 = i  BY <1>3, SuffixFacts
<1>24. ASSUME NEW i \in fresh
       PROVE  /\ i \in 1..(hit - 1) /\ Off(i) = base + w[i - 1] /\ Insertable(Off(i)) /\ p.valid
              /\ Suffix(s, i) \in DOMAIN comp \ DOMAIN p.comp /\ comp[Suffix(s, i)] = Off(i)
  <2>1. i \in seen /\ p.valid /\ ~Known(i) /\ Insertable(Off(i))
    <3> HIDE DEF Off, Known
    <3> QED OBVIOUS
  <2>2. i \in 1..Len(s) /\ i \in 1..n /\ i <= hit  BY <2>1, <1>3, <1>6
  <2>3. Off(i) = base + w[i - 1]  BY <2>2, <1>4
  <2>4. Suffix(s, i) \notin DOMAIN p.comp  BY <2>1
  <2>5. i # hit
    <3> SUFFICES ASSUME i = hit PROVE FALSE  OBVIOUS
    <3>1. hit <= n
      <4> HIDE DEF n
      <4> QED BY <2>2, <1>3
    <3> QED BY <3>1, <1>5, <2>1
  <2>6. Suffix(s, i) \in DOMAIN comp /\ comp[Suffix(s, i)] = Off(i)
    <3>1. Len(s) - Len(Suffix(s, i)) + 1 = i  BY <2>2, <1>23
    <3> HIDE DEF fresh, Off
    <3> QED BY <3>1, <2>4
  <2>7. i \in 1..(hit - 1)
    <3> HIDE DEF n
    <3> QED BY <1>3, <1>5, <2>2, <2>5
  <2> HIDE DEF Off, comp
  <2> QED BY <2>1, <2>3, <2>4, <2>6, <2>7
<1>25. ASSUME NEW x \in DOMAIN comp \ DOMAIN p.comp
       PROVE  \E i \in 1..(hit - 1) : x = Suffix(s, i) /\ comp[x] = base + w[i - 1] /\ Insertable(comp[x])
  <2>1. PICK i \in fresh : x = Suffix(s, i)
    <3> HIDE DEF fresh
    <3> QED OBVIOUS
  <2> HIDE DEF comp, fresh, Off
  <2> QED BY <2>1, <1>24
<1>26. ASSUME p.valid, NEW i \in 1..(hit - 1), Insertable(base + w[i - 1]) PROVE Suffix(s, i) \in DOMAIN comp
  <2>1. i \in seen /\ i \in 1..Len(s)  BY <1>3, <1>6
  <2>2. Off(i) = base + w[i - 1]  BY <2>1, <1>4
  <2>3. CASE Known(i)
    <3> HIDE DEF fresh, Off
    <3> QED BY <2>3
  <2>4. CASE ~Known(i)
    <3> i \in fresh
      <4> HIDE DEF Known, Off
      <4> QED BY <1>26, <2>1, <2>2, <2>4
    <3> HIDE DEF fresh, Off
    <3> QED OBVIOUS
  <2> QED BY <2>3, <2>4
<1>27. /\ hit \in 1..Len(s) /\ (hit < Len(s)) = (hit <= n)
       /\ hit < Len(s) => p.valid /\ compress /\ Suffix(s, hit) \in DOMAIN p.comp
       /\ \A i \in 1..(hit - 1) : p.valid /\ compress => Suffix(s, i) \notin DOMAIN p.comp
  <2>1. hit \in 1..Len(s) /\ (hit < Len(s)) = (hit <= n)
    <3> HIDE DEF n
    <3> QED BY <1>3, <1>5
  <2>2. hit < Len(s) => p.valid /\ compress /\ Suffix(s, hit) \in DOMAIN p.comp  BY <2>1, <1>5
  <2> QED BY <2>1, <2>2, <1>5
<1>28. Len(q.msg) = base + w[hit - 1] + (IF hit < Len(s) THEN 2 ELSE 1)
  <2> HIDE DEF o, q, n
  <2>1. CASE hit <= n  BY SMTT(20), <2>1, <1>3, <1>10, <1>14, <1>27
  <2>2. CASE ~ (hit <= n)  BY <2>2, <1>3, <1>10, <1>14, <1>27
  <2> QED BY <2>1, <2>2
<1> HIDE DEF q, comp, labels, tail, o, p1, fresh, Known, Off, bad, n
<1>29. q.comp = comp  BY <1>14
<1>30. NamePacked(p, q, s, compress, hit, w)
  BY <1>15, <1>19, <1>20, <1>21, <1>22, <1>25, <1>26, <1>27, <1>28, <1>29 DEF NamePacked
<1> QED BY <1>30 DEF q

-----------------------------------------------------------------------------
(* A compression map that is true.                                         *)

\* A name stays spelled when octets are added and others written again.
LEMMA SpelledKept ==
  ASSUME NEW msg, NEW new, NEW H, Agrees(msg, new, H), NEW s, Labels(s), Len(s) >= 1, NEW pos, SpelledAt(msg, H, s, pos)
  PROVE  SpelledAt(new, H, s, pos)
<1>1. Len(msg) \in Nat /\ Len(new) \in Nat /\ Len(s) \in Nat /\ Len(msg) <= Len(new)
  BY DEF Agrees, IsSeq, Labels
<1>2. \A i \in 1..Len(s) : pos[i] \in Nat /\ Len(s[i]) \in Nat  BY DEF SpelledAt, Labels, IsSeq
<1>3. ASSUME NEW i \in Nat, i + 1 <= Len(msg), i + 1 \notin H PROVE new[i + 1] = msg[i + 1] /\ i + 1 <= Len(new)
  <2>1. i + 1 \in 1..Len(msg)  BY <1>1, <1>3
  <2> QED BY <1>1, <1>3, <2>1 DEF Agrees
<1>4. ASSUME NEW i \in 1..(Len(s) - 1) PROVE LabelAt(new, H, s[i], pos[i])
  <2> DEFINE a == pos[i]
             l == Len(s[i])
  <2>1. a \in Nat /\ l \in Nat  BY <1>1, <1>2
  <2>2. LabelAt(msg, H, s[i], a)  BY DEF SpelledAt
  <2>3. a + 1 + l <= Len(msg) /\ a + 1 \notin H /\ msg[a + 1] = l  BY <2>2 DEF LabelAt
  <2>4. \A j \in 1..l : a + 1 + j \notin H /\ msg[a + 1 + j] = s[i][j]  BY <2>2 DEF LabelAt
  <2> HIDE DEF a, l
  <2>5. new[a + 1] = l /\ a + 1 + l <= Len(new)  BY <1>1, <1>3, <2>1, <2>3
  <2>6. ASSUME NEW j \in 1..l PROVE new[a + 1 + j] = s[i][j]
    <3>1. a + j \in Nat /\ a + j + 1 = a + 1 + j /\ a + j + 1 <= Len(msg)  BY <1>1, <2>1, <2>3
    <3>2. new[a + j + 1] = msg[a + j + 1]  BY <3>1, <1>3, <2>4
    <3> QED BY <3>1, <3>2, <2>4
  <2> QED BY <2>3, <2>4, <2>5, <2>6 DEF LabelAt, a, l
<1>5. ASSUME NEW at \in Nat, NEW to, GoesOn(msg, H, at, to) PROVE GoesOn(new, H, at, to)
  <2>1. at + 2 <= Len(msg) /\ at + 1 \notin H /\ at + 2 \notin H  BY <1>5 DEF GoesOn
  <2>2. new[at + 1] = msg[at + 1]  BY <1>1, <1>3, <2>1
  <2>3. at + 1 \in Nat /\ at + 1 + 1 = at + 2  OBVIOUS
  <2>4. new[at + 2] = msg[at + 2] /\ at + 2 <= Len(new)  BY <1>1, <1>3, <2>1, <2>3
  <2> QED BY <1>5, <2>1, <2>2, <2>4 DEF GoesOn
<1>6. ASSUME NEW i \in 1..(Len(s) - 1)
      PROVE  \/ pos[i + 1] = pos[i] + 1 + Len(s[i])
             \/ i + 1 < Len(s) /\ GoesOn(new, H, pos[i] + 1 + Len(s[i]), pos[i + 1])
  <2>1. pos[i] + 1 + Len(s[i]) \in Nat  BY <1>1, <1>2
  <2> QED BY <1>5, <2>1 DEF SpelledAt
<1>7. pos[Len(s)] + 1 <= Len(new) /\ pos[Len(s)] + 1 \notin H /\ new[pos[Len(s)] + 1] = 0
  <2>1. pos[Len(s)] \in Nat  BY <1>1, <1>2
  <2> QED BY <1>3, <2>1 DEF SpelledAt
<1> QED BY <1>4, <1>6, <1>7 DEF SpelledAt

\* Where a name is spelled, each of its suffixes is.
LEMMA SpelledSuffix ==
  ASSUME NEW msg, NEW H, NEW s, IsSeq(s), NEW pos, SpelledAt(msg, H, s, pos), NEW i \in 1..Len(s)
  PROVE  Spelled(msg, H, Suffix(s, i), pos[i])
<1> DEFINE t == Suffix(s, i)
           n == Len(s) - i + 1
           P == [k \in 1..n |-> pos[i + k - 1]]
<1>1. /\ Len(s) \in Nat /\ Len(t) = n /\ n \in Nat /\ n >= 1 /\ i \in Nat /\ i >= 1
      /\ \A k \in 1..n : t[k] = s[i + k - 1]
  BY SuffixFacts
<1>2. \A k \in 1..n : P[k] = pos[i + k - 1]  OBVIOUS
<1>3. Len(s) = i + n - 1  BY <1>1
<1>4. \A k \in 1..n : i + k - 1 \in 1..Len(s)  BY <1>1
<1>5. P \in [1..n -> Nat]  BY <1>4 DEF SpelledAt
<1> HIDE DEF P, n, t
<1>6. ASSUME NEW k \in 1..(n - 1)
      PROVE  /\ LabelAt(msg, H, t[k], P[k])
             /\ \/ P[k + 1] = P[k] + 1 + Len(t[k])
                \/ k + 1 < n /\ GoesOn(msg, H, P[k] + 1 + Len(t[k]), P[k + 1])
  <2> DEFINE j == i + k - 1
  <2>1. k \in 1..n /\ k + 1 \in 1..n /\ j \in 1..(Len(s) - 1) /\ i + (k + 1) - 1 = j + 1 /\ (k + 1 < n) = (j + 1 < Len(s))
    BY <1>1, <1>3
  <2>2. P[k] = pos[j] /\ P[k + 1] = pos[j + 1] /\ t[k] = s[j]
    <3>1. P[k] = pos[i + k - 1] /\ t[k] = s[i + k - 1]  BY <1>1, <1>2, <2>1
    <3>2. P[k + 1] = pos[i + (k + 1) - 1]  BY <1>2, <2>1
    <3> QED BY <3>1, <3>2, <2>1
  <2> HIDE DEF j
  <2>3. /\ LabelAt(msg, H, s[j], pos[j])
        /\ \/ pos[j + 1] = pos[j] + 1 + Len(s[j])
           \/ j + 1 < Len(s) /\ GoesOn(msg, H, pos[j] + 1 + Len(s[j]), pos[j + 1])
    BY <2>1 DEF SpelledAt
  <2> QED BY <2>1, <2>2, <2>3
<1>7. P[n] = pos[Len(s)] /\ P[1] = pos[i]
  <2>1. n \in 1..n /\ 1 \in 1..n /\ i + n - 1 = Len(s) /\ i + 1 - 1 = i  BY <1>1, <1>3
  <2>2. P[n] = pos[i + n - 1] /\ P[1] = pos[i + 1 - 1]  BY <1>2, <2>1
  <2> QED BY <2>1, <2>2
<1>8. SpelledAt(msg, H, t, P)  BY <1>1, <1>5, <1>6, <1>7 DEF SpelledAt
<1> QED BY <1>7, <1>8 DEF Spelled, t

\* A suffix of a name is a name.
LEMMA SuffixIsName ==
  ASSUME NEW s, IsName(s), NEW i \in 1..Len(s)
  PROVE  IsName(Suffix(s, i)) /\ WireLen(Suffix(s, i)) <= WireLen(s)
<1> DEFINE t == Suffix(s, i)
           n == Len(s) - i + 1
           e == [k \in 1..Len(t) |-> 1 + Len(t[k])]
<1>1. /\ Labels(s) /\ Len(s) \in Nat /\ Len(s) >= 1 /\ s[Len(s)] = <<>> /\ WireLen(s) <= maxDomainNameWireOctets
      /\ \A k \in 1..(Len(s) - 1) : Len(s[k]) \in 1..63
  BY NameFacts
<1>2. IsSeq(s)  BY <1>1 DEF Labels
<1>3. /\ IsSeq(t) /\ Len(t) = n /\ n \in Nat /\ n >= 1 /\ i \in Nat /\ i >= 1
      /\ \A k \in 1..n : t[k] = s[i + k - 1]
  BY <1>2, SuffixFacts
<1>4. PICK w : Offsets(w, s) /\ WireLen(s) = w[Len(s)] /\ \A a, b \in 0..Len(s) : a <= b => w[a] <= w[b]
  BY <1>1, OffsetsExist
<1> DEFINE g == [k \in 0..n |-> w[i - 1 + k] - w[i - 1]]
<1>5. \A k \in 0..n : g[k] = w[i - 1 + k] - w[i - 1]  OBVIOUS
<1>6. DOMAIN g = 0..n  OBVIOUS
<1>6a. g = [k \in 0..n |-> g[k]]  OBVIOUS
<1>7. \A k \in 1..Len(t) : e[k] = 1 + Len(t[k])  OBVIOUS
<1>8. IsSeq(e) /\ Len(e) = n
  <2>1. e = [k \in 1..n |-> e[k]]  BY <1>3
  <2> HIDE DEF e, n
  <2> QED BY <2>1, <1>3, FunctionIsSeq
<1>9. WireLen(t) = Total(e)  BY DEF WireLen
<1> HIDE DEF e, g, t
<1>10. \A k \in 0..n : i - 1 + k \in 0..Len(s) /\ i - 1 \in 0..Len(s) /\ i - 1 <= i - 1 + k  BY <1>1, <1>3
<1>11. \A k \in 0..n : g[k] \in Nat
  <2> TAKE k \in 0..n
  <2> DEFINE a == w[i - 1 + k]
             b == w[i - 1]
  <2>1. a \in Nat /\ b \in Nat /\ b <= a /\ g[k] = a - b  BY <1>4, <1>5, <1>10 DEF Offsets
  <2> HIDE DEF a, b
  <2> QED BY <2>1
<1>12. ASSUME NEW k \in 1..n PROVE g[k] = g[k - 1] + e[k]
  <2>1. k \in 0..n /\ k - 1 \in 0..n /\ i - 1 + k \in 1..Len(s) /\ i - 1 + (k - 1) = i - 1 + k - 1 /\ i + k - 1 = i - 1 + k
    BY <1>1, <1>3
  <2> DEFINE j == i - 1 + k
             b == w[i - 1]
  <2>2. g[k] = w[j] - b /\ g[k - 1] = w[j - 1] - b /\ e[k] = 1 + Len(s[j])
    <3>1. g[k - 1] = w[i - 1 + (k - 1)] - b  BY <1>5, <2>1
    <3>2. t[k] = s[j] /\ e[k] = 1 + Len(t[k])  BY <1>3, <1>7, <2>1
    <3> QED BY <1>5, <2>1, <3>1, <3>2
  <2>3. j \in 1..Len(s) /\ j - 1 \in 0..Len(s) /\ i - 1 \in 0..Len(s)  BY <1>1, <1>3, <2>1
  <2>4. w[j] = w[j - 1] + 1 + Len(s[j]) /\ w[j - 1] \in Nat /\ b \in Nat /\ Len(s[j]) \in Nat
    <3>1. Len(s[j]) \in Nat  BY <1>1, <2>3 DEF Labels, IsSeq
    <3> QED BY <2>3, <1>4, <3>1 DEF Offsets
  <2> DEFINE u == w[j]
             x == w[j - 1]
             l == Len(s[j])
             y == g[k]
             z == g[k - 1]
             o == e[k]
  <2> HIDE DEF j, b
  <2>5. y = u - b /\ z = x - b /\ o = 1 + l  BY <2>2
  <2>6. u = x + 1 + l /\ x \in Nat /\ b \in Nat /\ l \in Nat  BY <2>4
  <2> HIDE DEF u, x, l, y, z, o
  <2>7. y = z + o  BY <2>5, <2>6
  <2> QED BY <2>7 DEF y, z, o
<1>13. g[0] = 0
  <2>1. 0 \in 0..n /\ i - 1 + 0 = i - 1 /\ i - 1 \in 0..Len(s)  BY <1>1, <1>3
  <2>2. g[0] = w[i - 1 + 0] - w[i - 1] /\ w[i - 1] \in Nat  BY <1>4, <1>5, <2>1 DEF Offsets
  <2> QED BY <2>1, <2>2
<1>14. IsSum(g, e, n)
  <2>1. g \in [0..n -> Nat]  BY <1>6a, <1>11
  <2> QED BY <1>12, <1>13, <2>1 DEF IsSum
<1>15. WireLen(t) <= WireLen(s)
  <2>1. Total(e) = g[n]  BY <1>3, <1>8, <1>14, TotalIsSum
  <2>2. n \in 0..n /\ i - 1 + n = Len(s) /\ i - 1 \in 0..Len(s) /\ Len(s) \in 0..Len(s)  BY <1>1, <1>3
  <2> DEFINE a == w[Len(s)]
             b == w[i - 1]
  <2>3. g[n] = a - b /\ a \in Nat /\ b \in Nat
    <3>1. g[n] = w[i - 1 + n] - w[i - 1]  BY <1>5, <2>2
    <3> QED BY <2>2, <3>1, <1>4 DEF Offsets
  <2>4. WireLen(t) = a - b /\ WireLen(s) = a  BY <1>4, <1>9, <2>1, <2>3
  <2> HIDE DEF a, b
  <2> QED BY <2>3, <2>4
<1>16. t \in Seq(Seq(Byte)) /\ t # <<>> /\ Last(t) = <<>> /\ \A k \in 1..(Len(t) - 1) : Len(t[k]) \in 1..63
  <2>1. s \in Seq(Seq(Byte))  BY DEF IsName
  <2>2. \A k \in 1..n : i + k - 1 \in 1..Len(s)  BY <1>1, <1>3
  <2>3. \A k \in 1..n : t[k] \in Seq(Byte)
    <3> DEFINE U == Seq(Byte)
    <3>1. \A k \in 1..Len(s) : s[k] \in U
      <4> HIDE DEF U
      <4>1. s \in Seq(U)  BY <2>1 DEF U
      <4> QED BY <4>1
    <3> HIDE DEF U
    <3>2. \A k \in 1..n : t[k] \in U  BY <1>3, <2>2, <3>1
    <3> QED BY <3>2 DEF U
  <2>4. t \in Seq(Seq(Byte))
    <3> DEFINE U == Seq(Byte)
    <3>1. \A k \in 1..Len(t) : t[k] \in U  BY <1>3, <2>3
    <3> HIDE DEF U
    <3>2. t \in Seq(U)  BY <1>3, <3>1, SeqOfSome
    <3> QED BY <3>2 DEF U
  <2>5. t[n] = <<>> /\ n = Len(t)
    <3>1. n \in 1..n /\ i + n - 1 = Len(s)  BY <1>1, <1>3
    <3>2. t[n] = s[i + n - 1]  BY <1>3, <3>1
    <3> QED BY <1>1, <1>3, <3>1, <3>2
  <2>6. t # <<>>
    <3> HIDE DEF n
    <3> QED BY <1>3
  <2>7. ASSUME NEW k \in 1..(Len(t) - 1) PROVE Len(t[k]) \in 1..63
    <3>1. k \in 1..n /\ i + k - 1 \in 1..(Len(s) - 1)  BY <1>1, <1>3
    <3> QED BY <1>1, <1>3, <3>1
  <2> QED BY <2>4, <2>5, <2>6, <2>7 DEF Last
<1>17. WireLen(t) <= maxDomainNameWireOctets
  <2>1. WireLen(t) \in Int /\ WireLen(s) \in Int /\ maxDomainNameWireOctets \in Int
    <3>1. WireLen(t) = g[n] /\ n \in 0..n  BY <1>3, <1>8, <1>9, <1>14, TotalIsSum
    <3>2. Len(s) \in 0..Len(s)  BY <1>1
    <3> QED BY <1>11, <3>1, <3>2, <1>4, WireBounds DEF Offsets
  <2> QED BY <1>1, <1>15, <2>1
<1> QED BY <1>15, <1>16, <1>17 DEF IsName, IsFqdn, t

\* A suffix of a suffix is one of the name.
LEMMA SuffixOfSuffix ==
  ASSUME NEW s, IsSeq(s), NEW i \in 1..Len(s), NEW j \in 1..(Len(s) - i + 1)
  PROVE  Suffix(Suffix(s, i), j) = Suffix(s, i + j - 1)
<1> DEFINE t == Suffix(s, i)
           x == Suffix(t, j)
           y == Suffix(s, i + j - 1)
<1>1. /\ Len(s) \in Nat /\ IsSeq(t) /\ Len(t) = Len(s) - i + 1
      /\ \A k \in 1..(Len(s) - i + 1) : t[k] = s[i + k - 1]
  BY SuffixFacts
<1>2. i + j - 1 \in 1..Len(s) /\ j \in 1..Len(t)  BY <1>1
<1> HIDE DEF t
<1>3. IsSeq(x) /\ Len(x) = Len(t) - j + 1 /\ \A k \in 1..(Len(t) - j + 1) : x[k] = t[j + k - 1]
  BY <1>1, <1>2, SuffixFacts
<1>4. /\ IsSeq(y) /\ Len(y) = Len(s) - (i + j - 1) + 1
      /\ \A k \in 1..(Len(s) - (i + j - 1) + 1) : y[k] = s[i + j - 1 + k - 1]
  BY <1>2, SuffixFacts
<1> HIDE DEF x, y
<1>5. Len(x) = Len(y) /\ Len(x) = Len(s) - i - j + 2  BY <1>1, <1>2, <1>3, <1>4
<1>6. ASSUME NEW k \in 1..Len(x) PROVE x[k] = y[k]
  <2>1. /\ k \in 1..(Len(t) - j + 1) /\ k \in 1..(Len(s) - (i + j - 1) + 1) /\ j + k - 1 \in 1..(Len(s) - i + 1)
        /\ i + (j + k - 1) - 1 = i + j - 1 + k - 1
    BY <1>1, <1>2, <1>5
  <2>2. x[k] = t[j + k - 1] /\ y[k] = s[i + j - 1 + k - 1]  BY <1>3, <1>4, <2>1
  <2>3. t[j + k - 1] = s[i + (j + k - 1) - 1]  BY <1>1, <2>1
  <2> QED BY <2>1, <2>2, <2>3
<1>7. x = y  BY <1>3, <1>4, <1>5, <1>6, SameSeq
<1> QED BY <1>7 DEF x, y, t

\* The buffer behind packDomainName spells the name at its offset.
LEMMA NameSpelled ==
  ASSUME NEW s, IsName(s), NEW w, NameOffsets(w, s), NEW p, IsBuffer(p), NEW q, NEW compress, NEW hit,
         NamePacked(p, q, s, compress, hit, w), NEW H, TrueMap(p, H), \A i \in H : i \in Nat /\ i <= Len(p.msg)
  PROVE  \E P : SpelledAt(q.msg, H, s, P) /\ \A i \in 1..(hit - 1) : P[i] = Len(p.msg) + w[i - 1]
<1> DEFINE base == Len(p.msg)
           n == Len(s)
           m1 == q.msg
<1>1. Labels(s) /\ n \in Nat /\ n >= 1 /\ IsSeq(s) /\ \A i \in 1..n : IsSeq(s[i]) /\ Len(s[i]) \in Nat
  BY NameFacts DEF Labels, IsSeq
<1>2. hit \in 1..n /\ base \in Nat /\ Extends(p, q) /\ Len(m1) \in Nat /\ IsSeq(m1)
  BY DEF NamePacked, IsBuffer, Extends, IsSeq
<1>3. /\ w \in [0..n -> Nat]
      /\ \A i \in 1..n : w[i] = w[i - 1] + 1 + Len(s[i]) /\ i - 1 \in 0..n /\ w[i - 1] \in Nat /\ w[i] \in Nat
      /\ \A i, j \in 0..n : i <= j => w[i] <= w[j]
  <2>1. \A i \in 1..n : i - 1 \in 0..n /\ i \in 0..n  BY <1>1
  <2> QED BY <2>1 DEF NameOffsets, Offsets
<1>4. Len(m1) = base + w[hit - 1] + (IF hit < n THEN 2 ELSE 1)  BY DEF NamePacked
<1>5. \A i \in Nat : i > base => i \notin H  BY <1>2
<1>6. ASSUME NEW i \in 1..(hit - 1) PROVE LabelAt(m1, H, s[i], base + w[i - 1])
  <2>1. i \in 1..n /\ i \in 0..n /\ hit - 1 \in 0..n /\ i <= hit - 1 /\ hit \in 1..n  BY <1>1, <1>2
  <2> DEFINE a == w[i - 1]
             l == Len(s[i])
             e == w[hit - 1]
  <2>2. a \in Nat /\ l \in Nat /\ e \in Nat /\ a + 1 + l <= e
    <3>1. w[i] = a + 1 + l /\ w[i] <= e  BY <1>3, <2>1
    <3> QED BY <3>1, <1>1, <1>3, <2>1
  <2>3. /\ m1[base + a + 1] = l
        /\ \A j \in 1..l : m1[base + a + 1 + j] = s[i][j]
    BY DEF NamePacked
  <2>4. Len(m1) >= base + e
    <3>1. Len(m1) = base + e + (IF hit < n THEN 2 ELSE 1)  BY <1>4
    <3> HIDE DEF e, n, m1, base
    <3> QED BY <3>1, <2>2, <1>2
  <2> HIDE DEF a, l, e, m1, base
  <2>5. base + a + 1 + l <= Len(m1) /\ base + a + 1 \in Nat /\ base + a + 1 > base  BY <1>2, <2>2, <2>4
  <2>6. \A j \in 1..l : base + a + 1 + j \in Nat /\ base + a + 1 + j > base  BY <1>2, <2>2
  <2> QED BY <1>5, <2>3, <2>5, <2>6 DEF LabelAt, a, l
<1>7. CASE hit = n
  <2> DEFINE P == [i \in 1..n |-> base + w[i - 1]]
  <2>1. \A i \in 1..n : P[i] = base + w[i - 1]  OBVIOUS
  <2>2. P \in [1..n -> Nat]
    <3>1. ASSUME NEW i \in 1..n PROVE base + w[i - 1] \in Nat
      <4> DEFINE a == w[i - 1]
      <4>1. a \in Nat /\ base \in Nat  BY <1>2, <1>3
      <4> HIDE DEF a, base
      <4>2. base + a \in Nat  BY <4>1
      <4> QED BY <4>2 DEF a
    <3> QED BY <3>1
  <2> HIDE DEF P
  <2>3. ASSUME NEW i \in 1..(n - 1)
        PROVE  LabelAt(m1, H, s[i], P[i]) /\ P[i + 1] = P[i] + 1 + Len(s[i])
    <3>1. i \in 1..(hit - 1) /\ i \in 1..n /\ i + 1 \in 1..n /\ i + 1 - 1 = i  BY <1>1, <1>7
    <3>2. P[i] = base + w[i - 1] /\ P[i + 1] = base + w[i]  BY <2>1, <3>1
    <3>3. w[i] = w[i - 1] + 1 + Len(s[i]) /\ w[i - 1] \in Nat /\ Len(s[i]) \in Nat  BY <1>1, <1>3, <3>1
    <3> DEFINE a == w[i - 1]
               l == Len(s[i])
    <3>4. P[i] = base + a /\ P[i + 1] = base + (a + 1 + l) /\ a \in Nat /\ l \in Nat  BY <3>2, <3>3
    <3>5. P[i + 1] = P[i] + 1 + l
      <4> HIDE DEF a, l, base
      <4> QED BY <1>2, <3>4
    <3> QED BY <3>1, <3>2, <3>5, <1>6
  <2>4. P[n] + 1 <= Len(m1) /\ P[n] + 1 \notin H /\ m1[P[n] + 1] = 0
    <3> DEFINE e == w[hit - 1]
    <3>1. P[n] = base + e /\ Len(m1) = base + e + 1 /\ m1[base + e + 1] = 0 /\ e \in Nat
      <4>1. n \in 1..n  BY <1>1
      <4> QED BY <1>3, <1>4, <1>7, <2>1, <4>1 DEF NamePacked
    <3> HIDE DEF e, base, m1
    <3> QED BY <1>2, <1>5, <3>1
  <2>5. SpelledAt(m1, H, s, P)  BY <2>2, <2>3, <2>4 DEF SpelledAt
  <2>6. \A i \in 1..(hit - 1) : P[i] = base + w[i - 1]  BY <1>1, <1>7, <2>1
  <2> QED BY <2>5, <2>6
<1>8. CASE hit < n
  <2> DEFINE x == Suffix(s, hit)
             to == p.comp[x]
  <2>1. x \in DOMAIN p.comp  BY <1>8 DEF NamePacked
  <2>2. IsName(x) /\ to \in Nat /\ to < maxCompressionOffset /\ Spelled(p.msg, H, x, to)  BY <2>1 DEF TrueMap
  <2>3. PICK pos : SpelledAt(p.msg, H, x, pos) /\ pos[1] = to  BY <2>2 DEF Spelled
  <2>4. Len(x) = n - hit + 1 /\ \A k \in 1..(n - hit + 1) : x[k] = s[hit + k - 1]  BY <1>1, <1>2, SuffixFacts
  <2>5. SpelledAt(m1, H, x, pos)
    <3>1. Agrees(p.msg, m1, H)  BY <1>2 DEF Agrees, Extends, IsBuffer
    <3>2. Labels(x) /\ Len(x) >= 1  BY <2>2, NameFacts
    <3> HIDE DEF x, m1
    <3> QED BY <2>3, <3>1, <3>2, SpelledKept
  <2> DEFINE P == [i \in 1..n |-> IF i < hit THEN base + w[i - 1] ELSE pos[i - hit + 1]]
  <2>6. \A i \in 1..n : P[i] = IF i < hit THEN base + w[i - 1] ELSE pos[i - hit + 1]  OBVIOUS
  <2>7. P \in [1..n -> Nat]
    <3>1. pos \in [1..(n - hit + 1) -> Nat]  BY <2>4, <2>5 DEF SpelledAt
    <3>2. \A i \in 1..n : ~ (i < hit) => i - hit + 1 \in 1..(n - hit + 1)
      <4>1. n \in Nat /\ hit \in 1..n  BY <1>1, <1>2
      <4> HIDE DEF n
      <4> QED BY <4>1
    <3>3. ASSUME NEW i \in 1..n PROVE base + w[i - 1] \in Nat
      <4> DEFINE a == w[i - 1]
      <4>1. a \in Nat /\ base \in Nat  BY <1>2, <1>3
      <4> HIDE DEF a, base
      <4>2. base + a \in Nat  BY <4>1
      <4> QED BY <4>2 DEF a
    <3>4. \A i \in 1..n : ~ (i < hit) => pos[i - hit + 1] \in Nat  BY <3>1, <3>2
    <3> QED BY <3>3, <3>4
  <2> HIDE DEF P
  <2>8. \A k \in 1..(n - hit + 1) : hit + k - 1 \in 1..n /\ P[hit + k - 1] = pos[k]
    <3> TAKE k \in 1..(n - hit + 1)
    <3>1. hit + k - 1 \in 1..n /\ ~ (hit + k - 1 < hit) /\ hit + k - 1 - hit + 1 = k  BY <1>1, <1>2
    <3> DEFINE j == hit + k - 1
    <3>2. j \in 1..n /\ ~ (j < hit) /\ j - hit + 1 = k
      <4> HIDE DEF n
      <4> QED BY <1>1, <1>2
    <3> HIDE DEF j
    <3>3. P[j] = pos[j - hit + 1]  BY <2>6, <3>2
    <3> QED BY <3>2, <3>3 DEF j
  <2>9. ASSUME NEW i \in 1..(n - 1)
        PROVE  /\ LabelAt(m1, H, s[i], P[i])
               /\ \/ P[i + 1] = P[i] + 1 + Len(s[i])
                  \/ i + 1 < n /\ GoesOn(m1, H, P[i] + 1 + Len(s[i]), P[i + 1])
    <3>0. i \in 1..n /\ i + 1 \in 1..n /\ i + 1 - 1 = i /\ hit \in Int  BY <1>1, <1>2
    <3>1. CASE i < hit
      <4>1. i \in 1..(hit - 1) /\ P[i] = base + w[i - 1]  BY <1>2, <2>6, <3>0, <3>1
      <4> DEFINE a == w[i - 1]
                 l == Len(s[i])
      <4>2. w[i] = a + 1 + l /\ a \in Nat /\ l \in Nat /\ P[i] = base + a  BY <1>1, <1>3, <3>0, <4>1
      <4>3. P[i] + 1 + l = base + w[i]
        <5> HIDE DEF a, l, base
        <5> QED BY <1>2, <4>2
      <4>4. CASE i + 1 < hit
        <5>1. P[i + 1] = base + w[i]  BY <2>6, <3>0, <4>4
        <5> QED BY <4>1, <4>3, <5>1, <1>6
      <4>5. CASE ~ (i + 1 < hit)
        <5>1. i + 1 = hit /\ hit - 1 = i  BY <1>2, <3>0, <3>1, <4>5
        <5>2. P[i + 1] = pos[1]
          <6>1. i + 1 - hit + 1 = 1  BY <1>2, <5>1
          <6> QED BY <2>6, <3>0, <4>5, <6>1
        <5>3. GoesOn(m1, H, base + w[i], to)
          <6> DEFINE e == w[i]
          <6>1. /\ m1[base + e + 1] >= 192
                /\ (m1[base + e + 1] - 192) * 256 + m1[base + e + 2] = to
            BY <1>8, <2>2, <5>1 DEF NamePacked
          <6>2. Len(m1) = base + e + 2 /\ e \in Nat  BY <1>3, <1>4, <1>8, <3>0, <5>1
          <6> HIDE DEF e, base, m1, to
          <6>3. base + e + 1 \notin H /\ base + e + 2 \notin H /\ base + e + 2 <= Len(m1)  BY <1>2, <1>5, <6>2
          <6> QED BY <6>1, <6>3 DEF GoesOn, e
        <5>4. i + 1 < n  BY <1>8, <5>1
        <5> HIDE DEF to, x
        <5> QED BY <4>1, <4>3, <5>2, <5>3, <5>4, <2>3, <1>6
      <4> QED BY <4>4, <4>5
    <3>2. CASE ~ (i < hit)
      <4> DEFINE k == i - hit + 1
      <4>0. n \in Int /\ hit \in Int /\ i \in Int /\ hit >= 1 /\ ~ (i < hit) /\ i + 1 <= n  BY <1>1, <1>2, <3>0, <3>2
      <4>1. /\ k \in 1..(n - hit + 1) /\ k + 1 \in 1..(n - hit + 1) /\ k \in 1..(n - hit + 1 - 1)
            /\ hit + k - 1 = i /\ hit + (k + 1) - 1 = i + 1 /\ (k + 1 < n - hit + 1 <=> i + 1 < n)
        <5> HIDE DEF n
        <5> QED BY <4>0
      <4> HIDE DEF k
      <4>2. P[i] = pos[k] /\ x[k] = s[i]  BY <2>4, <2>8, <4>1
      <4>3. P[i + 1] = pos[k + 1]
        <5>1. P[hit + (k + 1) - 1] = pos[k + 1]  BY <2>8, <4>1
        <5> QED BY <4>1, <5>1
      <4>4. /\ LabelAt(m1, H, x[k], pos[k])
            /\ \/ pos[k + 1] = pos[k] + 1 + Len(x[k])
               \/ k + 1 < Len(x) /\ GoesOn(m1, H, pos[k] + 1 + Len(x[k]), pos[k + 1])
        <5>1. k \in 1..(Len(x) - 1)  BY <2>4, <4>1
        <5> HIDE DEF x, m1
        <5> QED BY <2>5, <5>1 DEF SpelledAt
      <4> HIDE DEF x, m1
      <4> QED BY <2>4, <4>1, <4>2, <4>3, <4>4
    <3> QED BY <3>1, <3>2
  <2>10. P[n] + 1 <= Len(m1) /\ P[n] + 1 \notin H /\ m1[P[n] + 1] = 0
    <3>1. n - hit + 1 \in 1..(n - hit + 1) /\ hit + (n - hit + 1) - 1 = n  BY <1>1, <1>2
    <3>2. P[n] = pos[Len(x)]
      <4>1. P[hit + (n - hit + 1) - 1] = pos[n - hit + 1]  BY <2>8, <3>1
      <4> QED BY <2>4, <3>1, <4>1
    <3> HIDE DEF x, m1
    <3> QED BY <2>5, <3>2 DEF SpelledAt
  <2>11. SpelledAt(m1, H, s, P)  BY <2>7, <2>9, <2>10 DEF SpelledAt
  <2>12. \A i \in 1..(hit - 1) : P[i] = base + w[i - 1]
    <3>1. \A i \in 1..(hit - 1) : i \in 1..n /\ i < hit  BY <1>1, <1>2
    <3> QED BY <2>6, <3>1
  <2> QED BY <2>11, <2>12
<1> QED BY <1>1, <1>2, <1>7, <1>8

\* A true compression map stays true when a name is packed.
LEMMA PackedTrue ==
  ASSUME NEW s, IsName(s), NEW w, NameOffsets(w, s), NEW p, IsBuffer(p), NEW q, NEW compress, NEW hit,
         NamePacked(p, q, s, compress, hit, w), NEW H, TrueMap(p, H), \A i \in H : i \in Nat /\ i <= Len(p.msg)
  PROVE  TrueMap(q, H)
<1>1. PICK P : SpelledAt(q.msg, H, s, P) /\ \A i \in 1..(hit - 1) : P[i] = Len(p.msg) + w[i - 1]
  BY NameSpelled
<1>2. Labels(s) /\ Len(s) \in Nat /\ IsSeq(s) /\ hit \in 1..Len(s) /\ Len(p.msg) \in Nat
  BY NameFacts DEF Labels, NamePacked, IsBuffer, IsSeq
<1>3. Agrees(p.msg, q.msg, H)  BY DEF Agrees, Extends, IsBuffer, NamePacked
<1>4. ASSUME NEW x \in DOMAIN q.comp, x \in DOMAIN p.comp
      PROVE  IsName(x) /\ q.comp[x] \in Nat /\ q.comp[x] < maxCompressionOffset /\ Spelled(q.msg, H, x, q.comp[x])
  <2>1. q.comp[x] = p.comp[x]  BY <1>4 DEF NamePacked
  <2>2. IsName(x) /\ p.comp[x] \in Nat /\ p.comp[x] < maxCompressionOffset /\ Spelled(p.msg, H, x, p.comp[x])
    BY <1>4 DEF TrueMap
  <2>3. PICK pos : SpelledAt(p.msg, H, x, pos) /\ pos[1] = p.comp[x]  BY <2>2 DEF Spelled
  <2>4. Labels(x) /\ Len(x) >= 1  BY <2>2, NameFacts
  <2>5. SpelledAt(q.msg, H, x, pos)  BY <1>3, <2>3, <2>4, SpelledKept
  <2> QED BY <2>1, <2>2, <2>3, <2>5 DEF Spelled
<1>5. ASSUME NEW x \in DOMAIN q.comp, x \notin DOMAIN p.comp
      PROVE  IsName(x) /\ q.comp[x] \in Nat /\ q.comp[x] < maxCompressionOffset /\ Spelled(q.msg, H, x, q.comp[x])
  <2>1. PICK i \in 1..(hit - 1) : x = Suffix(s, i) /\ q.comp[x] = Len(p.msg) + w[i - 1] /\ Insertable(q.comp[x])
    BY <1>5 DEF NamePacked
  <2>2. i \in 1..Len(s) /\ i - 1 \in 0..Len(s)  BY <1>2
  <2>3. P[i] = q.comp[x] /\ w[i - 1] \in Nat  BY <1>1, <2>1, <2>2 DEF NameOffsets, Offsets
  <2>4. Spelled(q.msg, H, x, P[i])  BY <1>1, <1>2, <2>1, <2>2, SpelledSuffix
  <2>5. IsName(x)  BY <2>1, <2>2, SuffixIsName
  <2>6. q.comp[x] \in Nat
    <3> DEFINE a == w[i - 1]
    <3>1. a \in Nat /\ q.comp[x] = Len(p.msg) + a  BY <2>1, <2>3
    <3> HIDE DEF a
    <3> QED BY <1>2, <3>1
  <2> QED BY <2>1, <2>3, <2>4, <2>5, <2>6 DEF Insertable
<1> QED BY <1>4, <1>5 DEF TrueMap

-----------------------------------------------------------------------------
(* UnpackDomainName reads what is spelled.                                 *)

\* The loop of UnpackDomainName, turn by turn.
LEMMA NameTurns ==
  ASSUME NEW msg, NEW off
  PROVE  \E g : /\ g[0] = NameStart(off)
                /\ \A k \in 1..(maxDomainNameWireOctets) : g[k] = NameTurn(msg, g[k - 1])
                /\ UnpackDomainName(msg, off) = IF g[maxDomainNameWireOctets].err THEN Bad ELSE Good(g[maxDomainNameWireOctets].v, g[maxDomainNameWireOctets].off1)
<1> DEFINE N == maxDomainNameWireOctets
           F(k, u) == NameTurn(msg, u)
           E(g, n) == g = [k \in 0..n |-> IF k = 0 THEN NameStart(off) ELSE F(k, g[k - 1])]
           g0 == CHOOSE g : E(g, N)
           T == {n \in 0..N : ~ \E g : E(g, n)}
<1>0. N \in Nat  BY WireBounds
<1>1. UnpackDomainName(msg, off) = IF g0[N].err THEN Bad ELSE Good(g0[N].v, g0[N].off1)
  BY DEF UnpackDomainName, NameStart
<1> HIDE DEF F, N, g0
<1>2. ASSUME T # {} PROVE FALSE
  <2>1. PICK n \in T : \A j \in T : n <= j
    <3>1. T \subseteq Nat
      <4> HIDE DEF E
      <4> QED BY <1>0
    <3> HIDE DEF T
    <3> QED BY <1>2, <3>1, Least
  <2>2. n \in 0..N /\ ~ \E g : E(g, n)  BY <2>1
  <2>3. n # 0
    <3>1. E([k \in 0..0 |-> NameStart(off)], 0)  OBVIOUS
    <3> HIDE DEF E
    <3> QED BY <2>2, <3>1
  <2>4. PICK g : E(g, n - 1)
    <3>1. n - 1 \in 0..N /\ ~ (n <= n - 1)  BY <1>0, <2>2, <2>3
    <3> HIDE DEF E
    <3> QED BY <2>1, <3>1
  <2> DEFINE h == [k \in 0..n |-> IF k < n THEN g[k] ELSE F(n, g[n - 1])]
  <2>5. n \in Nat /\ n >= 1  BY <1>0, <2>2, <2>3
  <2>6. ASSUME NEW k \in 0..n PROVE h[k] = IF k = 0 THEN NameStart(off) ELSE F(k, h[k - 1])
    <3>1. CASE k = n
      <4>1. h[k] = F(n, g[n - 1]) /\ h[n - 1] = g[n - 1]  BY <2>5, <3>1
      <4> HIDE DEF h
      <4> QED BY <2>5, <3>1, <4>1
    <3>2. CASE k # n
      <4>1. k \in 0..(n - 1) /\ k < n  BY <2>5, <3>2
      <4>2. g[k] = IF k = 0 THEN NameStart(off) ELSE F(k, g[k - 1])  BY <2>4, <4>1
      <4>3. h[k] = g[k] /\ (k # 0 => h[k - 1] = g[k - 1])  BY <2>5, <4>1
      <4> HIDE DEF h
      <4> QED BY <4>2, <4>3
    <3> QED BY <3>1, <3>2
  <2>7. h = [k \in 0..n |-> h[k]]  OBVIOUS
  <2> HIDE DEF h
  <2>8. E(h, n)  BY <2>6, <2>7
  <2> HIDE DEF E
  <2> QED BY <2>2, <2>8
<1>3. E(g0, N)
  <2>1. \E g : E(g, N)
    <3> HIDE DEF E
    <3> QED BY <1>0, <1>2
  <2> HIDE DEF E
  <2> QED BY <2>1 DEF g0
<1>4. g0[0] = NameStart(off) /\ \A k \in 1..N : g0[k] = F(k, g0[k - 1])  BY <1>0, <1>3
<1> QED BY <1>1, <1>4 DEF F, N

\* A turn at a label reads it.
LEMMA TurnAtLabel ==
  ASSUME NEW msg, IsSeq(msg), NEW u, IsTurn(u), NEW H, NEW l, IsSeq(l), Len(l) \in 1..63, LabelAt(msg, H, l, u.off),
         u.budget - (Len(l) + 1) > 0, NEW v, v = NameTurn(msg, u)
  PROVE  BehindLabel(u, v, l)
<1> DEFINE c == msg[u.off + 1]
           o == Octets(msg, u.off + 1, c)
<1>1. /\ u.off \in Nat /\ Len(msg) \in Nat /\ c = Len(l) /\ c \in 1..63 /\ u.off + 1 + c <= Len(msg) /\ u.budget \in Int
      /\ \A j \in 1..c : msg[u.off + 1 + j] = l[j]
  BY DEF LabelAt, IsTurn, IsSeq
<1>2. o = l
  <2> DEFINE a == u.off + 1 + 1
             b == u.off + 1 + c
  <2>1. o = SubSeq(msg, a, b)  BY DEF Octets
  <2>2. a \in Nat /\ b \in Nat /\ 1 <= a /\ a <= b + 1 /\ b <= Len(msg) /\ b - a + 1 = c
    <3> DEFINE x == u.off
               n == Len(msg)
    <3>1. x \in Nat /\ n \in Nat /\ c \in 1..63 /\ x + 1 + c <= n /\ a = x + 1 + 1 /\ b = x + 1 + c  BY <1>1
    <3> HIDE DEF c, x, n, a, b
    <3>2. a \in Nat /\ b \in Nat /\ 1 <= a /\ a <= b + 1 /\ b <= n /\ b - a + 1 = c  BY <3>1
    <3> QED BY <3>2 DEF n
  <2>3. \A j \in 1..c : a + j - 1 = u.off + 1 + j
    <3> DEFINE x == u.off
    <3>1. x \in Nat  BY <1>1
    <3> HIDE DEF c, x
    <3>2. \A j \in Int : x + 1 + 1 + j - 1 = x + 1 + j  BY <3>1
    <3> QED BY <3>2 DEF x
  <2> HIDE DEF a, b, o, c
  <2>4. IsSeq(o) /\ Len(o) = c /\ \A j \in 1..c : o[j] = msg[a + j - 1]  BY <2>1, <2>2, Piece
  <2>5. \A j \in 1..Len(o) : o[j] = l[j]  BY <1>1, <2>3, <2>4
  <2> QED BY <1>1, <2>4, <2>5, SameSeq
<1>3. v = [u EXCEPT !.v = Append(@, o), !.off = @ + 1 + c, !.budget = @ - (c + 1)]
  <2> HIDE DEF c, o
  <2>1. /\ ~u.done /\ ~ (u.off >= Len(msg)) /\ c # 0 /\ c \in 1..63 /\ ~ (c >= 192)
        /\ ~ (u.off + 1 + c > Len(msg)) /\ ~ (u.budget - (c + 1) <= 0)
    <3> DEFINE x == u.off
               b == u.budget
               n == Len(msg)
    <3>1. x \in Nat /\ n \in Nat /\ c \in 1..63 /\ x + 1 + c <= n /\ b \in Int /\ b - (c + 1) > 0  BY <1>1
    <3>2. ~u.done  BY DEF IsTurn
    <3> HIDE DEF x, b, n
    <3>3. ~ (x >= n) /\ c # 0 /\ ~ (x + 1 + c > n) /\ ~ (b - (c + 1) <= 0) /\ ~ (c >= 192)  BY <3>1
    <3> QED BY <3>1, <3>2, <3>3 DEF x, b, n
  <2> QED BY <2>1 DEF NameTurn, c, o
<1> HIDE DEF c, o
<1>4. /\ DOMAIN v = DOMAIN u /\ v.v = Append(u.v, l) /\ v.off = u.off + 1 + c /\ v.budget = u.budget - (c + 1)
      /\ v.ptr = u.ptr /\ v.done = u.done /\ v.err = u.err
  BY <1>2, <1>3 DEF IsTurn
<1>5. IsSeq(v.v)  BY <1>4, Added DEF IsTurn
<1>6. IsTurn(v)  BY <1>1, <1>4, <1>5 DEF IsTurn
<1> QED BY <1>1, <1>4, <1>6 DEF BehindLabel

\* A turn at a pointer follows it.
LEMMA TurnAtPointer ==
  ASSUME NEW msg, IsSeq(msg), NEW u, IsTurn(u), NEW H, NEW to \in Nat, GoesOn(msg, H, u.off, to),
         u.ptr + 1 <= maxCompressionPointers, NEW v, v = NameTurn(msg, u)
  PROVE  /\ IsTurn(v) /\ v.off = to /\ v.v = u.v /\ v.budget = u.budget /\ v.ptr = u.ptr + 1
<1> DEFINE c == msg[u.off + 1]
           d == msg[u.off + 2]
           off1 == IF u.ptr = 0 THEN u.off + 2 ELSE u.off1
<1>1. u.off \in Nat /\ Len(msg) \in Nat /\ c >= 192 /\ (c - 192) * 256 + d = to /\ u.off + 2 <= Len(msg) /\ u.ptr \in Nat
  BY DEF GoesOn, IsTurn, IsSeq
<1>2. v = [u EXCEPT !.off = (c - 192) * 256 + d, !.off1 = off1, !.ptr = u.ptr + 1]
  <2>0. maxCompressionPointers \in Int  BY WireBounds DEF maxCompressionPointers
  <2> HIDE DEF c, d, off1
  <2>1. /\ ~u.done /\ ~ (u.off >= Len(msg)) /\ c # 0 /\ c \notin 1..63 /\ c >= 192
        /\ ~ (u.off + 1 >= Len(msg)) /\ ~ (u.ptr + 1 > maxCompressionPointers)
    <3> DEFINE x == u.off
               b == u.ptr
               n == Len(msg)
               k == maxCompressionPointers
    <3>1. x \in Nat /\ n \in Nat /\ c >= 192 /\ x + 2 <= n /\ b \in Nat /\ b + 1 <= k /\ k \in Int
      BY <1>1, <2>0
    <3>2. ~u.done  BY DEF IsTurn
    <3> HIDE DEF x, b, n, k
    <3>3. ~ (x >= n) /\ c # 0 /\ c \notin 1..63 /\ ~ (x + 1 >= n) /\ ~ (b + 1 > k)  BY <3>1
    <3> QED BY <3>1, <3>2, <3>3 DEF x, b, n, k
  <2> HIDE DEF maxCompressionPointers
  <2> QED BY <2>1 DEF NameTurn, c, d, off1
<1> HIDE DEF c, d, off1
<1>3. /\ DOMAIN v = DOMAIN u /\ v.v = u.v /\ v.off = (c - 192) * 256 + d /\ v.budget = u.budget
      /\ v.ptr = u.ptr + 1 /\ v.done = u.done /\ v.err = u.err
  BY <1>2 DEF IsTurn
<1> QED BY <1>1, <1>3 DEF IsTurn

\* A turn at the root ends the name.
LEMMA TurnAtRoot ==
  ASSUME NEW msg, IsSeq(msg), NEW u, IsTurn(u), u.off + 1 <= Len(msg), msg[u.off + 1] = 0, NEW v, v = NameTurn(msg, u)
  PROVE  v.v = Append(u.v, <<>>) /\ v.done /\ ~v.err
<1>1. u.off \in Nat /\ Len(msg) \in Nat  BY DEF IsTurn, IsSeq
<1> DEFINE off1 == IF u.ptr = 0 THEN u.off + 1 ELSE u.off1
<1>2. v = [u EXCEPT !.v = Append(u.v, <<>>), !.off1 = off1, !.done = TRUE]
  <2>1. ~u.done /\ ~ (u.off >= Len(msg))  BY <1>1 DEF IsTurn
  <2> QED BY <2>1 DEF NameTurn
<1> HIDE DEF off1
<1>3. v.v = Append(u.v, <<>>) /\ v.done = TRUE /\ v.err = u.err  BY <1>2 DEF IsTurn
<1> QED BY <1>3 DEF IsTurn

\* A label takes two octets at least.
LEMMA TwoOctetsALabel ==
  ASSUME NEW s, IsName(s), NEW w, NameOffsets(w, s)
  PROVE  /\ \A i \in 0..(Len(s) - 1) : 2 * i <= w[i]
         /\ 2 * Len(s) - 1 <= maxDomainNameWireOctets
         /\ \A i \in 0..(Len(s) - 1) : w[i] < maxDomainNameWireOctets
<1>1. /\ Len(s) \in Nat /\ Len(s) >= 1 /\ s[Len(s)] = <<>> /\ WireLen(s) <= maxDomainNameWireOctets
      /\ \A i \in 1..(Len(s) - 1) : Len(s[i]) \in 1..63
  BY NameFacts
<1>2. /\ \A i \in 0..Len(s) : w[i] \in Nat
      /\ \A i \in 1..Len(s) : w[i] = w[i - 1] + 1 + Len(s[i])
      /\ w[0] = 0 /\ w[Len(s)] = WireLen(s) /\ \A i, j \in 0..Len(s) : i <= j => w[i] <= w[j]
  BY DEF NameOffsets, Offsets
<1> DEFINE T == {i \in 0..(Len(s) - 1) : ~ (2 * i <= w[i])}
<1>3. ASSUME T # {} PROVE FALSE
  <2>1. PICK i \in T : \A j \in T : i <= j
    <3>1. T \subseteq Nat  OBVIOUS
    <3> HIDE DEF T
    <3> QED BY <1>3, <3>1, Least
  <2>2. i \in 0..(Len(s) - 1) /\ ~ (2 * i <= w[i])  BY <2>1
  <2>3. i # 0  BY <1>2, <2>2
  <2>4. i - 1 \in 0..(Len(s) - 1) /\ ~ (i <= i - 1) /\ i \in 1..(Len(s) - 1) /\ i - 1 \in 0..Len(s) /\ i \in 1..Len(s)
    BY <1>1, <2>2, <2>3
  <2>5. 2 * (i - 1) <= w[i - 1]  BY <2>1, <2>4
  <2> DEFINE a == w[i - 1]
             l == Len(s[i])
  <2>6. w[i] = a + 1 + l /\ a \in Nat /\ l \in 1..63 /\ 2 * (i - 1) <= a  BY <1>1, <1>2, <2>4, <2>5
  <2> HIDE DEF a, l
  <2> QED BY <2>2, <2>4, <2>6
<1>4. \A i \in 0..(Len(s) - 1) : 2 * i <= w[i]  BY <1>3
<1> HIDE DEF T
<1> DEFINE a == w[Len(s) - 1]
<1>5. WireLen(s) = a + 1 /\ a \in Nat /\ 2 * (Len(s) - 1) <= a
  <2>1. Len(s) \in 1..Len(s) /\ Len(s) - 1 \in 0..(Len(s) - 1) /\ Len(s) - 1 \in 0..Len(s) /\ Len(s[Len(s)]) = 0
    BY <1>1
  <2>2. w[Len(s)] = a + 1 + Len(s[Len(s)]) /\ a \in Nat /\ 2 * (Len(s) - 1) <= a  BY <1>2, <1>4, <2>1
  <2> HIDE DEF a
  <2> QED BY <1>2, <2>1, <2>2
<1>6. \A i \in 0..(Len(s) - 1) : w[i] <= a /\ w[i] \in Nat
  <2>1. \A i \in 0..(Len(s) - 1) : i \in 0..Len(s) /\ i <= Len(s) - 1  BY <1>1
  <2>2. Len(s) - 1 \in 0..Len(s)  BY <1>1
  <2> QED BY <1>2, <2>1, <2>2
<1>7. maxDomainNameWireOctets \in Int  BY WireBounds
<1> HIDE DEF a
<1> QED BY <1>1, <1>4, <1>5, <1>6, <1>7

\* UnpackDomainName gives a name that is spelled at the offset.
LEMMA Decoded ==
  ASSUME NEW msg, IsSeq(msg), NEW H, NEW s, IsName(s), NEW start, Spelled(msg, H, s, start)
  PROVE  ~UnpackDomainName(msg, start).err /\ UnpackDomainName(msg, start).v = s
<1> DEFINE N == maxDomainNameWireOctets
           n == Len(s)
<1>1. PICK pos : SpelledAt(msg, H, s, pos) /\ pos[1] = start  BY DEF Spelled
<1>2. /\ Labels(s) /\ n \in Nat /\ n >= 1 /\ IsSeq(s) /\ s[n] = <<>>
      /\ \A i \in 1..(n - 1) : Len(s[i]) \in 1..63 /\ IsSeq(s[i])
  <2>1. \A i \in 1..(Len(s) - 1) : i \in 1..Len(s)  BY NameFacts
  <2> QED BY <2>1, NameFacts DEF Labels
<1>3. PICK w : NameOffsets(w, s)  BY <1>2, NameOffsetsExist
<1>4. /\ 2 * n - 1 <= N /\ N \in Int /\ \A i \in 0..(n - 1) : w[i] < N /\ w[i] \in Nat
      /\ w[0] = 0 /\ \A i \in 1..(n - 1) : w[i] = w[i - 1] + 1 + Len(s[i])
  <2>1. \A i \in 0..(n - 1) : i \in 0..n  BY <1>2
  <2>2. \A i \in 1..(n - 1) : i \in 1..n  BY <1>2
  <2>3. 2 * n - 1 <= N /\ \A i \in 0..(n - 1) : w[i] < N  BY <1>3, TwoOctetsALabel
  <2>4. N \in Int  BY WireBounds
  <2>5. (\A i \in 0..n : w[i] \in Nat) /\ w[0] = 0 /\ \A i \in 1..n : w[i] = w[i - 1] + 1 + Len(s[i])
    BY <1>3 DEF NameOffsets, Offsets
  <2> HIDE DEF N, n
  <2> QED BY <2>1, <2>2, <2>3, <2>4, <2>5
<1>4a. 2 * n - 1 <= N /\ N \in Int  BY <1>4
<1>5. maxCompressionPointers \in Int /\ n - 2 <= maxCompressionPointers
  <2>1. PICK h \in Int : (N + 1) \div 2 = h /\ 2 * h <= N + 1 /\ N + 1 < 2 * h + 2
    <3> HIDE DEF N
    <3>1. \E h \in Int : (N + 1) \div 2 = h /\ 2 * h <= N + 1 /\ N + 1 < 2 * h + 2  BY <1>4
    <3> QED BY <3>1
  <2>2. maxCompressionPointers = h - 2  BY <2>1 DEF maxCompressionPointers
  <2> HIDE DEF N, n
  <2>3. n <= h  BY <1>2, <1>4, <2>1
  <2> QED BY <1>2, <2>2, <2>3
<1>6. PICK g : /\ g[0] = NameStart(start)
               /\ \A k \in 1..N : g[k] = NameTurn(msg, g[k - 1])
               /\ UnpackDomainName(msg, start) = IF g[N].err THEN Bad ELSE Good(g[N].v, g[N].off1)
  BY NameTurns
<1> DEFINE At(k, i) == /\ IsTurn(g[k]) /\ g[k].off = pos[i] /\ Len(g[k].v) = i - 1
                       /\ \A j \in 1..(i - 1) : g[k].v[j] = s[j]
                       /\ g[k].budget = N - w[i - 1] /\ g[k].ptr <= i - 1
           Reached(i) == \E k \in Nat : k <= 2 * i - 2 /\ At(k, i)
<1>7. pos \in [1..n -> Nat]  BY <1>1 DEF SpelledAt
<1>8. Reached(1)
  <2> DEFINE u == g[0]
  <2>1. /\ DOMAIN u = {"off", "off1", "v", "budget", "ptr", "done", "err"} /\ u.off = start /\ u.v = <<>>
        /\ u.budget = N /\ u.ptr = 0 /\ u.done = FALSE /\ u.err = FALSE
    BY <1>6 DEF NameStart
  <2>2. start \in Nat /\ start = pos[1]  BY <1>1, <1>2, <1>7
  <2>3. IsSeq(u.v) /\ Len(u.v) = 0  BY <2>1 DEF IsSeq
  <2>4. IsTurn(u)
    <3> HIDE DEF u
    <3> QED BY <1>4, <2>1, <2>2, <2>3 DEF IsTurn
  <2>5. At(0, 1)
    <3> HIDE DEF u
    <3>1. 1 - 1 = 0 /\ N - w[1 - 1] = N /\ Len(u.v) = 0 /\ u.budget = N /\ u.ptr <= 0
      <4> HIDE DEF N
      <4> QED BY <1>4, <2>1, <2>3
    <3>2. \A j \in 1..(1 - 1) : u.v[j] = s[j]  OBVIOUS
    <3> QED BY <2>1, <2>2, <2>4, <3>1, <3>2 DEF u
  <2> HIDE DEF At
  <2> QED BY <2>5
<1>9. ASSUME NEW i \in 1..(n - 1), Reached(i) PROVE Reached(i + 1)
  <2>1. PICK k \in Nat : k <= 2 * i - 2 /\ At(k, i)  BY <1>9
  <2>2. i \in 1..n /\ i + 1 \in 1..n /\ i - 1 \in 0..(n - 1) /\ i \in 0..(n - 1) /\ i + 1 - 1 = i  BY <1>2
  <2> DEFINE u == g[k]
             v == g[k + 1]
             l == Len(s[i])
             a == w[i - 1]
  <2>3. k + 1 \in 1..N /\ k + 1 - 1 = k /\ k + 2 \in 1..N /\ k + 2 - 1 = k + 1 /\ k + 1 <= 2 * (i + 1) - 2 /\ k + 2 <= 2 * (i + 1) - 2
    <3>1. k <= 2 * i - 2  BY <2>1
    <3> HIDE DEF N, n
    <3> QED BY SMTT(20), <1>2, <1>4a, <3>1
  <2>4. v = NameTurn(msg, u)
    <3>1. g[k + 1] = NameTurn(msg, g[k + 1 - 1])  BY <1>6, <2>3
    <3> QED BY <2>3, <3>1
  <2>5. /\ IsTurn(u) /\ u.off = pos[i] /\ Len(u.v) = i - 1 /\ (\A j \in 1..(i - 1) : u.v[j] = s[j])
        /\ u.budget = N - a /\ u.ptr <= i - 1 /\ u.ptr \in Nat /\ IsSeq(u.v)
    BY <2>1 DEF IsTurn
  <2>6. l \in 1..63 /\ IsSeq(s[i]) /\ a \in Nat /\ w[i] = a + 1 + l /\ w[i] < N  BY <1>2, <1>4, <2>2
  <2>7. u.budget - (l + 1) = N - w[i] /\ N - w[i] > 0 /\ N - w[i] \in Int
    <3> HIDE DEF N, a, l
    <3> QED BY <1>4, <2>5, <2>6
  <2>8. LabelAt(msg, H, s[i], u.off)  BY <1>1, <2>5 DEF SpelledAt
  <2> HIDE DEF u, v, l, a
  <2>9. /\ IsTurn(v) /\ v.off = u.off + 1 + l /\ v.v = Append(u.v, s[i])
        /\ v.budget = u.budget - (l + 1) /\ v.ptr = u.ptr
    <3> DEFINE y == s[i]
    <3>1. IsTurn(u) /\ IsSeq(y) /\ Len(y) \in 1..63 /\ LabelAt(msg, H, y, u.off) /\ u.budget - (Len(y) + 1) > 0
      BY <2>5, <2>6, <2>7, <2>8 DEF l
    <3> HIDE DEF y, n, N, At
    <3>2. BehindLabel(u, v, y)  BY <2>4, <3>1, TurnAtLabel
    <3> QED BY <3>2 DEF y, l, BehindLabel
  <2>10. /\ Len(v.v) = i /\ \A j \in 1..i : v.v[j] = s[j]
    <3>1. /\ Len(v.v) = Len(u.v) + 1 /\ \A j \in 1..Len(u.v) : v.v[j] = u.v[j]
          /\ v.v[Len(u.v) + 1] = s[i]
      BY <2>5, <2>9, Added
    <3>2. Len(u.v) + 1 = i /\ \A j \in 1..i : j \in 1..(i - 1) \/ j = i  BY <2>5
    <3> QED BY <2>5, <3>1, <3>2
  <2>11. v.budget = N - w[i] /\ v.ptr <= i - 1 /\ v.ptr \in Nat  BY <2>5, <2>7, <2>9
  <2>12. CASE pos[i + 1] = pos[i] + 1 + Len(s[i])
    <3>1. v.off = pos[i + 1]  BY <2>5, <2>9, <2>12 DEF l
    <3>2. v.ptr <= i  BY <2>11
    <3>3. At(k + 1, i + 1)
      <4> HIDE DEF N
      <4> QED BY <2>2, <2>9, <2>10, <2>11, <3>1, <3>2 DEF v
    <3> HIDE DEF At
    <3> QED BY <2>3, <3>3
  <2>13. CASE i + 1 < n /\ GoesOn(msg, H, pos[i] + 1 + Len(s[i]), pos[i + 1])
    <3> DEFINE x == g[k + 2]
               to == pos[i + 1]
    <3>1. x = NameTurn(msg, v)
      <4>1. g[k + 2] = NameTurn(msg, g[k + 2 - 1])  BY <1>6, <2>3
      <4> QED BY <2>3, <4>1 DEF v
    <3>2. to \in Nat /\ GoesOn(msg, H, v.off, to)  BY <1>7, <2>2, <2>5, <2>9, <2>13 DEF l
    <3>3. v.ptr + 1 <= maxCompressionPointers
      <4> HIDE DEF n
      <4> QED BY <1>2, <1>5, <2>11, <2>13
    <3> HIDE DEF x, to
    <3>4. IsTurn(x) /\ x.off = to /\ x.v = v.v /\ x.budget = v.budget /\ x.ptr = v.ptr + 1
      <4>1. IsTurn(v)  BY <2>9
      <4> HIDE DEF n, N, At
      <4> QED BY <4>1, <3>1, <3>2, <3>3, TurnAtPointer
    <3>5. x.ptr <= i  BY <2>11, <3>4
    <3>6. At(k + 2, i + 1)
      <4> HIDE DEF N
      <4> QED BY <2>2, <2>10, <2>11, <3>4, <3>5 DEF x, to
    <3> HIDE DEF At
    <3> QED BY <2>3, <3>6
  <2>14. \/ pos[i + 1] = pos[i] + 1 + Len(s[i])
         \/ i + 1 < n /\ GoesOn(msg, H, pos[i] + 1 + Len(s[i]), pos[i + 1])
    BY <1>1 DEF SpelledAt
  <2> QED BY <2>12, <2>13, <2>14
<1> HIDE DEF Reached
<1>10. Reached(n)
  <2> DEFINE T == {i \in 1..n : ~Reached(i)}
  <2>1. ASSUME T # {} PROVE FALSE
    <3>1. PICK i \in T : \A j \in T : i <= j
      <4>1. T \subseteq Nat  OBVIOUS
      <4> HIDE DEF T
      <4> QED BY <2>1, <4>1, Least
    <3>2. i \in 1..n /\ ~Reached(i) /\ i # 1  BY <3>1, <1>8
    <3>3. i - 1 \in 1..(n - 1) /\ i - 1 \in 1..n /\ i - 1 + 1 = i /\ ~ (i <= i - 1)  BY <1>2, <3>2
    <3>4. Reached(i - 1)  BY <3>1, <3>3
    <3>5. Reached(i - 1 + 1)  BY <1>9, <3>3, <3>4
    <3> QED BY <3>2, <3>3, <3>5
  <2> QED BY <1>2, <2>1
<1>11. PICK k \in Nat : k <= 2 * n - 2 /\ At(k, n)  BY <1>10 DEF Reached
<1> DEFINE u == g[k]
           v == g[k + 1]
<1>12. k + 1 \in 1..N /\ k + 1 - 1 = k
  <2>1. k <= 2 * n - 2  BY <1>11
  <2> HIDE DEF N, n
  <2> QED BY <1>2, <1>4a, <2>1
<1>13. v = NameTurn(msg, u)
  <2>1. g[k + 1] = NameTurn(msg, g[k + 1 - 1])  BY <1>6, <1>12
  <2> QED BY <1>12, <2>1
<1>14. IsTurn(u) /\ u.off = pos[n] /\ Len(u.v) = n - 1 /\ (\A j \in 1..(n - 1) : u.v[j] = s[j]) /\ IsSeq(u.v)
  BY <1>11 DEF IsTurn
<1>15. u.off + 1 <= Len(msg) /\ msg[u.off + 1] = 0  BY <1>1, <1>14 DEF SpelledAt
<1>16. v.v = Append(u.v, <<>>) /\ v.done /\ ~v.err
  <2> HIDE DEF u, v
  <2> QED BY <1>13, <1>14, <1>15, TurnAtRoot
<1>17. v.v = s
  <2> HIDE DEF u, v
  <2>1. /\ IsSeq(v.v) /\ Len(v.v) = Len(u.v) + 1 /\ \A j \in 1..Len(u.v) : v.v[j] = u.v[j]
        /\ v.v[Len(u.v) + 1] = <<>>
    BY <1>14, <1>16, Added
  <2>2. n \in Nat /\ n = Len(s) /\ s[n] = <<>> /\ Len(u.v) = n - 1 /\ \A j \in 1..(n - 1) : u.v[j] = s[j]
    BY <1>2, <1>14
  <2>3. \A j \in 1..n : v.v[j] = s[j]
    <3> HIDE DEF n
    <3> QED BY <2>1, <2>2
  <2>4. Len(v.v) = Len(s)  BY <2>1, <2>2
  <2> QED BY <1>2, <2>1, <2>3, <2>4, SameSeq
<1>18. \A j \in (k + 1)..N : g[j] = v
  <2> DEFINE T == {j \in (k + 1)..N : g[j] # v}
  <2>1. ASSUME T # {} PROVE FALSE
    <3>1. PICK i \in T : \A j \in T : i <= j
      <4>1. T \subseteq Nat
        <5> HIDE DEF v, N
        <5> QED BY <1>4
      <4> HIDE DEF T
      <4> QED BY <2>1, <4>1, Least
    <3>2. i \in (k + 1)..N /\ g[i] # v /\ i # k + 1  BY <3>1
    <3>3. i - 1 \in (k + 1)..N /\ i \in 1..N /\ ~ (i <= i - 1)
      <4> HIDE DEF N
      <4> QED BY <1>4, <3>2
    <3>4. g[i - 1] = v  BY <3>1, <3>3
    <3>5. g[i] = NameTurn(msg, v)  BY <1>6, <3>3, <3>4
    <3>6. NameTurn(msg, v) = v
      <4> HIDE DEF v
      <4> QED BY <1>16 DEF NameTurn
    <3> QED BY <3>2, <3>5, <3>6
  <2> QED BY <2>1
<1>19. g[N] = v
  <2>1. N \in (k + 1)..N
    <3> HIDE DEF N
    <3> QED BY <1>4, <1>12
  <2> QED BY <1>18, <2>1
<1> DEFINE name == UnpackDomainName(msg, start)
<1>20. name = Good(v.v, v.off1)
  <2> HIDE DEF v, name
  <2>1. name = IF v.err THEN Bad ELSE Good(v.v, v.off1)  BY <1>6, <1>19 DEF name
  <2> QED BY <1>16, <2>1
<1> HIDE DEF name, v
<1>21. ~name.err /\ name.v = v.v  BY <1>20 DEF Good
<1> QED BY <1>17, <1>21 DEF name

\* The presentation form of a name has a character for every octet at least.
LEMMA PresentationCovers ==
  ASSUME NEW t, Labels(t)
  PROVE  PresentationLen(t) \in Nat /\ WireLen(t) \in Nat /\ WireLen(t) <= PresentationLen(t)
<1> DEFINE Wide(c) == CASE c \in Special -> 2 [] c \notin 32..126 -> 4 [] OTHER -> 1
           L(i) == Total([k \in 1..Len(t[i]) |-> Wide(t[i][k])])
           d == [i \in 1..Len(t) |-> 1 + Len(t[i])]
           e == [i \in 1..Len(t) |-> 1 + L(i)]
<1>1. WireLen(t) = Total(d) /\ PresentationLen(t) = Total(e)  BY DEF WireLen, PresentationLen
<1>2. Len(t) \in Nat /\ \A i \in 1..Len(t) : IsSeq(t[i]) /\ Len(t[i]) \in Nat  BY DEF Labels, IsSeq
<1>3. ASSUME NEW i \in 1..Len(t) PROVE L(i) \in Nat /\ Len(t[i]) <= L(i)
  <2> DEFINE n == Len(t[i])
             a == [k \in 1..n |-> 1]
             b == [k \in 1..n |-> Wide(t[i][k])]
             f == [k \in 0..n |-> k]
  <2>1. n \in Nat  BY <1>2
  <2>2. \A c : Wide(c) \in {1, 2, 4}  OBVIOUS
  <2>3. \A k \in 1..n : a[k] = 1 /\ b[k] \in {1, 2, 4}
    <3> HIDE DEF Wide, n
    <3> QED BY <2>2
  <2>4. a = [k \in 1..n |-> a[k]] /\ b = [k \in 1..n |-> b[k]] /\ \A k \in 0..n : f[k] = k
    <3> HIDE DEF Wide, n
    <3> QED OBVIOUS
  <2>5. IsSum(f, a, n)
    <3> HIDE DEF n
    <3>1. f \in [0..n -> Nat] /\ f[0] = 0  BY <2>1
    <3>2. \A k \in 1..n : f[k] = f[k - 1] + a[k]  BY <2>1
    <3> QED BY <3>1, <3>2 DEF IsSum
  <2>6. L(i) = Total(b)  OBVIOUS
  <2> HIDE DEF a, b, f, n, L
  <2>7. IsSeq(a) /\ Len(a) = n  BY <2>1, <2>4, FunctionIsSeq
  <2>7b. IsSeq(b) /\ Len(b) = n  BY <2>1, <2>4, FunctionIsSeq
  <2>8. Total(a) = n
    <3>1. Total(a) = f[n] /\ n \in 0..n  BY <2>1, <2>5, <2>7, TotalIsSum
    <3> QED BY <2>4, <3>1
  <2>9. Total(b) \in Nat /\ Total(a) <= Total(b)
    <3>1. \A k \in 1..Len(a) : a[k] \in Nat /\ b[k] \in Nat /\ a[k] <= b[k]  BY <2>3, <2>7
    <3>2. Len(a) = Len(b) /\ IsSeq(a) /\ IsSeq(b)  BY <2>7, <2>7b
    <3> QED BY <3>1, <3>2, TotalBelow
  <2> QED BY <2>6, <2>8, <2>9 DEF n
<1> HIDE DEF L
<1>4. /\ d = [i \in 1..Len(t) |-> d[i]] /\ e = [i \in 1..Len(t) |-> e[i]]
      /\ \A i \in 1..Len(t) : d[i] = 1 + Len(t[i]) /\ e[i] = 1 + L(i)
  OBVIOUS
<1> HIDE DEF d, e
<1>5. IsSeq(d) /\ Len(d) = Len(t)  BY <1>2, <1>4, FunctionIsSeq
<1>6. IsSeq(e) /\ Len(e) = Len(t)  BY <1>2, <1>4, FunctionIsSeq
<1>7. ASSUME NEW i \in 1..Len(d) PROVE d[i] \in Nat /\ e[i] \in Nat /\ d[i] <= e[i]
  <2> DEFINE a == Len(t[i])
             b == L(i)
  <2>1. a \in Nat /\ b \in Nat /\ a <= b /\ d[i] = 1 + a /\ e[i] = 1 + b  BY <1>2, <1>3, <1>4, <1>5
  <2> HIDE DEF a, b
  <2> QED BY <2>1
<1>8. Len(d) = Len(e) /\ IsSeq(d) /\ IsSeq(e)  BY <1>5, <1>6
<1>9. Total(d) \in Nat /\ Total(e) \in Nat /\ Total(d) <= Total(e)  BY <1>7, <1>8, TotalBelow
<1> QED BY <1>1, <1>9

-----------------------------------------------------------------------------
(* The length of a name.                                                   *)

\* The limit of the offsets is a number.
LEMMA OffsetLimit == maxCompressionOffset \in Int
BY WireBounds

\* What compressionLenSearch gives.
LEMMA SearchFacts ==
  ASSUME NEW seen, NEW s, IsName(s), NEW w, NameOffsets(w, s), NEW off \in Nat,
         NEW r, r = compressionLenSearch(seen, s, off)
  PROVE  Found(seen, s, w, off, r)
<1> DEFINE n == Len(s) - 1
           Off(i) == PresentationLen(SubSeq(s, 1, i - 1))
           hits == {i \in 1..n : Suffix(s, i) \in seen}
           stop == IF hits = {} THEN n + 1 ELSE Min(hits)
           Near(j) == off + Off(j) < maxCompressionOffset
           c == seen \cup {Suffix(s, i) : i \in {j \in 1..(stop - 1) : Near(j)}}
<1>1. r = [hit |-> stop, c |-> c]  BY DEF compressionLenSearch
<1>2. r.hit = stop /\ r.c = c
  <2> HIDE DEF stop, c
  <2> QED BY <1>1
<1>3. Labels(s) /\ Len(s) \in Nat /\ Len(s) >= 1 /\ IsSeq(s) /\ \A i \in 1..Len(s) : IsSeq(s[i])
  BY NameFacts DEF Labels
<1>4. stop \in 1..(n + 1) /\ (stop <= n => Suffix(s, stop) \in seen)
  <2>1. CASE hits = {}
    <3>1. stop = n + 1  BY <2>1
    <3> HIDE DEF stop
    <3> QED BY <1>3, <3>1
  <2>2. CASE hits # {}
    <3>1. hits \subseteq Nat  OBVIOUS
    <3>2. stop = Min(hits) /\ Min(hits) \in hits  BY <2>2, <3>1, MinIn
    <3>3. stop \in 1..n /\ Suffix(s, stop) \in seen  BY <3>2
    <3> HIDE DEF stop
    <3> QED BY <1>3, <3>3
  <2> QED BY <2>1, <2>2
<1> HIDE DEF stop, hits
<1>5. ASSUME NEW i \in 1..(stop - 1), Near(i) PROVE off + w[i - 1] < maxCompressionOffset
  <2> DEFINE t == SubSeq(s, 1, i - 1)
  <2>1. i - 1 \in Nat /\ i - 1 \in 0..Len(s) /\ 1 <= i - 1 + 1 /\ i - 1 <= Len(s) /\ i - 1 - 1 + 1 = i - 1
    BY <1>3, <1>4
  <2>2. Labels(t)
    <3>1. IsSeq(t) /\ Len(t) = i - 1 - 1 + 1 /\ \A k \in 1..(i - 1 - 1 + 1) : t[k] = s[1 + k - 1]
      BY <1>3, <2>1, Piece
    <3> HIDE DEF t
    <3>2. ASSUME NEW k \in 1..Len(t) PROVE IsSeq(t[k])
      <4>1. k \in 1..Len(s) /\ t[k] = s[k]  BY <1>3, <2>1, <3>1
      <4> QED BY <1>3, <4>1
    <3> QED BY <3>1, <3>2 DEF Labels
  <2>3. WireLen(t) = w[i - 1]  BY <2>1 DEF NameOffsets
  <2>4. PresentationLen(t) \in Nat /\ WireLen(t) \in Nat /\ WireLen(t) <= PresentationLen(t)
    <3> HIDE DEF t
    <3> QED BY <2>2, PresentationCovers
  <2>5. off + PresentationLen(t) < maxCompressionOffset  BY <1>5
  <2>6. maxCompressionOffset \in Int  BY WireBounds
  <2> HIDE DEF t
  <2>7. off + WireLen(t) < maxCompressionOffset  BY <2>4, <2>5, <2>6
  <2> QED BY <2>3, <2>7
<1> HIDE DEF Near, Off
<1>6. ASSUME NEW x \in c PROVE x \in seen \/ \E i \in 1..(stop - 1) : x = Suffix(s, i) /\ off + w[i - 1] < maxCompressionOffset
  BY <1>5
<1>7. stop \in 1..Len(s) /\ (stop < Len(s) => Suffix(s, stop) \in seen)
  <2>1. Len(s) = n + 1 /\ n \in Nat  BY <1>3
  <2> HIDE DEF n
  <2> QED BY <1>3, <1>4, <2>1
<1> HIDE DEF c
<1> QED BY <1>2, <1>6, <1>7 DEF Found

\* The root has one octet.
LEMMA RootLen == WireLen(Root) = 1
<1> DEFINE d == [i \in 1..Len(Root) |-> 1 + Len(Root[i])]
           f == [i \in 0..1 |-> i]
<1>1. Len(Root) = 1 /\ Root[1] = <<>>  BY DEF Root
<1>2. d = [i \in 1..1 |-> d[i]] /\ d[1] = 1  BY <1>1
<1>3. WireLen(Root) = Total(d)  BY DEF WireLen
<1> HIDE DEF d
<1>4. IsSeq(d) /\ Len(d) = 1  BY <1>2, FunctionIsSeq
<1>5. IsSum(f, d, 1)  BY <1>2 DEF IsSum
<1>6. Total(d) = f[1]
  <2> HIDE DEF f
  <2>1. Len(d) \in Nat /\ IsSum(f, d, Len(d))  BY <1>4, <1>5
  <2>2. Total(d) = f[Len(d)]  BY <2>1, TotalIsSum
  <2> QED BY <1>4, <2>2
<1> QED BY <1>3, <1>6

\* The length of a name without a compression map.
LEMMA PlainNameLen ==
  ASSUME NEW s, NEW off, NEW c, ~c.valid, NEW compress
  PROVE  domainNameLen(s, off, c, compress).len = PlainLen(s) /\ domainNameLen(s, off, c, compress).c = c
<1> DEFINE r == domainNameLen(s, off, c, compress)
<1>1. CASE s \in {<<>>, Root}
  <2>1. r = [len |-> 1, c |-> c]  BY <1>1 DEF domainNameLen
  <2>2. PlainLen(s) = 1  BY <1>1, RootLen DEF PlainLen, Root
  <2> QED BY <2>1, <2>2
<1>2. CASE s \notin {<<>>, Root}
  <2>1. r = [len |-> WireLen(s), c |-> c]  BY <1>2 DEF domainNameLen
  <2> QED BY <2>1, <1>2 DEF PlainLen
<1> QED BY <1>1, <1>2

\* A packed name has no more octets than without compression, and where they end.
LEMMA PackedSize ==
  ASSUME NEW s, IsName(s), NEW w, NameOffsets(w, s), NEW p, IsBuffer(p), NEW q, NEW compress, NEW hit,
         NamePacked(p, q, s, compress, hit, w)
  PROVE  /\ Len(q.msg) <= Len(p.msg) + WireLen(s) /\ Len(q.msg) \in Nat /\ WireLen(s) \in Nat /\ Len(p.msg) \in Nat
         /\ \A k \in 0..(hit - 1) : Len(p.msg) + w[k] < Len(q.msg) /\ w[k] \in Nat
         /\ \A k \in hit..(Len(s) - 1) : Len(q.msg) <= Len(p.msg) + w[k - 1] + 2
<1> DEFINE base == Len(p.msg)
           n == Len(s)
<1>1. /\ n \in Nat /\ n >= 1 /\ s[n] = <<>> /\ (\A i \in 1..(n - 1) : Len(s[i]) \in 1..63) /\ hit \in 1..n
      /\ base \in Nat /\ Len(q.msg) = base + w[hit - 1] + (IF hit < n THEN 2 ELSE 1) /\ Len(q.msg) \in Nat
  BY NameFacts DEF NamePacked, IsBuffer, IsSeq, Extends
<1>2. /\ \A i \in 0..n : w[i] \in Nat
      /\ \A i \in 1..n : w[i] = w[i - 1] + 1 + Len(s[i])
      /\ WireLen(s) = w[n] /\ \A i, j \in 0..n : i <= j => w[i] <= w[j]
  BY DEF NameOffsets, Offsets
<1> DEFINE a == w[hit - 1]
           b == w[hit]
           e == w[n]
           l == Len(s[hit])
<1>3. a \in Nat /\ b = a + 1 + l /\ b <= e /\ e \in Nat /\ WireLen(s) = e /\ Len(q.msg) = base + a + (IF hit < n THEN 2 ELSE 1)
  <2>1. hit - 1 \in 0..n /\ hit \in 0..n /\ n \in 0..n /\ hit \in 1..n /\ hit <= n  BY <1>1
  <2> QED BY <1>1, <1>2, <2>1
<1>4. (hit < n => l \in 1..63) /\ (hit = n => l = 0)
  <2>1. hit < n => hit \in 1..(n - 1)  BY <1>1
  <2> QED BY <1>1, <2>1
<1> HIDE DEF a, b, e, l
<1>5. Len(q.msg) <= base + e
  <2>0. n \in Nat /\ hit \in Int /\ hit <= n /\ base \in Nat /\ Len(q.msg) \in Nat  BY <1>1
  <2> HIDE DEF n, base
  <2>1. CASE hit < n
    <3>1. Len(q.msg) = base + a + 2 /\ l \in 1..63  BY <2>1, <1>3, <1>4
    <3> QED BY <2>0, <3>1, <1>3
  <2>2. CASE hit = n
    <3>1. Len(q.msg) = base + a + 1 /\ l = 0  BY <2>0, <2>2, <1>3, <1>4
    <3> QED BY <2>0, <3>1, <1>3
  <2> QED BY <2>1, <2>2, <1>1
<1>6. ASSUME NEW k \in 0..(hit - 1) PROVE base + w[k] < Len(q.msg) /\ w[k] \in Nat
  <2>1. k \in 0..n /\ hit - 1 \in 0..n /\ k <= hit - 1  BY <1>1
  <2> DEFINE x == w[k]
  <2>2. x \in Nat /\ x <= a  BY <1>2, <2>1 DEF a
  <2> HIDE DEF x, n, base
  <2>3. base + x < Len(q.msg)  BY <1>1, <1>3, <2>2
  <2> QED BY <2>2, <2>3 DEF x
<1>7. ASSUME NEW k \in hit..(n - 1) PROVE Len(q.msg) <= base + w[k - 1] + 2
  <2>1. k - 1 \in 0..n /\ hit - 1 \in 0..n /\ hit - 1 <= k - 1 /\ hit < n  BY <1>1
  <2> DEFINE x == w[k - 1]
  <2>2. x \in Nat /\ a <= x  BY <1>2, <2>1 DEF a
  <2> HIDE DEF x, n, base
  <2>3. Len(q.msg) <= base + x + 2  BY <1>1, <1>3, <2>1, <2>2
  <2> QED BY <2>3 DEF x
<1> QED BY <1>1, <1>3, <1>5, <1>6, <1>7

\* A suffix behind the pointer is in the map, unless the message had outgrown the pointers.
LEMMA SuffixBehindHit ==
  ASSUME NEW s, NEW w, NEW p, NEW q, NEW compress, NEW hit, NameStep(p, q, s, compress, hit, w),
         NEW i \in hit..(Len(s) - 1), ~ (Len(p.msg) >= maxCompressionOffset)
  PROVE  Suffix(s, i) \in DOMAIN q.comp
<1>1. IsSeq(s) /\ Len(s) \in Nat /\ hit \in 1..Len(s)  BY NameFacts DEF NameStep, NamePacked, Labels
<1> DEFINE x == Suffix(s, hit)
           j == i - hit + 1
<1>2. hit < Len(s) /\ hit \in 1..Len(s) /\ j \in 1..(Len(s) - hit + 1) /\ j \in 1..(Len(s) - hit) /\ hit + j - 1 = i
  BY <1>1
<1>3. x \in DOMAIN p.comp  BY <1>2 DEF NameStep, NamePacked
<1>4. Len(x) = Len(s) - hit + 1  BY <1>1, SuffixFacts
<1>5. j \in 1..(Len(x) - 1)  BY <1>1, <1>2, <1>4
<1>6. Suffix(x, j) = Suffix(s, i)
  <2>1. Suffix(x, j) = Suffix(s, hit + j - 1)
    <3> HIDE DEF j
    <3> QED BY <1>1, <1>2, SuffixOfSuffix
  <2> QED BY <1>2, <2>1
<1> HIDE DEF x, j
<1>7. Suffix(x, j) \in DOMAIN p.comp  BY <1>3, <1>5 DEF NameStep, Nested
<1> QED BY <1>6, <1>7 DEF NameStep, NamePacked

\* The map still has the suffixes of its names behind a packed name.
LEMMA NestedKept ==
  ASSUME NEW s, NEW w, NEW p, NEW q, NEW compress, NEW hit, NameStep(p, q, s, compress, hit, w)
  PROVE  Nested(q)
<1>1. IsSeq(s) /\ Len(s) \in Nat /\ hit \in 1..Len(s) /\ IsName(s) /\ NameOffsets(w, s) /\ IsBuffer(p) /\ p.valid
  BY NameFacts DEF NameStep, NamePacked, Labels
<1>2. Len(p.msg) \in Nat /\ Len(q.msg) \in Nat /\ Len(p.msg) <= Len(q.msg) /\ maxCompressionOffset \in Int
  BY OffsetLimit DEF NameStep, NamePacked, Extends, IsBuffer, IsSeq
<1>3. ASSUME NEW x \in DOMAIN q.comp, NEW j \in 1..(Len(x) - 1), ~ (Len(q.msg) >= maxCompressionOffset)
      PROVE  Suffix(x, j) \in DOMAIN q.comp
  <2>0. ~ (Len(p.msg) >= maxCompressionOffset)  BY <1>2, <1>3
  <2>1. CASE x \in DOMAIN p.comp
    <3>1. Suffix(x, j) \in DOMAIN p.comp  BY <2>0, <2>1 DEF NameStep, Nested
    <3> QED BY <3>1 DEF NameStep, NamePacked
  <2>2. CASE x \notin DOMAIN p.comp
    <3>1. PICK i \in 1..(hit - 1) : x = Suffix(s, i)  BY <2>2 DEF NameStep, NamePacked
    <3>2. i \in 1..Len(s)  BY <1>1
    <3>3. Len(x) = Len(s) - i + 1  BY <1>1, <3>1, <3>2, SuffixFacts
    <3> DEFINE k == i + j - 1
    <3>4. j \in 1..(Len(s) - i + 1) /\ k \in 1..(Len(s) - 1) /\ k \in Int  BY <1>1, <3>2, <3>3
    <3>5. Suffix(x, j) = Suffix(s, k)  BY <1>1, <3>1, <3>2, <3>4, SuffixOfSuffix
    <3> HIDE DEF k
    <3>6. CASE k < hit
      <4>1. k \in 1..(hit - 1) /\ k - 1 \in 0..(hit - 1)  BY <1>1, <3>4, <3>6
      <4>2. Len(p.msg) + w[k - 1] < Len(q.msg) /\ w[k - 1] \in Nat  BY <1>1, <4>1, PackedSize DEF NameStep
      <4>3. Insertable(Len(p.msg) + w[k - 1])
        <5> DEFINE a == w[k - 1]
        <5>1. a \in Nat /\ Len(p.msg) + a < Len(q.msg)  BY <4>2
        <5> HIDE DEF a
        <5>2. Len(p.msg) + a < maxCompressionOffset  BY <1>2, <1>3, <5>1
        <5> QED BY <5>2 DEF Insertable, a
      <4>4. Suffix(s, k) \in DOMAIN q.comp  BY <1>1, <4>1, <4>3 DEF NameStep, NamePacked
      <4> QED BY <3>5, <4>4
    <3>7. CASE ~ (k < hit)
      <4>1. k \in hit..(Len(s) - 1)  BY <1>1, <3>4, <3>7
      <4>2. Suffix(s, k) \in DOMAIN q.comp  BY <2>0, <4>1, SuffixBehindHit
      <4> QED BY <3>5, <4>2
    <3> QED BY <3>6, <3>7
  <2> QED BY <2>1, <2>2
<1> QED BY <1>3 DEF Nested

\* The suffixes that the estimate has seen are in the map behind the name.
LEMMA SeenKept ==
  ASSUME NEW s, NEW w, NEW p, NEW q, NEW compress, NEW hit, NameStep(p, q, s, compress, hit, w),
         NEW seen, seen \subseteq DOMAIN p.comp, NEW off \in Nat, Len(p.msg) <= off,
         NEW r, r = compressionLenSearch(seen, s, off)
  PROVE  r.c \subseteq DOMAIN q.comp
<1>1. IsSeq(s) /\ Len(s) \in Nat /\ hit \in 1..Len(s) /\ IsName(s) /\ NameOffsets(w, s) /\ IsBuffer(p) /\ p.valid
  BY NameFacts DEF NameStep, NamePacked, Labels
<1>2. Len(p.msg) \in Nat /\ maxCompressionOffset \in Int  BY <1>1, OffsetLimit DEF IsBuffer, IsSeq
<1>3. /\ r.hit \in 1..Len(s)
      /\ \A x \in r.c : x \in seen \/ \E i \in 1..(r.hit - 1) : x = Suffix(s, i) /\ off + w[i - 1] < maxCompressionOffset
  <2>1. Found(seen, s, w, off, r)  BY <1>1, SearchFacts
  <2> QED BY <2>1 DEF Found
<1>4. ASSUME NEW i \in 1..(r.hit - 1), off + w[i - 1] < maxCompressionOffset PROVE Suffix(s, i) \in DOMAIN q.comp
  <2>1. i \in 1..(Len(s) - 1) /\ i - 1 \in 0..Len(s) /\ i \in Int  BY <1>1, <1>3
  <2> DEFINE a == w[i - 1]
  <2>2. a \in Nat /\ off + a < maxCompressionOffset  BY <1>1, <1>4, <2>1 DEF NameOffsets, Offsets
  <2> HIDE DEF a
  <2>3. Len(p.msg) + a < maxCompressionOffset /\ ~ (Len(p.msg) >= maxCompressionOffset)  BY <1>2, <2>2
  <2>4. CASE i < hit
    <3>1. i \in 1..(hit - 1) /\ Insertable(Len(p.msg) + w[i - 1])  BY <1>1, <2>1, <2>3, <2>4 DEF a, Insertable
    <3> QED BY <1>1, <3>1 DEF NameStep, NamePacked
  <2>5. CASE ~ (i < hit)
    <3>1. i \in hit..(Len(s) - 1)  BY <1>1, <2>1, <2>5
    <3> QED BY <2>3, <3>1, SuffixBehindHit
  <2> QED BY <2>4, <2>5
<1>5. \A x \in seen : x \in DOMAIN q.comp  BY DEF NameStep, NamePacked
<1> QED BY <1>3, <1>4, <1>5

\* The name s fits where the estimates say so, and they cover it.
LEMMA NameCovered ==
  ASSUME NEW s, IsNameField(s), NEW p, NEW l0, NEW l, NEW c, Covers(p, l0, l, c), NEW H, TrueMap(p, H),
         \A i \in H : i \in Nat /\ i <= Len(p.msg), NEW compress \in BOOLEAN, NEW allowed \in BOOLEAN,
         p.valid => compress = allowed, l0 + PlainLen(s) <= p.cap,
         NEW q, q = packDomainName(s, p, compress), NEW r, r = domainNameLen(s, l, c, allowed)
  PROVE  Covers(q, l0 + PlainLen(s), l + r.len, r.c) /\ TrueMap(q, H) /\ Extends(p, q)
<1>1. /\ IsBuffer(p) /\ ~p.err /\ l0 \in Nat /\ l \in Nat /\ Len(p.msg) \in Nat /\ Len(p.msg) <= l0 /\ Len(p.msg) <= l
      /\ c = [valid |-> p.valid, seen |-> c.seen] /\ p.valid \in BOOLEAN /\ p.cap \in Nat
      /\ p.valid => c.seen \subseteq DOMAIN p.comp /\ Nested(p)
  BY DEF Covers, IsBuffer, IsSeq
<1>2. c.valid = p.valid
  <2> DEFINE e == c.seen
  <2>1. c = [valid |-> p.valid, seen |-> e]  BY <1>1
  <2> HIDE DEF e
  <2> QED BY <2>1
<1>3. CASE s = <<>>
  <2>1. q = p /\ PlainLen(s) = 1  BY <1>3 DEF packDomainName, PlainLen
  <2>2. r.len = 1 /\ r.c = c  BY <1>3 DEF domainNameLen
  <2>3. Len(p.msg) <= l0 + 1 /\ Len(p.msg) <= l + 1 /\ l0 + 1 \in Nat /\ l + 1 \in Nat  BY <1>1
  <2>4. Extends(p, p)  BY <1>1 DEF Extends
  <2> QED BY <1>1, <2>1, <2>2, <2>3, <2>4 DEF Covers
<1>4. CASE s # <<>>
  <2>1. IsName(s) /\ PlainLen(s) = WireLen(s)  BY <1>4 DEF IsNameField, PlainLen
  <2>2. PICK w : NameOffsets(w, s)  BY <2>1, NameFacts, NameOffsetsExist
  <2>3. WireLen(s) \in Nat  BY <2>1, NameFacts, PresentationCovers
  <2>4. Len(p.msg) + WireLen(s) <= p.cap  BY <1>1, <2>1, <2>3
  <2>5. PICK hit : NamePacked(p, q, s, compress, hit, w)
    <3>1. \A x \in DOMAIN p.comp : p.comp[x] \in Nat  BY DEF TrueMap
    <3> QED BY <1>1, <2>1, <2>2, <2>4, <3>1, PackName
  <2>6. TrueMap(q, H)  BY <1>1, <2>1, <2>2, <2>5, PackedTrue
  <2>7. Extends(p, q)  BY <2>5 DEF NamePacked
  <2>8. /\ Len(q.msg) <= Len(p.msg) + WireLen(s) /\ Len(q.msg) \in Nat
        /\ \A k \in hit..(Len(s) - 1) : Len(q.msg) <= Len(p.msg) + w[k - 1] + 2
    BY <1>1, <2>1, <2>2, <2>5, PackedSize
  <2>9. r.len \in Nat /\ Len(q.msg) <= Len(p.msg) + r.len /\ r.c = [valid |-> p.valid, seen |-> r.c.seen]
        /\ (p.valid => r.c.seen \subseteq DOMAIN q.comp)
    <3> DEFINE search == compressionLenSearch(c.seen, s, l)
               searched == c.valid /\ (allowed \/ l < maxCompressionOffset)
    <3>1. p.valid => c.seen \subseteq DOMAIN q.comp  BY <1>1, <2>5 DEF NamePacked
    <3>2. CASE s = Root
      <4>1. r.len = 1 /\ r.c = c  BY <3>2 DEF domainNameLen
      <4>2. WireLen(s) = 1  BY <3>2, RootLen
      <4> QED BY <1>1, <2>8, <3>1, <4>1, <4>2
    <3>3. CASE s # Root
      <4> DEFINE short == WireLen(SubSeq(s, 1, search.hit - 1)) + 2
      <4>1. r = [len |-> IF searched /\ allowed /\ search.hit < Len(s) THEN short ELSE WireLen(s),
                 c |-> IF searched THEN [c EXCEPT !.seen = search.c] ELSE c]
        BY <1>4, <3>3 DEF domainNameLen
      <4>2. /\ r.len = IF searched /\ allowed /\ search.hit < Len(s) THEN short ELSE WireLen(s)
            /\ r.c = IF searched THEN [c EXCEPT !.seen = search.c] ELSE c
        <5> HIDE DEF short, searched, search
        <5> QED BY <4>1
      <4>3. CASE ~searched  BY <1>1, <2>3, <2>8, <3>1, <4>2, <4>3
      <4>4. CASE searched
        <5>0. p.valid /\ compress = allowed  BY <1>2, <4>4
        <5>1. NameStep(p, q, s, compress, hit, w)  BY <1>1, <2>1, <2>2, <2>5, <5>0 DEF NameStep
        <5>2. search.c \subseteq DOMAIN q.comp
          <6> DEFINE e == c.seen
          <6>1. e \subseteq DOMAIN p.comp /\ search = compressionLenSearch(e, s, l)  BY <1>1, <5>0
          <6> HIDE DEF e, search
          <6> QED BY <1>1, <5>1, <6>1, SeenKept
        <5>3. r.c = [valid |-> p.valid, seen |-> search.c]
          <6> DEFINE e == c.seen
                     f == search.c
          <6>1. c = [valid |-> p.valid, seen |-> e] /\ r.c = [c EXCEPT !.seen = f]  BY <1>1, <4>2, <4>4
          <6> HIDE DEF e, f
          <6>2. r.c = [valid |-> p.valid, seen |-> f]  BY <6>1
          <6> QED BY <6>2 DEF f
        <5>4. r.c.seen = search.c
          <6> DEFINE f == search.c
          <6>1. r.c = [valid |-> p.valid, seen |-> f]  BY <5>3
          <6> HIDE DEF f
          <6> QED BY <6>1 DEF f
        <5>5. r.len \in Nat /\ Len(q.msg) <= Len(p.msg) + r.len
          <6>1. CASE allowed /\ search.hit < Len(s)
            <7> DEFINE k == search.hit
            <7>1. k \in 1..Len(s) /\ (k < Len(s) => Suffix(s, k) \in c.seen)
              <8> DEFINE e == c.seen
              <8>1. search = compressionLenSearch(e, s, l)  OBVIOUS
              <8> HIDE DEF e, search
              <8>2. Found(e, s, w, l, search)  BY <1>1, <2>1, <2>2, <8>1, SearchFacts
              <8> QED BY <8>2 DEF e, Found
            <7>2. Len(s) \in Nat /\ hit \in 1..Len(s)  BY <2>1, <2>5, NameFacts DEF NamePacked
            <7>3. Suffix(s, k) \in DOMAIN p.comp  BY <1>1, <5>0, <6>1, <7>1
            <7> HIDE DEF k
            <7>4. ~ (k \in 1..(hit - 1))  BY <2>5, <5>0, <6>1, <7>3 DEF NamePacked
            <7>5. k < Len(s)  BY <6>1 DEF k
            <7>6. k \in hit..(Len(s) - 1) /\ k - 1 \in 0..Len(s)  BY <7>1, <7>2, <7>4, <7>5
            <7>7. short = w[k - 1] + 2 /\ w[k - 1] \in Nat
              <8>1. WireLen(SubSeq(s, 1, k - 1)) = w[k - 1] /\ w[k - 1] \in Nat
                BY <2>2, <7>6 DEF NameOffsets, Offsets
              <8> QED BY <8>1 DEF k
            <7>8. r.len = short  BY <4>2, <4>4, <6>1
            <7>9. Len(q.msg) <= Len(p.msg) + w[k - 1] + 2  BY <2>8, <7>6
            <7> DEFINE a == w[k - 1]
            <7>10. a \in Nat /\ r.len = a + 2 /\ Len(q.msg) <= Len(p.msg) + a + 2  BY <7>7, <7>8, <7>9
            <7> HIDE DEF a
            <7> QED BY SMTT(20), <1>1, <2>8, <7>10
          <6>2. CASE ~ (allowed /\ search.hit < Len(s))
            <7>1. r.len = WireLen(s)  BY <4>2, <6>2
            <7> QED BY <2>3, <2>8, <7>1
          <6> QED BY <6>1, <6>2
        <5> HIDE DEF search
        <5> QED BY <5>2, <5>3, <5>4, <5>5
      <4> QED BY <4>3, <4>4
    <3> QED BY <3>2, <3>3
  <2>10. p.valid => Nested(q)
    <3> SUFFICES ASSUME p.valid PROVE Nested(q)  OBVIOUS
    <3>1. NameStep(p, q, s, compress, hit, w)  BY <1>1, <2>1, <2>2, <2>5 DEF NameStep
    <3> QED BY <3>1, NestedKept
  <2>11. IsBuffer(q) /\ ~q.err /\ q.valid = p.valid  BY <2>7 DEF Extends
  <2>12. Len(q.msg) <= l0 + WireLen(s) /\ Len(q.msg) <= l + r.len /\ l0 + WireLen(s) \in Nat /\ l + r.len \in Nat
    <3>1. r.len \in Nat /\ Len(q.msg) <= Len(p.msg) + r.len  BY <2>9
    <3>2. Len(q.msg) <= Len(p.msg) + WireLen(s) /\ Len(q.msg) \in Nat  BY <2>8
    <3> DEFINE a == Len(q.msg)
               b == Len(p.msg)
               d == r.len
               e == WireLen(s)
    <3>3. a \in Nat /\ b \in Nat /\ d \in Nat /\ e \in Nat /\ l \in Nat /\ l0 \in Nat /\ a <= b + d /\ a <= b + e /\ b <= l0 /\ b <= l
      BY <1>1, <2>3, <3>1, <3>2
    <3> HIDE DEF a, b, d, e
    <3>4. a <= l0 + e /\ a <= l + d /\ l0 + e \in Nat /\ l + d \in Nat  BY <3>3
    <3> QED BY <3>4 DEF a, b, d, e
  <2> QED BY <2>1, <2>6, <2>7, <2>9, <2>10, <2>11, <2>12 DEF Covers
<1> QED BY <1>3, <1>4

-----------------------------------------------------------------------------
(* A buffer that its estimates cover.                                      *)

\* A true map stays true when octets are added and others written again.
LEMMA MapKept ==
  ASSUME NEW p, NEW q, NEW H, NEW K, Agrees(p.msg, q.msg, H), q.comp = p.comp, TrueMap(p, H)
  PROVE  TrueMap(q, H)
<1>1. ASSUME NEW x \in DOMAIN p.comp PROVE Spelled(q.msg, H, x, p.comp[x])
  <2>1. IsName(x) /\ Spelled(p.msg, H, x, p.comp[x])  BY DEF TrueMap
  <2>2. PICK pos : SpelledAt(p.msg, H, x, pos) /\ pos[1] = p.comp[x]  BY <2>1 DEF Spelled
  <2>3. Labels(x) /\ Len(x) >= 1  BY <2>1, NameFacts
  <2>4. SpelledAt(q.msg, H, x, pos)  BY <2>2, <2>3, SpelledKept
  <2> QED BY <2>2, <2>4 DEF Spelled
<1> QED BY <1>1 DEF TrueMap

\* Longer estimates cover the buffer too.
LEMMA LengthsGrow ==
  ASSUME NEW p, NEW H, NEW l0, NEW l, NEW c, Sound(p, H, l0, l, c), NEW k0 \in Nat, NEW k \in Nat, l0 <= k0, l <= k
  PROVE  Sound(p, H, k0, k, c)
<1>1. Len(p.msg) \in Nat /\ l0 \in Nat /\ l \in Nat /\ Len(p.msg) <= l0 /\ Len(p.msg) <= l
  BY DEF Sound, Covers, IsBuffer, IsSeq
<1>2. Len(p.msg) <= k0 /\ Len(p.msg) <= k  BY <1>1
<1> QED BY <1>2 DEF Sound, Covers

\* Octets that the estimates have room for keep the buffer sound.
LEMMA PutSound ==
  ASSUME NEW p, NEW H, NEW l0, NEW l, NEW c, Sound(p, H, l0, l, c), NEW o, IsSeq(o), NEW n \in Nat, Len(o) <= n,
         l0 + n <= p.cap, NEW q, q = Put(p, o)
  PROVE  Sound(q, H, l0 + n, l + n, c) /\ Extends(p, q)
<1>1. /\ IsBuffer(p) /\ ~p.err /\ Len(p.msg) \in Nat /\ l0 \in Nat /\ l \in Nat /\ Len(p.msg) <= l0 /\ Len(p.msg) <= l
      /\ p.cap \in Nat /\ Len(o) \in Nat
  BY DEF Sound, Covers, IsBuffer, IsSeq
<1>2. Len(p.msg) + Len(o) <= p.cap  BY <1>1
<1>3. Extends(p, q) /\ q.comp = p.comp /\ Len(q.msg) = Len(p.msg) + Len(o)
  <2>1. IsBuffer(p) /\ ~p.err  BY <1>1
  <2> QED BY <2>1, <1>2, PutFits
<1>4. Len(q.msg) <= l0 + n /\ Len(q.msg) <= l + n /\ Len(p.msg) <= Len(q.msg) /\ Len(q.msg) \in Nat
  BY <1>1, <1>3
<1>5. TrueMap(q, H)
  <2>1. Agrees(p.msg, q.msg, H)  BY <1>1, <1>3 DEF Extends, Agrees, IsBuffer
  <2> QED BY <1>3, <2>1, MapKept DEF Sound
<1>6. IsBuffer(q) /\ ~q.err /\ q.valid = p.valid  BY <1>3 DEF Extends
<1>7. p.valid => c.seen \subseteq DOMAIN q.comp /\ Nested(q)
  <2> SUFFICES ASSUME p.valid PROVE c.seen \subseteq DOMAIN q.comp /\ Nested(q)  OBVIOUS
  <2>1. c.seen \subseteq DOMAIN p.comp /\ Nested(p)  BY DEF Sound, Covers
  <2>2. ASSUME NEW x \in DOMAIN q.comp, NEW j \in 1..(Len(x) - 1), ~ (Len(q.msg) >= maxCompressionOffset)
        PROVE  Suffix(x, j) \in DOMAIN q.comp
    <3>1. ~ (Len(p.msg) >= maxCompressionOffset)  BY <1>1, <1>4, <2>2, OffsetLimit
    <3> QED BY <2>1, <3>1, <1>3 DEF Nested
  <2> QED BY <1>3, <2>1, <2>2 DEF Nested
<1>8. \A i \in H : i \in Nat /\ i <= Len(q.msg)  BY <1>1, <1>4 DEF Sound
<1>9. c = [valid |-> q.valid, seen |-> c.seen]  BY <1>6 DEF Sound, Covers
<1>10. l0 + n \in Nat /\ l + n \in Nat  BY <1>1
<1> QED BY <1>3, <1>4, <1>5, <1>6, <1>7, <1>8, <1>9, <1>10 DEF Sound, Covers

\* So does the encoding of a field.
LEMMA EncodedSound ==
  ASSUME NEW p, NEW H, NEW l0, NEW l, NEW c, Sound(p, H, l0, l, c), NEW e, ~e.err, IsSeq(e.v), NEW n \in Nat, Len(e.v) <= n,
         l0 + n < p.cap, NEW room, NEW q, q = PutEncoded(p, e, room)
  PROVE  Sound(q, H, l0 + n, l + n, c) /\ Extends(p, q)
<1>1. Len(p.msg) \in Nat /\ l0 \in Nat /\ Len(p.msg) <= l0 /\ p.cap \in Nat
  BY DEF Sound, Covers, IsBuffer, IsSeq
<1>2. ~ (Len(p.msg) >= p.cap) /\ l0 + n <= p.cap  BY <1>1
<1>3. q = Put(p, e.v)  BY <1>2 DEF PutEncoded
<1> QED BY <1>2, <1>3, PutSound

\* So does a name, as long as the estimates add domainNameLen.
LEMMA NameSound ==
  ASSUME NEW s, IsNameField(s), NEW p, NEW H, NEW l0, NEW l, NEW c, Sound(p, H, l0, l, c),
         NEW compress \in BOOLEAN, NEW allowed \in BOOLEAN,
         p.valid => compress = allowed, l0 + PlainLen(s) < p.cap,
         NEW q, q = packDomainName(s, p, compress), NEW r, r = domainNameLen(s, l, c, allowed)
  PROVE  Sound(q, H, l0 + PlainLen(s), l + r.len, r.c) /\ Extends(p, q)
<1>1. Covers(p, l0, l, c) /\ TrueMap(p, H) /\ \A i \in H : i \in Nat /\ i <= Len(p.msg)  BY DEF Sound
<1>2. PlainLen(s) \in Nat  BY NameFacts, PresentationCovers DEF IsNameField, PlainLen
<1>3. l0 + PlainLen(s) <= p.cap  BY <1>1, <1>2 DEF Covers, IsBuffer
<1>4. Covers(q, l0 + PlainLen(s), l + r.len, r.c) /\ TrueMap(q, H) /\ Extends(p, q)
  BY <1>1, <1>3, NameCovered
<1>5. Len(p.msg) \in Nat /\ Len(q.msg) \in Nat /\ Len(p.msg) <= Len(q.msg)
  BY <1>1, <1>4 DEF Covers, IsBuffer, Extends, IsSeq
<1>6. \A i \in H : i \in Nat /\ i <= Len(q.msg)  BY <1>1, <1>5
<1> QED BY <1>4, <1>6 DEF Sound

-----------------------------------------------------------------------------
(* Lengths of sequences, and the loops of the model.                       *)

\* Induction up to n.
LEMMA UpTo ==
  ASSUME NEW n \in Nat, NEW S, 0 \in S, \A k \in 1..n : k - 1 \in S => k \in S
  PROVE  \A k \in 0..n : k \in S
<1> DEFINE T == {k \in 0..n : k \notin S}
<1>1. ASSUME T # {} PROVE FALSE
  <2>1. T \subseteq Nat  OBVIOUS
  <2>2. PICK k \in T : \A j \in T : k <= j
    <3> HIDE DEF T
    <3> QED BY <1>1, <2>1, Least
  <2>3. k \in 1..n /\ k \notin S  BY <2>2
  <2>4. k - 1 \in 0..n /\ ~ (k <= k - 1)  BY <2>3
  <2>5. k - 1 \in S  BY <2>2, <2>4
  <2> QED BY <2>3, <2>5
<1> QED BY <1>1

\* The length of a flattened sequence is the total of those of its parts.
LEMMA MappedLens ==
  ASSUME NEW es, IsSeq(es), \A i \in 1..Len(es) : IsSeq(es[i])
  PROVE  /\ IsSeq(FlattenSeq(es))
         /\ Len(FlattenSeq(es)) = Total([i \in 1..Len(es) |-> Len(es[i])])
<1> DEFINE d == [i \in 1..Len(es) |-> Len(es[i])]
<1>1. PICK f : Starts(f, es)  BY StartsExist
<1>2. IsSeq(FlattenSeq(es)) /\ Len(FlattenSeq(es)) = f[Len(es)]  BY <1>1, Flattened
<1>3. Len(es) \in Nat /\ d = [i \in 1..Len(es) |-> d[i]] /\ \A i \in 1..Len(es) : d[i] = Len(es[i])
  BY DEF IsSeq
<1> HIDE DEF d
<1>4. Len(d) = Len(es)  BY <1>3, FunctionIsSeq
<1>5. IsSum(f, d, Len(d))  BY <1>1, <1>3, <1>4 DEF Starts, IsSum
<1>6. Total(d) = f[Len(d)]  BY <1>3, <1>4, <1>5, TotalIsSum
<1> QED BY <1>2, <1>4, <1>6 DEF d

\* It is no longer than the total of their bounds.
LEMMA FlatFits ==
  ASSUME NEW es, IsSeq(es), NEW d, IsSeq(d), Len(d) = Len(es),
         \A i \in 1..Len(es) : IsSeq(es[i]) /\ d[i] \in Nat /\ Len(es[i]) <= d[i]
  PROVE  /\ IsSeq(FlattenSeq(es)) /\ Total(d) \in Nat /\ Len(FlattenSeq(es)) <= Total(d)
<1> DEFINE b == [i \in 1..Len(es) |-> Len(es[i])]
<1>1. IsSeq(FlattenSeq(es)) /\ Len(FlattenSeq(es)) = Total(b)  BY MappedLens
<1>2. Len(es) \in Nat /\ b = [i \in 1..Len(es) |-> b[i]] /\ \A i \in 1..Len(es) : b[i] = Len(es[i])
  BY DEF IsSeq
<1>3. \A i \in 1..Len(es) : Len(es[i]) \in Nat  BY DEF IsSeq
<1> HIDE DEF b
<1>4. IsSeq(b) /\ Len(b) = Len(es)  BY <1>2, FunctionIsSeq
<1>5. \A i \in 1..Len(b) : b[i] \in Nat /\ d[i] \in Nat /\ b[i] <= d[i]  BY <1>2, <1>3, <1>4
<1>6. Total(b) <= Total(d) /\ Total(d) \in Nat  BY <1>4, <1>5, TotalBelow
<1> QED BY <1>1, <1>6

\* The same of parts that may be errors.
LEMMA JoinedFits ==
  ASSUME NEW es, IsSeq(es), NEW d, IsSeq(d), Len(d) = Len(es), \A i \in 1..Len(es) : Fits(es[i], d[i])
  PROVE  Fits(Joined(es), Total(d))
<1> DEFINE vs == [i \in 1..Len(es) |-> IF es[i].err THEN <<>> ELSE es[i].v]
<1>1. Len(es) \in Nat /\ vs = [i \in 1..Len(es) |-> vs[i]]
      /\ \A i \in 1..Len(es) : vs[i] = IF es[i].err THEN <<>> ELSE es[i].v
  BY DEF IsSeq
<1> HIDE DEF vs
<1>2. IsSeq(vs) /\ Len(vs) = Len(es)  BY <1>1, FunctionIsSeq
<1>3. IsSeq(<<>>) /\ Len(<<>>) = 0  BY DEF IsSeq
<1>4. \A i \in 1..Len(vs) : IsSeq(vs[i]) /\ d[i] \in Nat /\ Len(vs[i]) <= d[i]  BY <1>1, <1>2, <1>3 DEF Fits
<1>5. IsSeq(FlattenSeq(vs)) /\ Total(d) \in Nat /\ Len(FlattenSeq(vs)) <= Total(d)  BY <1>2, <1>4, FlatFits
<1>6. CASE \E i \in 1..Len(es) : es[i].err
  <2>1. Joined(es).err  BY <1>6 DEF Joined, Bad
  <2> QED BY <1>5, <2>1 DEF Fits
<1>7. CASE ~ \E i \in 1..Len(es) : es[i].err
  <2>1. Joined(es).v = FlattenSeq([i \in 1..Len(es) |-> es[i].v])  BY <1>7 DEF Joined, Good
  <2>2. [i \in 1..Len(es) |-> es[i].v] = vs  BY <1>1, <1>7
  <2>3. Joined(es).v = FlattenSeq(vs)  BY <2>1, <2>2
  <2> QED BY <1>5, <2>3 DEF Fits
<1> QED BY <1>6, <1>7

\* The total of n equal numbers.
LEMMA ConstTotal ==
  ASSUME NEW n \in Nat, NEW c \in {2, 4, 16}
  PROVE  Total([i \in 1..n |-> c]) = c * n
<1> DEFINE d == [i \in 1..n |-> c]
           f == [k \in 0..n |-> c * k]
<1>1. d = [i \in 1..n |-> d[i]] /\ \A i \in 1..n : d[i] = c  OBVIOUS
<1>2. f \in [0..n -> Nat] /\ \A k \in 0..n : f[k] = c * k  OBVIOUS
<1> HIDE DEF d, f
<1>3. Len(d) = n  BY <1>1, FunctionIsSeq
<1>4. ASSUME NEW i \in 1..n PROVE f[i] = f[i - 1] + d[i]
  <2>1. i - 1 \in 0..n /\ i \in 0..n  OBVIOUS
  <2>2. f[i] = c * i /\ f[i - 1] = c * (i - 1) /\ d[i] = c  BY <1>1, <1>2, <2>1
  <2> QED BY <2>2
<1>5. f[0] = 0  BY <1>2
<1>6. IsSum(f, d, Len(d))  BY <1>2, <1>3, <1>4, <1>5 DEF IsSum
<1>7. Total(d) = f[Len(d)]  BY <1>3, <1>6, TotalIsSum
<1> QED BY <1>2, <1>3, <1>7 DEF d

\* A loop of the model has values.
LEMMA LoopRuns ==
  ASSUME NEW n \in Nat, NEW start, NEW loop
  PROVE  \E g : Runs(g, n, start, loop)
<1> DEFINE S == {k \in 0..n : \E g : Runs(g, k, start, loop)}
<1>1. 0 \in S
  <2>1. Runs([k \in 0..0 |-> start], 0, start, loop)  BY DEF Runs
  <2> QED BY <2>1
<1>2. ASSUME NEW k \in 1..n, k - 1 \in S PROVE k \in S
  <2>1. PICK g : Runs(g, k - 1, start, loop)  BY <1>2
  <2> DEFINE h == [j \in 0..k |-> IF j < k THEN g[j] ELSE Turn(loop, k, g[k - 1])]
  <2>2. ASSUME NEW j \in 0..k PROVE h[j] = IF j = 0 THEN start ELSE Turn(loop, j, h[j - 1])
    <3>1. CASE j = k
      <4>1. h[j] = Turn(loop, k, g[k - 1]) /\ h[k - 1] = g[k - 1]  BY <3>1
      <4> HIDE DEF h
      <4> QED BY <3>1, <4>1
    <3>2. CASE j # k
      <4>1. j \in 0..(k - 1) /\ j < k  BY <3>2
      <4>2. g[j] = IF j = 0 THEN start ELSE Turn(loop, j, g[j - 1])  BY <2>1, <4>1 DEF Runs
      <4>3. h[j] = g[j] /\ (j # 0 => h[j - 1] = g[j - 1])  BY <4>1
      <4> HIDE DEF h
      <4> QED BY <4>2, <4>3
    <3> QED BY <3>1, <3>2
  <2>3. h = [j \in 0..k |-> h[j]]  OBVIOUS
  <2> HIDE DEF h
  <2>4. Runs(h, k, start, loop)  BY <2>2, <2>3 DEF Runs
  <2>5. k \in 0..n  OBVIOUS
  <2> QED BY <2>4, <2>5
<1>3. n \in S
  <2> HIDE DEF S
  <2>1. \A k \in 0..n : k \in S  BY <1>1, <1>2, UpTo
  <2> QED BY <2>1
<1> QED BY <1>3

\* They are those of its turns.
LEMMA RunsSteps ==
  ASSUME NEW n \in Nat, NEW start, NEW loop, NEW g, Runs(g, n, start, loop)
  PROVE  Steps(g, n, start, loop)
BY DEF Runs, Steps

\* Unescape is a loop.
LEMMA UnescapeLoop ==
  ASSUME NEW s, IsSeq(s)
  PROVE  \E g : Steps(g, Len(s), [i |-> 1, o |-> <<>>], [of |-> "Unescape", s |-> s])
               /\ Unescape(s) = g[Len(s)].o
<1> DEFINE start == [i |-> 1, o |-> <<>>]
           loop == [of |-> "Unescape", s |-> s]
           E(g) == g = [k \in 0..Len(s) |-> IF k = 0 THEN start ELSE UnescapeTurn(s, g[k - 1])]
           at == CHOOSE g : E(g)
<1>1. Unescape(s) = at[Len(s)].o  BY DEF Unescape
<1>2. Len(s) \in Nat  BY DEF IsSeq
<1>3. PICK h : Runs(h, Len(s), start, loop)  BY <1>2, LoopRuns
<1>4. ASSUME NEW g, NEW k PROVE Turn(loop, k, g[k - 1]) = UnescapeTurn(s, g[k - 1])  BY DEF Turn
<1>5. ASSUME NEW g PROVE Runs(g, Len(s), start, loop) <=> E(g)
  <2> HIDE DEF loop, start
  <2> QED BY <1>4 DEF Runs
<1>6. E(at)
  <2> HIDE DEF E
  <2> QED BY <1>3, <1>5
<1>7. Steps(at, Len(s), start, loop)
  <2> HIDE DEF E, at, start, loop
  <2> QED BY <1>2, <1>5, <1>6, RunsSteps
<1> HIDE DEF at
<1> QED BY <1>1, <1>7

\* BitMapWalk is a loop.
LEMMA BitMapLoop ==
  ASSUME NEW s, IsSeq(s)
  PROVE  \E g : Steps(g, Len(s), [l |-> 0, o |-> <<>>, w |-> 0, len |-> 0, bad |-> FALSE], [of |-> "BitMapWalk", s |-> s])
               /\ BitMapWalk(s) = g[Len(s)]
<1> DEFINE start == [l |-> 0, o |-> <<>>, w |-> 0, len |-> 0, bad |-> FALSE]
           loop == [of |-> "BitMapWalk", s |-> s]
           E(g) == g = [k \in 0..Len(s) |-> IF k = 0 THEN start ELSE BitMapTurn(ToSet(s), g[k - 1], s[k])]
           at == CHOOSE g : E(g)
<1>1. BitMapWalk(s) = at[Len(s)]  BY DEF BitMapWalk
<1>2. Len(s) \in Nat  BY DEF IsSeq
<1>3. PICK h : Runs(h, Len(s), start, loop)  BY <1>2, LoopRuns
<1>4. ASSUME NEW g, NEW k PROVE Turn(loop, k, g[k - 1]) = BitMapTurn(ToSet(s), g[k - 1], s[k])  BY DEF Turn
<1>5. ASSUME NEW g PROVE Runs(g, Len(s), start, loop) <=> E(g)
  <2> HIDE DEF loop, start
  <2> QED BY <1>4 DEF Runs
<1>6. E(at)
  <2> HIDE DEF E
  <2> QED BY <1>3, <1>5
<1>7. Steps(at, Len(s), start, loop)
  <2> HIDE DEF E, at, start, loop
  <2> QED BY <1>2, <1>5, <1>6, RunsSteps
<1> HIDE DEF at
<1> QED BY <1>1, <1>7

\* packDataDomainNames is a loop.
LEMMA NamesLoop ==
  ASSUME NEW s, IsSeq(s), NEW p
  PROVE  \E g : Steps(g, Len(s), p, [of |-> "packDataDomainNames", s |-> s])
               /\ packDataDomainNames(s, p) = g[Len(s)]
<1> DEFINE start == p
           loop == [of |-> "packDataDomainNames", s |-> s]
           E(g) == g = [k \in 0..Len(s) |-> IF k = 0 THEN start ELSE packDomainName(s[k], g[k - 1], FALSE)]
           at == CHOOSE g : E(g)
<1>1. packDataDomainNames(s, p) = at[Len(s)]  BY DEF packDataDomainNames
<1>2. Len(s) \in Nat  BY DEF IsSeq
<1>3. PICK h : Runs(h, Len(s), start, loop)  BY <1>2, LoopRuns
<1>4. ASSUME NEW g, NEW k PROVE Turn(loop, k, g[k - 1]) = packDomainName(s[k], g[k - 1], FALSE)  BY DEF Turn
<1>5. ASSUME NEW g PROVE Runs(g, Len(s), start, loop) <=> E(g)
  <2> HIDE DEF loop, start
  <2> QED BY <1>4 DEF Runs
<1>6. E(at)
  <2> HIDE DEF E
  <2> QED BY <1>3, <1>5
<1>7. Steps(at, Len(s), start, loop)
  <2> HIDE DEF E, at, start, loop
  <2> QED BY <1>2, <1>5, <1>6, RunsSteps
<1> HIDE DEF at
<1> QED BY <1>1, <1>7

\* packEntries is a loop.
LEMMA EntriesLoop ==
  ASSUME NEW s, IsSeq(s), NEW f, NEW p, NEW compress
  PROVE  \E g : Steps(g, Len(s), p, [of |-> "packEntries", s |-> s, f |-> f, compress |-> compress])
               /\ packEntries(s, f, p, compress) = g[Len(s)]
<1> DEFINE start == p
           loop == [of |-> "packEntries", s |-> s, f |-> f, compress |-> compress]
           E(g) == g = [k \in 0..Len(s) |-> IF k = 0 THEN start ELSE packEntry(s[k], f, g[k - 1], compress)]
           at == CHOOSE g : E(g)
<1>1. packEntries(s, f, p, compress) = at[Len(s)]  BY DEF packEntries
<1>2. Len(s) \in Nat  BY DEF IsSeq
<1>3. PICK h : Runs(h, Len(s), start, loop)  BY <1>2, LoopRuns
<1>4. ASSUME NEW g, NEW k PROVE Turn(loop, k, g[k - 1]) = packEntry(s[k], f, g[k - 1], compress)  BY DEF Turn
<1>5. ASSUME NEW g PROVE Runs(g, Len(s), start, loop) <=> E(g)
  <2> HIDE DEF loop, start
  <2> QED BY <1>4 DEF Runs
<1>6. E(at)
  <2> HIDE DEF E
  <2> QED BY <1>3, <1>5
<1>7. Steps(at, Len(s), start, loop)
  <2> HIDE DEF E, at, start, loop
  <2> QED BY <1>2, <1>5, <1>6, RunsSteps
<1> HIDE DEF at
<1> QED BY <1>1, <1>7

\* NamesLen is a loop.
LEMMA NamesLenLoop ==
  ASSUME NEW s, IsSeq(s), NEW a, NEW off
  PROVE  \E g : Steps(g, Len(s), a, [of |-> "NamesLen", s |-> s, off |-> off])
               /\ NamesLen(a, s, off) = g[Len(s)]
<1> DEFINE start == a
           loop == [of |-> "NamesLen", s |-> s, off |-> off]
           E(g) == g = [k \in 0..Len(s) |-> IF k = 0 THEN start ELSE NameLen(g[k - 1], s[k], off, FALSE)]
           at == CHOOSE g : E(g)
<1>1. NamesLen(a, s, off) = at[Len(s)]  BY DEF NamesLen
<1>2. Len(s) \in Nat  BY DEF IsSeq
<1>3. PICK h : Runs(h, Len(s), start, loop)  BY <1>2, LoopRuns
<1>4. ASSUME NEW g, NEW k PROVE Turn(loop, k, g[k - 1]) = NameLen(g[k - 1], s[k], off, FALSE)  BY DEF Turn
<1>5. ASSUME NEW g PROVE Runs(g, Len(s), start, loop) <=> E(g)
  <2> HIDE DEF loop, start
  <2> QED BY <1>4 DEF Runs
<1>6. E(at)
  <2> HIDE DEF E
  <2> QED BY <1>3, <1>5
<1>7. Steps(at, Len(s), start, loop)
  <2> HIDE DEF E, at, start, loop
  <2> QED BY <1>2, <1>5, <1>6, RunsSteps
<1> HIDE DEF at
<1> QED BY <1>1, <1>7

\* EntriesLen is a loop.
LEMMA EntriesLenLoop ==
  ASSUME NEW s, IsSeq(s), NEW a, NEW f, NEW off
  PROVE  \E g : Steps(g, Len(s), a, [of |-> "EntriesLen", s |-> s, f |-> f, off |-> off])
               /\ EntriesLen(a, s, f, off) = g[Len(s)]
<1> DEFINE start == a
           loop == [of |-> "EntriesLen", s |-> s, f |-> f, off |-> off]
           E(g) == g = [k \in 0..Len(s) |-> IF k = 0 THEN start ELSE EntryLen(g[k - 1], s[k], f, off)]
           at == CHOOSE g : E(g)
<1>1. EntriesLen(a, s, f, off) = at[Len(s)]  BY DEF EntriesLen
<1>2. Len(s) \in Nat  BY DEF IsSeq
<1>3. PICK h : Runs(h, Len(s), start, loop)  BY <1>2, LoopRuns
<1>4. ASSUME NEW g, NEW k PROVE Turn(loop, k, g[k - 1]) = EntryLen(g[k - 1], s[k], f, off)  BY DEF Turn
<1>5. ASSUME NEW g PROVE Runs(g, Len(s), start, loop) <=> E(g)
  <2> HIDE DEF loop, start
  <2> QED BY <1>4 DEF Runs
<1>6. E(at)
  <2> HIDE DEF E
  <2> QED BY <1>3, <1>5
<1>7. Steps(at, Len(s), start, loop)
  <2> HIDE DEF E, at, start, loop
  <2> QED BY <1>2, <1>5, <1>6, RunsSteps
<1> HIDE DEF at
<1> QED BY <1>1, <1>7

\* QuestionsLen is a loop.
LEMMA QuestionsLenLoop ==
  ASSUME NEW dns, IsSeq(dns.question), NEW valid
  PROVE  \E g : Steps(g, Len(dns.question), [l |-> headerSize, c |-> [valid |-> valid, seen |-> {}]], [of |-> "QuestionsLen", s |-> dns.question])
               /\ QuestionsLen(dns, valid) = g[Len(dns.question)]
<1> DEFINE start == [l |-> headerSize, c |-> [valid |-> valid, seen |-> {}]]
           loop == [of |-> "QuestionsLen", s |-> dns.question]
           E(g) == g = [k \in 0..Len(dns.question) |-> IF k = 0 THEN start ELSE AddLen(g[k - 1], questionLen(dns.question[k], g[k - 1].l, g[k - 1].c))]
           at == CHOOSE g : E(g)
<1>1. QuestionsLen(dns, valid) = at[Len(dns.question)]  BY DEF QuestionsLen
<1>2. Len(dns.question) \in Nat  BY DEF IsSeq
<1>3. PICK h : Runs(h, Len(dns.question), start, loop)  BY <1>2, LoopRuns
<1>4. ASSUME NEW g, NEW k PROVE Turn(loop, k, g[k - 1]) = AddLen(g[k - 1], questionLen(dns.question[k], g[k - 1].l, g[k - 1].c))
  BY DEF Turn
<1>5. ASSUME NEW g PROVE Runs(g, Len(dns.question), start, loop) <=> E(g)
  <2> HIDE DEF loop, start
  <2> QED BY <1>4 DEF Runs
<1>6. E(at)
  <2> HIDE DEF E
  <2> QED BY <1>3, <1>5
<1>7. Steps(at, Len(dns.question), start, loop)
  <2> HIDE DEF E, at, start, loop
  <2> QED BY <1>2, <1>5, <1>6, RunsSteps
<1> HIDE DEF at
<1> QED BY <1>1, <1>7

\* RecordsLen is a loop.
LEMMA RecordsLenLoop ==
  ASSUME NEW s, IsSeq(s), NEW a
  PROVE  \E g : Steps(g, Len(s), a, [of |-> "RecordsLen", s |-> s])
               /\ RecordsLen(s, a) = g[Len(s)]
<1> DEFINE start == a
           loop == [of |-> "RecordsLen", s |-> s]
           E(g) == g = [k \in 0..Len(s) |-> IF k = 0 THEN start ELSE AddLen(g[k - 1], rrLen(s[k], g[k - 1].l, g[k - 1].c))]
           at == CHOOSE g : E(g)
<1>1. RecordsLen(s, a) = at[Len(s)]  BY DEF RecordsLen
<1>2. Len(s) \in Nat  BY DEF IsSeq
<1>3. PICK h : Runs(h, Len(s), start, loop)  BY <1>2, LoopRuns
<1>4. ASSUME NEW g, NEW k PROVE Turn(loop, k, g[k - 1]) = AddLen(g[k - 1], rrLen(s[k], g[k - 1].l, g[k - 1].c))
  BY DEF Turn
<1>5. ASSUME NEW g PROVE Runs(g, Len(s), start, loop) <=> E(g)
  <2> HIDE DEF loop, start
  <2> QED BY <1>4 DEF Runs
<1>6. E(at)
  <2> HIDE DEF E
  <2> QED BY <1>3, <1>5
<1>7. Steps(at, Len(s), start, loop)
  <2> HIDE DEF E, at, start, loop
  <2> QED BY <1>2, <1>5, <1>6, RunsSteps
<1> HIDE DEF at
<1> QED BY <1>1, <1>7

\* packQuestions is a loop.
LEMMA QuestionsLoop ==
  ASSUME NEW s, IsSeq(s), NEW p, NEW compress
  PROVE  \E g : Steps(g, Len(s), p, [of |-> "packQuestions", s |-> s, compress |-> compress])
               /\ packQuestions(s, p, compress) = g[Len(s)]
<1> DEFINE start == p
           loop == [of |-> "packQuestions", s |-> s, compress |-> compress]
           E(g) == g = [k \in 0..Len(s) |-> IF k = 0 THEN start ELSE packQuestion(s[k], g[k - 1], compress)]
           at == CHOOSE g : E(g)
<1>1. packQuestions(s, p, compress) = at[Len(s)]  BY DEF packQuestions
<1>2. Len(s) \in Nat  BY DEF IsSeq
<1>3. PICK h : Runs(h, Len(s), start, loop)  BY <1>2, LoopRuns
<1>4. ASSUME NEW g, NEW k PROVE Turn(loop, k, g[k - 1]) = packQuestion(s[k], g[k - 1], compress)  BY DEF Turn
<1>5. ASSUME NEW g PROVE Runs(g, Len(s), start, loop) <=> E(g)
  <2> HIDE DEF loop, start
  <2> QED BY <1>4 DEF Runs
<1>6. E(at)
  <2> HIDE DEF E
  <2> QED BY <1>3, <1>5
<1>7. Steps(at, Len(s), start, loop)
  <2> HIDE DEF E, at, start, loop
  <2> QED BY <1>2, <1>5, <1>6, RunsSteps
<1> HIDE DEF at
<1> QED BY <1>1, <1>7

\* packRRs is a loop.
LEMMA RecordsLoop ==
  ASSUME NEW s, IsSeq(s), NEW p, NEW compress
  PROVE  \E g : Steps(g, Len(s), p, [of |-> "packRRs", s |-> s, compress |-> compress])
               /\ packRRs(s, p, compress) = g[Len(s)]
<1> DEFINE start == p
           loop == [of |-> "packRRs", s |-> s, compress |-> compress]
           E(g) == g = [k \in 0..Len(s) |-> IF k = 0 THEN start ELSE packNext(s[k], g[k - 1], compress)]
           at == CHOOSE g : E(g)
<1>1. packRRs(s, p, compress) = at[Len(s)]  BY DEF packRRs
<1>2. Len(s) \in Nat  BY DEF IsSeq
<1>3. PICK h : Runs(h, Len(s), start, loop)  BY <1>2, LoopRuns
<1>4. ASSUME NEW g, NEW k PROVE Turn(loop, k, g[k - 1]) = packNext(s[k], g[k - 1], compress)  BY DEF Turn
<1>5. ASSUME NEW g PROVE Runs(g, Len(s), start, loop) <=> E(g)
  <2> HIDE DEF loop, start
  <2> QED BY <1>4 DEF Runs
<1>6. E(at)
  <2> HIDE DEF E
  <2> QED BY <1>3, <1>5
<1>7. Steps(at, Len(s), start, loop)
  <2> HIDE DEF E, at, start, loop
  <2> QED BY <1>2, <1>5, <1>6, RunsSteps
<1> HIDE DEF at
<1> QED BY <1>1, <1>7

\* truncateLoop is a loop.
LEMMA TruncateLoop ==
  ASSUME NEW s, IsSeq(s), NEW size, NEW l, NEW c
  PROVE  \E g : Steps(g, Len(s), [l |-> l, c |-> c, n |-> 0, stop |-> FALSE], [of |-> "truncateLoop", s |-> s, size |-> size])
               /\ truncateLoop(s, size, l, c) = g[Len(s)]
<1> DEFINE start == [l |-> l, c |-> c, n |-> 0, stop |-> FALSE]
           loop == [of |-> "truncateLoop", s |-> s, size |-> size]
           E(g) == g = [k \in 0..Len(s) |-> IF k = 0 THEN start ELSE (IF g[k - 1].stop THEN g[k - 1] ELSE truncateTurn(g[k - 1], rrLen(s[k], g[k - 1].l, g[k - 1].c), size))]
           at == CHOOSE g : E(g)
<1>1. truncateLoop(s, size, l, c) = at[Len(s)]  BY DEF truncateLoop, truncateNext
<1>2. Len(s) \in Nat  BY DEF IsSeq
<1>3. PICK h : Runs(h, Len(s), start, loop)  BY <1>2, LoopRuns
<1>4. ASSUME NEW g, NEW k PROVE Turn(loop, k, g[k - 1]) = (IF g[k - 1].stop THEN g[k - 1] ELSE truncateTurn(g[k - 1], rrLen(s[k], g[k - 1].l, g[k - 1].c), size))
  BY DEF Turn
<1>5. ASSUME NEW g PROVE Runs(g, Len(s), start, loop) <=> E(g)
  <2> HIDE DEF loop, start
  <2> QED BY <1>4 DEF Runs
<1>6. E(at)
  <2> HIDE DEF E
  <2> QED BY <1>3, <1>5
<1>7. Steps(at, Len(s), start, loop)
  <2> HIDE DEF E, at, start, loop
  <2> QED BY <1>2, <1>5, <1>6, RunsSteps
<1> HIDE DEF at
<1> QED BY <1>1, <1>7

-----------------------------------------------------------------------------
(* Fields that take no more octets than their length.                      *)

\* A turn of Unescape reads more characters than it writes.
LEMMA UnescapeReads ==
  ASSUME NEW s, IsSeq(s), NEW u, Reading(s, u)
  PROVE  Reading(s, UnescapeTurn(s, u))
<1>1. Len(s) \in Nat /\ u.i \in Nat /\ 1 <= u.i /\ u.i <= Len(s) + 1 /\ IsSeq(u.o) /\ Len(u.o) < u.i /\ Len(u.o) \in Nat
      /\ u = [i |-> u.i, o |-> u.o]
  BY DEF Reading, IsSeq
<1>2. ASSUME NEW c, NEW n \in Nat, 1 <= n, u.i + n <= Len(s) + 1 PROVE Reading(s, [i |-> u.i + n, o |-> Append(u.o, c)])
  <2>1. IsSeq(Append(u.o, c)) /\ Len(Append(u.o, c)) = Len(u.o) + 1  BY <1>1, Added
  <2>2. u.i + n \in Nat /\ 1 <= u.i + n /\ Len(Append(u.o, c)) < u.i + n  BY <1>1, <1>2, <2>1
  <2> QED BY <1>2, <2>1, <2>2 DEF Reading
<1>3. CASE u.i > Len(s)  BY <1>3 DEF UnescapeTurn
<1>4. CASE ~ (u.i > Len(s)) /\ s[u.i] # Backslash
  <2>1. UnescapeTurn(s, u) = [i |-> u.i + 1, o |-> Append(u.o, s[u.i])]  BY <1>4 DEF UnescapeTurn
  <2>2. u.i + 1 <= Len(s) + 1  BY <1>1, <1>4
  <2> QED BY <1>2, <2>1, <2>2
<1>5. CASE s[u.i] = Backslash /\ u.i = Len(s)
  <2>0. ~ (u.i > Len(s)) /\ ~ isDDD(s, u.i + 1)  BY <1>1, <1>5 DEF isDDD
  <2>1. UnescapeTurn(s, u) = [u EXCEPT !.i = @ + 1]  BY <2>0, <1>5 DEF UnescapeTurn
  <2>2. UnescapeTurn(s, u) = [i |-> u.i + 1, o |-> u.o]  BY <1>1, <2>1
  <2>3. u.i + 1 \in Nat /\ 1 <= u.i + 1 /\ u.i + 1 <= Len(s) + 1 /\ Len(u.o) < u.i + 1  BY <1>1, <1>5
  <2> QED BY <1>1, <2>2, <2>3 DEF Reading
<1>6. CASE s[u.i] = Backslash /\ u.i < Len(s) /\ isDDD(s, u.i + 1)
  <2>1. UnescapeTurn(s, u) = [i |-> u.i + 4, o |-> Append(u.o, dddToByte(s, u.i + 1))]
    BY <1>1, <1>6 DEF UnescapeTurn
  <2>2. u.i + 4 <= Len(s) + 1  BY <1>1, <1>6 DEF isDDD
  <2> QED BY <1>2, <2>1, <2>2
<1>7. CASE s[u.i] = Backslash /\ u.i < Len(s) /\ ~ isDDD(s, u.i + 1)
  <2>1. UnescapeTurn(s, u) = [i |-> u.i + 2, o |-> Append(u.o, s[u.i + 1])]  BY <1>1, <1>7 DEF UnescapeTurn
  <2>2. u.i + 2 <= Len(s) + 1  BY <1>1, <1>7
  <2> QED BY <1>2, <2>1, <2>2
<1>8. u.i > Len(s) \/ u.i = Len(s) \/ u.i < Len(s)  BY <1>1
<1> QED BY <1>3, <1>4, <1>5, <1>6, <1>7, <1>8

\* Unescaped, a string is no longer.
LEMMA UnescapeFits ==
  ASSUME NEW s, IsSeq(s)
  PROVE  IsSeq(Unescape(s)) /\ Len(Unescape(s)) <= Len(s) /\ Len(Unescape(s)) \in Nat
<1> DEFINE start == [i |-> 1, o |-> <<>>]
           loop == [of |-> "Unescape", s |-> s]
<1>1. PICK g : Steps(g, Len(s), start, loop) /\ Unescape(s) = g[Len(s)].o  BY UnescapeLoop
<1>2. Len(s) \in Nat  BY DEF IsSeq
<1>3. Reading(s, start)  BY <1>2 DEF Reading, IsSeq
<1>4. ASSUME NEW k \in 1..Len(s) PROVE g[k] = UnescapeTurn(s, g[k - 1])  BY <1>1 DEF Steps, Turn
<1>5. g[0] = start  BY <1>1 DEF Steps
<1> HIDE DEF start, loop
<1> DEFINE S == {k \in 0..Len(s) : Reading(s, g[k])}
<1>6. 0 \in S  BY <1>2, <1>3, <1>5
<1>7. ASSUME NEW k \in 1..Len(s), k - 1 \in S PROVE k \in S
  <2>1. Reading(s, g[k - 1])  BY <1>7
  <2>2. Reading(s, g[k])  BY <1>4, <2>1, UnescapeReads
  <2>3. k \in 0..Len(s)  BY <1>2
  <2> QED BY <2>2, <2>3
<1>8. Len(s) \in S
  <2> HIDE DEF S
  <2>1. \A k \in 0..Len(s) : k \in S  BY <1>2, <1>6, <1>7, UpTo
  <2> QED BY <1>2, <2>1
<1>9. Reading(s, g[Len(s)])  BY <1>8
<1>10. Reading(s, g[Len(s)]) => IsSeq(g[Len(s)].o) /\ Len(g[Len(s)].o) <= Len(s) /\ Len(g[Len(s)].o) \in Nat
  BY <1>2 DEF Reading, IsSeq
<1> QED BY <1>1, <1>9, <1>10

\* A character string has its length octet and no more than its characters.
LEMMA StringFits ==
  ASSUME NEW s, IsSeq(s)
  PROVE  Fits(packTxtString(s), Len(s) + 1) /\ Fits(packOctetString(s), Len(s))
<1>1. Len(s) \in Nat /\ Len(s) + 1 \in Nat  BY DEF IsSeq
<1>2. IsSeq(Unescape(s)) /\ Len(Unescape(s)) <= Len(s) /\ Len(Unescape(s)) \in Nat  BY UnescapeFits
<1>3. Fits(packOctetString(s), Len(s))  BY <1>1, <1>2 DEF packOctetString, Fits, Good, Bad
<1>4. Fits(packTxtString(s), Len(s) + 1)
  <2> DEFINE o == Unescape(s)
             r == <<Len(o)>> \o o
  <2> HIDE DEF o
  <2>1. IsSeq(<<Len(o)>>) /\ Len(<<Len(o)>>) = 1  BY One
  <2>2. IsSeq(r) /\ Len(r) = Len(<<Len(o)>>) + Len(o)  BY <1>2, <2>1, Cat DEF o
  <2>3. Len(r) <= Len(s) + 1  BY <1>1, <1>2, <2>1, <2>2 DEF o
  <2>4. packTxtString(s) = Bad \/ packTxtString(s) = Good(r, 0)  BY DEF packTxtString, o
  <2> HIDE DEF r
  <2> QED BY <1>1, <2>2, <2>3, <2>4 DEF Fits, Good, Bad
<1> QED BY <1>3, <1>4

\* The octets of a sequence of digits of w bits.
LEMMA UndigitsFits ==
  ASSUME NEW d, IsSeq(d), NEW w \in {4, 5, 6}
  PROVE  /\ IsSeq(Undigits(d, w)) /\ Len(Undigits(d, w)) = (w * Len(d)) \div 8
<1>1. Len(d) \in Nat  BY DEF IsSeq
<1>2. (w * Len(d)) \div 8 \in Nat
  <2> DEFINE n == w * Len(d)
  <2>1. n \in Nat  BY <1>1
  <2> HIDE DEF n
  <2>2. n \div 8 \in Nat  BY <2>1
  <2> QED BY <2>2 DEF n
<1> DEFINE u == Undigits(d, w)
<1>3. u = [i \in 1..((w * Len(d)) \div 8) |-> u[i]]  BY DEF Undigits
<1> HIDE DEF u
<1>4. IsSeq(u) /\ Len(u) = (w * Len(d)) \div 8  BY <1>2, <1>3, FunctionIsSeq
<1> QED BY <1>4 DEF u

\* The octets of a hexadecimal string.
LEMMA HexFits ==
  ASSUME NEW s, IsSeq(s)
  PROVE  Fits(fromHex(s), Len(s) \div 2)
<1>1. Len(s) \in Nat  BY DEF IsSeq
<1>2. IsSeq(Undigits(s, 4)) /\ Len(Undigits(s, 4)) = (4 * Len(s)) \div 8  BY UndigitsFits
<1>3. (4 * Len(s)) \div 8 = Len(s) \div 2 /\ Len(s) \div 2 \in Nat  BY <1>1
<1>4. Len(Undigits(s, 4)) <= Len(s) \div 2  BY <1>2, <1>3
<1> QED BY <1>2, <1>3, <1>4 DEF fromHex, Fits, Good, Bad

\* The octets of a base32 string.
LEMMA Base32Fits ==
  ASSUME NEW s, IsSeq(s)
  PROVE  Fits(fromBase32(s), Len(s) + 1)
<1>1. Len(s) \in Nat  BY DEF IsSeq
<1>2. IsSeq(Undigits(s, 5)) /\ Len(Undigits(s, 5)) = (5 * Len(s)) \div 8  BY UndigitsFits
<1>3. (5 * Len(s)) \div 8 <= Len(s) + 1 /\ Len(s) + 1 \in Nat  BY <1>1
<1>4. Len(Undigits(s, 5)) <= Len(s) + 1  BY <1>2, <1>3
<1> QED BY <1>2, <1>3, <1>4 DEF fromBase32, Fits, Good, Bad

\* The octets of a base64 string.
LEMMA Base64Fits ==
  ASSUME NEW s, IsSeq(s)
  PROVE  Fits(fromBase64(s), DecodedLen(Len(s)))
<1> DEFINE n == Len(s)
           padding == {k \in 0..2 : {i \in 1..n : s[i] = Equals} = (n - k + 1)..n}
           t == SubSeq(s, 1, n - Min(padding))
<1>1. n \in Nat  BY DEF IsSeq
<1>2. DecodedLen(n) \in Nat /\ (n % 4 = 0 => 8 * DecodedLen(n) = 6 * n)  BY <1>1 DEF DecodedLen
<1>3. CASE n % 4 # 0 \/ padding = {}
  <2>1. fromBase64(s) = Bad  BY <1>3 DEF fromBase64
  <2> QED BY <1>2, <2>1 DEF Fits, Bad
<1>4. CASE n % 4 = 0 /\ padding # {}
  <2>1. fromBase64(s) = Good(Undigits(t, 6), 0)  BY <1>4 DEF fromBase64
  <2>2. padding \subseteq Nat  OBVIOUS
  <2>3. Min(padding) \in padding
    <3> HIDE DEF padding
    <3> QED BY <1>4, <2>2, MinIn
  <2>4. Min(padding) \in 0..2  BY <2>3
  <2>5. n = 0 => Min(padding) = 0
    <3>1. ASSUME n = 0 PROVE 0 \in padding  BY <3>1
    <3>2. ASSUME n = 0 PROVE Min(padding) <= 0
      <4> HIDE DEF padding
      <4> QED BY <1>4, <2>2, <3>1, <3>2, MinIn
    <3> QED BY <2>4, <3>2
  <2> DEFINE x == Min(padding)
  <2> HIDE DEF padding
  <2>6. x \in 0..2 /\ (n = 0 => x = 0)  BY <2>4, <2>5
  <2> HIDE DEF x
  <2>7. n - x \in Nat /\ 1 <= n - x + 1 /\ n - x <= Len(s)  BY <1>1, <1>4, <2>6
  <2>8. IsSeq(SubSeq(s, 1, n - x)) /\ Len(SubSeq(s, 1, n - x)) = n - x  BY <2>7, Piece
  <2>9. t = SubSeq(s, 1, n - x)  BY DEF x
  <2> HIDE DEF t
  <2>10. IsSeq(Undigits(t, 6)) /\ Len(Undigits(t, 6)) = (6 * (n - x)) \div 8  BY <2>8, <2>9, UndigitsFits
  <2>11. (6 * (n - x)) \div 8 <= DecodedLen(n)  BY <1>1, <1>2, <1>4, <2>6, <2>7
  <2>12. Len(Undigits(t, 6)) <= DecodedLen(n)  BY <2>10, <2>11
  <2> QED BY <1>2, <2>1, <2>10, <2>12 DEF Fits, Good
<1> QED BY <1>3, <1>4

\* Max of a set of numbers up to n is in it and above the others.
LEMMA MaxIn ==
  ASSUME NEW n \in Nat, NEW T, T \subseteq 0..n, T # {}
  PROVE  Max(T) \in T /\ Max(T) \in 0..n /\ \A k \in T : k <= Max(T)
<1> DEFINE D == {j \in 0..n : n - j \in T}
<1>1. D \subseteq Nat  OBVIOUS
<1>2. D # {}
  <2>1. PICK t \in T : TRUE  OBVIOUS
  <2>2. n - t \in 0..n /\ n - (n - t) = t  BY <2>1
  <2>3. n - t \in D  BY <2>1, <2>2
  <2> QED BY <2>3
<1>3. PICK j \in D : \A k \in D : j <= k
  <2> HIDE DEF D
  <2> QED BY <1>1, <1>2, Least
<1>4. j \in 0..n /\ n - j \in T  BY <1>3
<1>5. ASSUME NEW k \in T PROVE n - j >= k
  <2>1. k \in 0..n  OBVIOUS
  <2>2. n - k \in 0..n /\ n - (n - k) = k  BY <2>1
  <2>3. n - k \in D  BY <2>2
  <2>4. j <= n - k  BY <1>3, <2>3
  <2> QED BY <1>4, <2>1, <2>4
<1>6. \E x \in T : \A k \in T : x >= k  BY <1>4, <1>5
<1>7. Max(T) \in T /\ \A k \in T : Max(T) >= k  BY <1>6 DEF Max
<1>8. ASSUME NEW k \in T PROVE k <= Max(T)
  <2>1. k \in 0..n /\ Max(T) \in 0..n /\ Max(T) >= k  BY <1>7
  <2> HIDE DEF D
  <2> QED BY <2>1
<1> QED BY <1>7, <1>8

\* A window block has two octets and its bits.
LEMMA BlockLength ==
  ASSUME NEW types, NEW w, NEW n \in Nat
  PROVE  IsSeq(WindowBlock(types, w, n)) /\ Len(WindowBlock(types, w, n)) = n + 2
<1> DEFINE Row(j) == Value(2, [k \in 1..8 |-> IF 256 * w + 8 * (j - 1) + k - 1 \in types THEN 1 ELSE 0])
           b == [j \in 1..n |-> Row(j)]
<1>1. WindowBlock(types, w, n) = <<w, n>> \o b  BY DEF WindowBlock
<1> HIDE DEF Row
<1>2. b = [j \in 1..n |-> b[j]]  OBVIOUS
<1> HIDE DEF b
<1>3. IsSeq(b) /\ Len(b) = n  BY <1>2, FunctionIsSeq
<1>4. IsSeq(<<w, n>>) /\ Len(<<w, n>>) = 2  BY DEF IsSeq
<1>5. IsSeq(<<w, n>> \o b) /\ Len(<<w, n>> \o b) = Len(<<w, n>>) + Len(b)  BY <1>3, <1>4, Cat
<1>6. Len(<<w, n>> \o b) = n + 2  BY <1>3, <1>4, <1>5
<1> QED BY <1>1, <1>5, <1>6

\* A turn of the walk over the type codes counts what it writes.
LEMMA BitMapWalks ==
  ASSUME NEW types, NEW a, Walking(a), NEW t \in Nat
  PROVE  Walking(BitMapTurn(types, a, t))
<1> DEFINE b == IF Window(t) > a.w /\ a.len # 0
                THEN [a EXCEPT !.l = @ + a.len + 2, !.o = @ \o WindowBlock(types, a.w, a.len), !.len = 0]
                ELSE a
           length == Octet(t) + 1
<1>1. length \in Nat  BY DEF Octet
<1>2. Walking(b)
  <2>1. CASE Window(t) > a.w /\ a.len # 0
    <3> DEFINE o == a.o \o WindowBlock(types, a.w, a.len)
    <3>1. b = [l |-> a.l + a.len + 2, o |-> o, w |-> a.w, len |-> 0, bad |-> a.bad]  BY <2>1 DEF Walking
    <3>2. a.l \in Nat /\ a.len \in Nat /\ IsSeq(a.o) /\ Len(a.o) = a.l  BY DEF Walking
    <3>3. IsSeq(WindowBlock(types, a.w, a.len)) /\ Len(WindowBlock(types, a.w, a.len)) = a.len + 2
      BY <3>2, BlockLength
    <3>4. IsSeq(o) /\ Len(o) = a.l + (a.len + 2)
      <4> DEFINE blk == WindowBlock(types, a.w, a.len)
      <4> HIDE DEF blk
      <4>0. IsSeq(a.o) /\ IsSeq(blk)  BY <3>2, <3>3 DEF blk
      <4>1. IsSeq(a.o \o blk) /\ Len(a.o \o blk) = Len(a.o) + Len(blk)  BY <4>0, Cat
      <4>2. Len(a.o) = a.l /\ Len(blk) = a.len + 2  BY <3>2, <3>3 DEF blk
      <4>3. Len(a.o \o blk) = a.l + (a.len + 2)  BY <4>1, <4>2
      <4> QED BY <4>1, <4>3 DEF blk
    <3> HIDE DEF o, b
    <3>5. a.l + a.len + 2 \in Nat /\ Len(o) = a.l + a.len + 2  BY SMTT(20), <3>2, <3>4
    <3> QED BY <3>1, <3>4, <3>5 DEF Walking
  <2>2. CASE ~ (Window(t) > a.w /\ a.len # 0)  BY <2>2
  <2> QED BY <2>1, <2>2
<1>3. BitMapTurn(types, a, t) =
        IF Window(t) < b.w \/ length < b.len
        THEN [b EXCEPT !.bad = TRUE] ELSE [b EXCEPT !.w = Window(t), !.len = length]
  BY DEF BitMapTurn
<1> HIDE DEF b, length
<1>4. ASSUME NEW r, r = [b EXCEPT !.bad = TRUE] PROVE Walking(r)  BY <1>2, <1>4 DEF Walking
<1>5. ASSUME NEW x, NEW r, r = [b EXCEPT !.w = x, !.len = length] PROVE Walking(r)
  BY <1>1, <1>2, <1>5 DEF Walking
<1> QED BY <1>3, <1>4, <1>5

\* typeBitMapLen covers what packDataNsec writes, if it writes.
LEMMA BitMapFits ==
  ASSUME NEW s, IsSeq(s), \A i \in 1..Len(s) : s[i] \in Nat
  PROVE  Fits(packDataNsec(s), typeBitMapLen(s))
<1> DEFINE start == [l |-> 0, o |-> <<>>, w |-> 0, len |-> 0, bad |-> FALSE]
           loop == [of |-> "BitMapWalk", s |-> s]
<1>1. IsSeq(s) /\ \A i \in 1..Len(s) : s[i] \in Nat  OBVIOUS
<1>2. Len(s) \in Nat  BY <1>1 DEF IsSeq
<1>3. PICK g : Steps(g, Len(s), start, loop) /\ BitMapWalk(s) = g[Len(s)]  BY <1>1, BitMapLoop
<1>4. Walking(start)  BY DEF Walking, IsSeq
<1>5. ASSUME NEW k \in 1..Len(s) PROVE g[k] = BitMapTurn(ToSet(s), g[k - 1], s[k])  BY <1>3 DEF Steps, Turn
<1>6. g[0] = start  BY <1>3 DEF Steps
<1> HIDE DEF start, loop
<1> DEFINE S == {k \in 0..Len(s) : Walking(g[k])}
<1>7. 0 \in S  BY <1>2, <1>4, <1>6
<1>8. ASSUME NEW k \in 1..Len(s), k - 1 \in S PROVE k \in S
  <2>1. Walking(g[k - 1])  BY <1>8
  <2>2. Walking(g[k])  BY <1>1, <1>5, <2>1, BitMapWalks
  <2>3. k \in 0..Len(s)  BY <1>2
  <2> QED BY <2>2, <2>3
<1>9. Len(s) \in S
  <2> HIDE DEF S
  <2>1. \A k \in 0..Len(s) : k \in S  BY <1>2, <1>7, <1>8, UpTo
  <2> QED BY <1>2, <2>1
<1> DEFINE a == BitMapWalk(s)
           o == a.o \o WindowBlock(ToSet(s), a.w, a.len)
<1>10. Walking(a)  BY <1>3, <1>9
<1>11. typeBitMapLen(s) = a.l + a.len + 2  BY DEF typeBitMapLen
<1>12. packDataNsec(s) \in {Good(<<>>, 0), Bad, Good(o, 0)}  BY DEF packDataNsec
<1> HIDE DEF a
<1>13. a.l \in Nat /\ a.len \in Nat /\ IsSeq(a.o) /\ Len(a.o) = a.l  BY <1>10 DEF Walking
<1>14. IsSeq(WindowBlock(ToSet(s), a.w, a.len)) /\ Len(WindowBlock(ToSet(s), a.w, a.len)) = a.len + 2
  BY <1>13, BlockLength
<1>15. IsSeq(o) /\ Len(o) = a.l + (a.len + 2)
  <2> DEFINE blk == WindowBlock(ToSet(s), a.w, a.len)
  <2> HIDE DEF blk
  <2>0. IsSeq(a.o) /\ IsSeq(blk)  BY <1>13, <1>14 DEF blk
  <2>1. IsSeq(a.o \o blk) /\ Len(a.o \o blk) = Len(a.o) + Len(blk)  BY <2>0, Cat
  <2>2. Len(a.o) = a.l /\ Len(blk) = a.len + 2  BY <1>13, <1>14 DEF blk
  <2>3. Len(a.o \o blk) = a.l + (a.len + 2)  BY <2>1, <2>2
  <2> QED BY <2>1, <2>3 DEF blk
<1> HIDE DEF o
<1>16. a.l + a.len + 2 \in Nat /\ Len(o) <= a.l + a.len + 2  BY <1>13, <1>15
<1>17. IsSeq(<<>>) /\ Len(<<>>) <= a.l + a.len + 2  BY <1>13 DEF IsSeq
<1> QED BY <1>11, <1>12, <1>15, <1>16, <1>17 DEF Fits, Good, Bad

\* To4 gives four octets or none.
LEMMA To4Facts ==
  ASSUME NEW ip, IsSeq(ip)
  PROVE  To4(ip) = <<>> \/ (IsSeq(To4(ip)) /\ Len(To4(ip)) = 4)
<1>1. CASE Len(ip) = 4
  <2>1. To4(ip) = ip  BY <1>1 DEF To4, IPv4len, IPv6len
  <2> QED BY <1>1, <2>1
<1>2. CASE Len(ip) = 16
  <2>1. IsSeq(SubSeq(ip, 13, 16)) /\ Len(SubSeq(ip, 13, 16)) = 16 - 13 + 1
    <3>1. 13 \in Nat /\ 16 \in Nat /\ 1 <= 13 /\ 13 <= 16 + 1 /\ 16 <= Len(ip)  BY <1>2
    <3> QED BY <3>1, Piece
  <2>3. 16 - 13 + 1 = 4  OBVIOUS
  <2>2. To4(ip) \in {SubSeq(ip, 13, 16), <<>>}  BY <1>2 DEF To4, IPv4len, IPv6len
  <2> QED BY <2>1, <2>2, <2>3
<1>3. CASE Len(ip) # 4 /\ Len(ip) # 16  BY <1>3 DEF To4, IPv4len, IPv6len
<1> QED BY <1>1, <1>2, <1>3

\* packDataA writes four octets or none.
LEMMA Address4Fits ==
  ASSUME NEW v, IsSeq(v)
  PROVE  Fits(packDataA(v), IF v = <<>> THEN 0 ELSE IPv4len) /\ Fits(packDataA(v), IPv4len)
<1>1. IsSeq(<<>>) /\ Len(<<>>) = 0  BY DEF IsSeq
<1>2. Len(v) = 0 => v = <<>>  BY <1>1, SameSeq
<1>3. IsSeq(Zeros(4)) /\ Len(Zeros(4)) = 4
  <2>1. Zeros(4) = [i \in 1..4 |-> Zeros(4)[i]]  BY DEF Zeros
  <2> QED BY <2>1, FunctionIsSeq
<1>4. CASE Len(v) = 0
  <2>1. packDataA(v) = Good(<<>>, 0)  BY <1>4 DEF packDataA, IPv4len, IPv6len
  <2> QED BY <1>1, <1>2, <1>4, <2>1 DEF Fits, Good, IPv4len
<1>5. CASE Len(v) \in {4, 16}
  <2>1. packDataA(v) = Good(IF To4(v) = <<>> THEN Zeros(4) ELSE To4(v), 0)
    BY <1>5 DEF packDataA, IPv4len, IPv6len
  <2>2. v # <<>>
    <3>1. ASSUME v = <<>> PROVE FALSE
      <4>1. Len(v) = 0  BY <1>1, <3>1
      <4> QED BY <1>5, <4>1
    <3> QED BY <3>1
  <2> DEFINE t == IF To4(v) = <<>> THEN Zeros(4) ELSE To4(v)
  <2>3. IsSeq(t) /\ Len(t) = 4  BY <1>3, To4Facts
  <2>4. packDataA(v) = Good(t, 0)  BY <2>1
  <2> HIDE DEF t
  <2>5. packDataA(v).v = t  BY <2>4 DEF Good
  <2>6. IsSeq(packDataA(v).v) /\ Len(packDataA(v).v) = 4  BY <2>3, <2>5, Zenon
  <2> QED BY <2>2, <2>6 DEF Fits, IPv4len
<1>6. CASE Len(v) \notin {0, 4, 16}
  <2>1. packDataA(v) = Bad  BY <1>6 DEF packDataA, IPv4len, IPv6len
  <2> QED BY <2>1 DEF Fits, Bad, IPv4len
<1> QED BY <1>4, <1>5, <1>6

\* packDataAAAA writes sixteen octets or none.
LEMMA Address6Fits ==
  ASSUME NEW v, IsSeq(v)
  PROVE  Fits(packDataAAAA(v), IF v = <<>> THEN 0 ELSE IPv6len) /\ Fits(packDataAAAA(v), IPv6len)
<1>1. IsSeq(<<>>) /\ Len(<<>>) = 0  BY DEF IsSeq
<1>2. Len(v) = 0 => v = <<>>  BY <1>1, SameSeq
<1>3. CASE Len(v) = 0
  <2>1. packDataAAAA(v) = Good(<<>>, 0)  BY <1>2, <1>3 DEF packDataAAAA, IPv6len
  <2> QED BY <1>1, <1>2, <1>3, <2>1 DEF Fits, Good, IPv6len
<1>4. CASE Len(v) = 16
  <2>1. packDataAAAA(v) = Good(v, 0)  BY <1>4 DEF packDataAAAA, IPv6len
  <2>2. v # <<>>
    <3>1. ASSUME v = <<>> PROVE FALSE
      <4>1. Len(v) = 0  BY <1>1, <3>1
      <4> QED BY <1>4, <4>1
    <3> QED BY <3>1
  <2>3. IsSeq(v) /\ Len(v) <= 16 /\ 16 \in Nat  BY <1>4
  <2> QED BY <2>1, <2>2, <2>3 DEF Fits, Good, IPv6len
<1>5. CASE Len(v) \notin {0, 16}
  <2>1. packDataAAAA(v) = Bad  BY <1>5 DEF packDataAAAA, IPv6len
  <2> QED BY <2>1 DEF Fits, Bad, IPv6len
<1> QED BY <1>3, <1>4, <1>5

\* The masked prefix has the octets of the address.
LEMMA MaskedFacts ==
  ASSUME NEW ip, IsSeq(ip), NEW prefix, NEW n \in Nat, n <= Len(ip)
  PROVE  IsSeq(SubSeq(Masked(ip, prefix), 1, n)) /\ Len(SubSeq(Masked(ip, prefix), 1, n)) = n
<1> DEFINE a == Masked(ip, prefix)
<1>1. a = [i \in 1..Len(ip) |-> a[i]]  BY DEF Masked
<1>2. Len(ip) \in Nat  BY DEF IsSeq
<1> HIDE DEF a
<1>3. IsSeq(a) /\ Len(a) = Len(ip)  BY <1>1, <1>2, FunctionIsSeq
<1>4. 1 <= n + 1 /\ n <= Len(a) /\ n - 1 + 1 = n  BY <1>3
<1>5. IsSeq(SubSeq(a, 1, n)) /\ Len(SubSeq(a, 1, n)) = n - 1 + 1  BY <1>3, <1>4, Piece
<1> QED BY <1>4, <1>5 DEF a

\* Without its trailing zeros, an address is no longer.
LEMMA Trimmed ==
  ASSUME NEW a, IsSeq(a)
  PROVE  IsSeq(TrimZeros(a)) /\ Len(TrimZeros(a)) <= Len(a) /\ Len(TrimZeros(a)) \in Nat
<1> DEFINE T == {0} \cup {i \in 1..Len(a) : a[i] # 0}
           n == Max(T)
<1>1. Len(a) \in Nat  BY DEF IsSeq
<1>2. T \subseteq 0..Len(a) /\ T # {}  BY <1>1
<1> HIDE DEF T
<1>3. n \in 0..Len(a)  BY <1>1, <1>2, MaxIn
<1> HIDE DEF n
<1>4. n \in Nat /\ 1 <= n + 1 /\ n <= Len(a) /\ n - 1 + 1 = n  BY <1>1, <1>3
<1>5. IsSeq(SubSeq(a, 1, n)) /\ Len(SubSeq(a, 1, n)) = n - 1 + 1  BY <1>4, Piece
<1>6. TrimZeros(a) = SubSeq(a, 1, n)  BY DEF TrimZeros, n, T
<1> QED BY <1>4, <1>5, <1>6

\* The length of an APL prefix covers it.
LEMMA PrefixFits ==
  ASSUME NEW p, IsSeq(p.ip), p.prefix \in 0..(8 * Len(p.ip))
  PROVE  Fits(packDataAplPrefix(p), AplPrefixLen(p))
<1> DEFINE n == CeilOctets(p.prefix)
           b == SubSeq(Masked(p.ip, p.prefix), 1, n)
           addr == TrimZeros(b)
           family == BE(IF Len(p.ip) = IPv4len THEN 1 ELSE 2, 2)
           two == <<p.prefix, (IF p.neg THEN 128 ELSE 0) + Len(addr)>>
<1>1. Len(p.ip) \in Nat  BY DEF IsSeq
<1>2. n \in Nat /\ n <= Len(p.ip)  BY <1>1 DEF CeilOctets
<1>3. AplPrefixLen(p) = 4 + n  BY DEF AplPrefixLen
<1>4. packDataAplPrefix(p) = Bad \/ packDataAplPrefix(p) = Good(family \o two \o addr, 0)
  BY DEF packDataAplPrefix
<1> HIDE DEF n
<1>5. IsSeq(b) /\ Len(b) = n  BY <1>2, MaskedFacts
<1> HIDE DEF b
<1>6. IsSeq(addr) /\ Len(addr) <= n /\ Len(addr) \in Nat  BY <1>5, Trimmed
<1> HIDE DEF addr
<1>7. IsSeq(family) /\ Len(family) = 2  BY BEFacts
<1>8. IsSeq(two) /\ Len(two) = 2  BY DEF IsSeq
<1> HIDE DEF family, two
<1>9. IsSeq(family \o two) /\ Len(family \o two) = 4
  <2>1. IsSeq(family \o two) /\ Len(family \o two) = Len(family) + Len(two)  BY <1>7, <1>8, Cat
  <2> QED BY <1>7, <1>8, <2>1
<1> DEFINE r == family \o two \o addr
<1>10. IsSeq(r) /\ Len(r) = 4 + Len(addr)  BY <1>6, <1>9, Cat
<1> HIDE DEF r
<1>11. Len(r) <= 4 + n /\ 4 + n \in Nat  BY <1>2, <1>6, <1>10
<1>12. packDataAplPrefix(p) = Bad \/ packDataAplPrefix(p) = Good(r, 0)  BY <1>4 DEF r
<1> QED BY <1>3, <1>10, <1>11, <1>12 DEF Fits, Good, Bad

-----------------------------------------------------------------------------
(* EDNS0 options.                                                          *)

\* An encoding has octets, none for an error.
LEMMA EncodingFacts ==
  ASSUME NEW e, Encoding(e)
  PROVE  IsSeq(e.v) /\ Len(e.v) \in Nat
<1>1. IsSeq(<<>>)  BY DEF IsSeq
<1>2. IsSeq(e.v)  BY <1>1 DEF Encoding, Good, Bad
<1> QED BY <1>2 DEF IsSeq

\* A code and a length take four octets.
LEMMA TaggedFits ==
  ASSUME NEW code, NEW e, Encoding(e), NEW n \in Nat, ~e.err => Len(e.v) <= n
  PROVE  Fits(Tagged(code, e), 4 + n)
<1> DEFINE a == BE(code, 2)
<1>1. IsSeq(a) /\ Len(a) = 2  BY BEFacts
<1> HIDE DEF a
<1>2. CASE e = Bad
  <2>1. Tagged(code, e).err  BY <1>2 DEF Tagged, Bad
  <2> QED BY <2>1 DEF Fits
<1>3. ASSUME NEW v, IsSeq(v), e = Good(v, 0) PROVE Fits(Tagged(code, e), 4 + n)
  <2> DEFINE b == BE(Len(v), 2)
  <2>1. IsSeq(b) /\ Len(b) = 2  BY BEFacts
  <2>2. Tagged(code, e).v = a \o b \o v  BY <1>3 DEF Tagged, Good, a
  <2> HIDE DEF b
  <2>3. IsSeq(a \o b) /\ Len(a \o b) = Len(a) + Len(b)  BY <1>1, <2>1, Cat
  <2>4. Len(a \o b) = 4  BY <1>1, <2>1, <2>3
  <2> DEFINE h == a \o b
  <2>5. IsSeq(h) /\ Len(h) = 4  BY <2>3, <2>4
  <2>6. Tagged(code, e).v = h \o v  BY <2>2
  <2> HIDE DEF h
  <2>7. IsSeq(h \o v) /\ Len(h \o v) = Len(h) + Len(v) /\ Len(v) \in Nat  BY <1>3, <2>5, Cat
  <2>8. Len(v) <= n  BY <1>3 DEF Good
  <2>9. Len(h \o v) <= 4 + n  BY <2>5, <2>7, <2>8
  <2>10. 4 + n \in Nat  OBVIOUS
  <2> QED BY <2>6, <2>7, <2>9, <2>10 DEF Fits
<1> QED BY <1>2, <1>3 DEF Encoding

\* What is written in hexadecimal encodes or fails.
LEMMA HexEncodes ==
  ASSUME NEW s, IsSeq(s)
  PROVE  Encoding(fromHex(s))
<1>1. IsSeq(Undigits(s, 4))  BY UndigitsFits
<1> QED BY <1>1 DEF fromHex, Encoding

\* Octets are numbers.
LEMMA ByteIsNat == \A x \in Byte : x \in Nat
BY DEF Byte

\* The option SUBNET encodes or fails.
LEMMA SubnetEncodes ==
  ASSUME NEW v, v[2] \in Byte, v[4] \in Seq(Byte)
  PROVE  Encoding(SUBNET_pack(v))
<1>1. IsSeq(v[4]) /\ v[2] \in Nat
  <2>1. IsSeq(v[4])  BY SeqIsSeq
  <2>2. v[2] \in Nat  BY ByteIsNat
  <2> QED BY <2>1, <2>2
<1>2. CASE v[1] = 0
  <2>1. SUBNET_pack(v) \in {Bad, Good(<<0, 0, 0, v[3]>>, 0)}  BY <1>2 DEF SUBNET_pack
  <2>2. IsSeq(<<0, 0, 0, v[3]>>)  BY DEF IsSeq
  <2> QED BY <2>1, <2>2 DEF Encoding
<1>3. CASE v[1] \in {1, 2}
  <2> DEFINE mask == v[2]
             ip == IF v[1] = 1 THEN To4(v[4]) ELSE v[4]
             size == IF v[1] = 1 THEN IPv4len ELSE IPv6len
             a == BE(v[1], 2)
             b == <<mask, v[3]>>
             c == SubSeq(Masked(ip, mask), 1, CeilOctets(mask))
  <2>1. SUBNET_pack(v) = IF mask > 8 * size \/ Len(ip) # size THEN Bad ELSE Good(a \o b \o c, 0)
    BY <1>3 DEF SUBNET_pack
  <2>2. ASSUME ~ (mask > 8 * size \/ Len(ip) # size) PROVE Encoding(Good(a \o b \o c, 0))
    <3>1. IsSeq(ip)
      <4>1. IsSeq(<<>>)  BY DEF IsSeq
      <4>2. IsSeq(To4(v[4]))  BY <1>1, <4>1, To4Facts
      <4> QED BY <1>1, <4>2
    <3>2. Len(ip) = size /\ mask \in Nat /\ mask <= 8 * size /\ size \in Nat
      BY <1>1, <2>2 DEF IPv4len, IPv6len
    <3> HIDE DEF mask, size, ip
    <3>3. CeilOctets(mask) \in Nat /\ CeilOctets(mask) <= Len(ip)  BY <3>2 DEF CeilOctets
    <3>4. IsSeq(c)  BY <3>1, <3>3, MaskedFacts
    <3>5. IsSeq(a)  BY BEFacts
    <3>6. IsSeq(b)  BY DEF IsSeq
    <3> HIDE DEF a, b, c
    <3>7. IsSeq(a \o b)  BY <3>5, <3>6, Cat
    <3>8. IsSeq(a \o b \o c)  BY <3>4, <3>7, Cat
    <3> QED BY <3>8 DEF Encoding
  <2> HIDE DEF a, b, c
  <2> QED BY <2>1, <2>2 DEF Encoding
<1>4. CASE v[1] \notin {0, 1, 2}
  <2>1. SUBNET_pack(v) = Bad  BY <1>4 DEF SUBNET_pack
  <2> QED BY <2>1 DEF Encoding
<1> QED BY <1>2, <1>3, <1>4

\* The option REPORTING encodes or fails.
LEMMA ReportingEncodes ==
  ASSUME NEW s, IsNameField(s)
  PROVE  Encoding(REPORTING_pack(s))
<1> DEFINE p == NewBuffer(255, FALSE)
           q == packDomainName(s, p, FALSE)
<1>1. IsSeq(<<>>) /\ Len(<<>>) = 0  BY DEF IsSeq
<1>2. IsBuffer(p) /\ ~p.err /\ p.msg = <<>> /\ p.cap = 255 /\ p.comp = <<>>  BY <1>1 DEF NewBuffer, IsBuffer
<1>3. REPORTING_pack(s) = IF q.err THEN Bad ELSE Good(q.msg, 0)  BY DEF REPORTING_pack, InBuffer
<1>4. IsSeq(q.msg)
  <2>1. CASE s = <<>>
    <3>1. q = p  BY <2>1 DEF packDomainName
    <3> HIDE DEF p, q
    <3> QED BY <1>1, <1>2, <3>1
  <2>2. CASE IsName(s)
    <3>1. Labels(s) /\ WireLen(s) <= maxDomainNameWireOctets  BY <2>2, NameFacts
    <3>2. PICK w : NameOffsets(w, s)  BY <3>1, NameOffsetsExist
    <3>3. WireLen(s) \in Nat  BY <3>1, PresentationCovers
    <3>4. Len(p.msg) + WireLen(s) <= p.cap
      <4> HIDE DEF p
      <4> QED BY <1>1, <1>2, <3>1, <3>3, WireBounds
    <3>5. \A x \in DOMAIN p.comp : p.comp[x] \in Nat
      <4>1. DOMAIN p.comp = {}
        <5> HIDE DEF p
        <5>1. DOMAIN <<>> = {}  OBVIOUS
        <5> QED BY <1>2, <5>1
      <4> HIDE DEF p
      <4> QED BY <4>1
    <3>6. FALSE \in BOOLEAN  OBVIOUS
    <3> HIDE DEF p
    <3>7. \E hit : NamePacked(p, q, s, FALSE, hit, w)  BY <1>2, <2>2, <3>2, <3>4, <3>5, <3>6, PackName
    <3> HIDE DEF q
    <3> QED BY <3>7 DEF NamePacked, Extends, IsBuffer
  <2> QED BY <2>1, <2>2 DEF IsNameField
<1> HIDE DEF p, q
<1> QED BY <1>3, <1>4 DEF Encoding

\* Every option encodes or fails.
LEMMA OptionEncodes ==
  ASSUME NEW o, IsOption(o)
  PROVE  Encoding(EDNS0_pack(o))
<1> USE DEF EDNS0LLQ, EDNS0UL, EDNS0NSID, EDNS0COOKIE, EDNS0SUBNET, EDNS0EXPIRE, EDNS0TCPKEEPALIVE,
            EDNS0EDE, EDNS0REPORTING, EDNS0ZONEVERSION, HexOptions
<1>e. IsSeq(<<>>)  BY DEF IsSeq
<1>1. CASE o.code = EDNS0LLQ
  <2> DEFINE a == BE(o.v[1], 2)
             b == BE(o.v[2], 2)
             c == BE(o.v[3], 2)
             d == BE(o.v[4], 8)
             e == BE(o.v[5], 4)
  <2>1. EDNS0_pack(o) = Good(a \o b \o c \o d \o e, 0)  BY <1>1 DEF EDNS0_pack, LLQ_pack
  <2>2. IsSeq(a) /\ IsSeq(b) /\ IsSeq(c) /\ IsSeq(d) /\ IsSeq(e)  BY BEFacts
  <2> HIDE DEF a, b, c, d, e
  <2>3. IsSeq(a \o b)  BY <2>2, Cat
  <2>4. IsSeq(a \o b \o c)  BY <2>2, <2>3, Cat
  <2>5. IsSeq(a \o b \o c \o d)  BY <2>2, <2>4, Cat
  <2>6. IsSeq(a \o b \o c \o d \o e)  BY <2>2, <2>5, Cat
  <2> QED BY <2>1, <2>6 DEF Encoding
<1>2. CASE o.code = EDNS0UL
  <2> DEFINE a == BE(o.v[1], 4)
             b == IF o.v[2] = 0 THEN <<>> ELSE BE(o.v[2], 4)
  <2>1. EDNS0_pack(o) = Good(a \o b, 0)  BY <1>2 DEF EDNS0_pack, UL_pack
  <2>2. IsSeq(a) /\ IsSeq(b)  BY <1>e, BEFacts
  <2> HIDE DEF a, b
  <2>3. IsSeq(a \o b)  BY <2>2, Cat
  <2> QED BY <2>1, <2>3 DEF Encoding
<1>3. CASE o.code \in HexOptions
  <2>1. EDNS0_pack(o) = fromHex(o.v)  BY <1>3 DEF EDNS0_pack
  <2>2. o.v \in Seq(Byte)  BY <1>3 DEF IsOption
  <2> QED BY <2>1, <2>2, SeqIsSeq, HexEncodes
<1>4. CASE o.code = EDNS0SUBNET
  <2>1. EDNS0_pack(o) = SUBNET_pack(o.v)  BY <1>4 DEF EDNS0_pack
  <2>2. o.v[2] \in Byte /\ o.v[4] \in Seq(Byte)  BY <1>4 DEF IsOption
  <2> QED BY <2>1, <2>2, SubnetEncodes
<1>5. CASE o.code = EDNS0EXPIRE
  <2> DEFINE a == IF o.v = <<>> THEN <<>> ELSE BE(o.v[1], 4)
  <2>1. EDNS0_pack(o) = Good(a, 0)  BY <1>5 DEF EDNS0_pack, EXPIRE_pack
  <2>2. IsSeq(a)  BY <1>e, BEFacts
  <2> HIDE DEF a
  <2> QED BY <2>1, <2>2 DEF Encoding
<1>6. CASE o.code = EDNS0TCPKEEPALIVE
  <2> DEFINE a == IF o.v[1] > 0 THEN BE(o.v[1], 2) ELSE <<>>
  <2>1. EDNS0_pack(o) = Good(a, 0)  BY <1>6 DEF EDNS0_pack, TCP_KEEPALIVE_pack
  <2>2. IsSeq(a)  BY <1>e, BEFacts
  <2> HIDE DEF a
  <2> QED BY <2>1, <2>2 DEF Encoding
<1>7. CASE o.code = EDNS0EDE
  <2> DEFINE a == BE(o.v[1], 2)
  <2>1. EDNS0_pack(o) = Good(a \o o.v[2], 0)  BY <1>7 DEF EDNS0_pack, EDE_pack
  <2>2. IsSeq(a)  BY BEFacts
  <2>3. IsSeq(o.v[2])  BY <1>7, SeqIsSeq DEF IsOption
  <2> HIDE DEF a
  <2>4. IsSeq(a \o o.v[2])  BY <2>2, <2>3, Cat
  <2> QED BY <2>1, <2>4 DEF Encoding
<1>8. CASE o.code = EDNS0REPORTING
  <2>1. EDNS0_pack(o) = REPORTING_pack(o.v)  BY <1>8 DEF EDNS0_pack
  <2>2. IsNameField(o.v)  BY <1>8 DEF IsOption
  <2> QED BY <2>1, <2>2, ReportingEncodes
<1>9. CASE o.code = EDNS0ZONEVERSION
  <2> DEFINE a == <<o.v[1], o.v[2]>>
  <2>1. EDNS0_pack(o) = Good(a \o o.v[3], 0)  BY <1>9 DEF EDNS0_pack, ZONEVERSION_pack
  <2>2. IsSeq(a)  BY DEF IsSeq
  <2>3. IsSeq(o.v[3])  BY <1>9, SeqIsSeq DEF IsOption
  <2> HIDE DEF a
  <2>4. IsSeq(a \o o.v[3])  BY <2>2, <2>3, Cat
  <2> QED BY <2>1, <2>4 DEF Encoding
<1>10. CASE o.code \notin {1, 2, 3, 8, 9, 10, 11, 15, 18, 19}
  <2>1. EDNS0_pack(o) = Good(o.v, 0)  BY <1>10 DEF EDNS0_pack
  <2>2. o.v \in Seq(Byte)  BY <1>10 DEF IsOption
  <2>3. IsSeq(o.v)  BY <2>2, SeqIsSeq
  <2> QED BY <2>1, <2>3 DEF Encoding
<1> QED BY <1>1, <1>2, <1>3, <1>4, <1>5, <1>6, <1>7, <1>8, <1>9, <1>10

\* The length of an OPT record covers its options.
LEMMA OptionsFit ==
  ASSUME NEW v, IsSeq(v), \A i \in 1..Len(v) : IsOption(v[i])
  PROVE  Fits(packDataOpt(v), Total([i \in 1..Len(v) |-> 4 + Len(EDNS0_pack(v[i]).v)]))
<1> DEFINE es == [i \in 1..Len(v) |-> Tagged(v[i].code, EDNS0_pack(v[i]))]
           d == [i \in 1..Len(v) |-> 4 + Len(EDNS0_pack(v[i]).v)]
<1>1. Len(v) \in Nat  BY DEF IsSeq
<1>2. es = [i \in 1..Len(v) |-> es[i]] /\ d = [i \in 1..Len(v) |-> d[i]]  OBVIOUS
<1>3. ASSUME NEW i \in 1..Len(v) PROVE Fits(es[i], d[i])
  <2>1. es[i] = Tagged(v[i].code, EDNS0_pack(v[i])) /\ d[i] = 4 + Len(EDNS0_pack(v[i]).v)  OBVIOUS
  <2> HIDE DEF es, d
  <2> DEFINE e == EDNS0_pack(v[i])
             n == Len(e.v)
  <2>2. Encoding(e)  BY OptionEncodes
  <2> HIDE DEF e
  <2>3. n \in Nat  BY <2>2, EncodingFacts
  <2>4. Len(e.v) <= n  BY <2>3
  <2>5. Fits(Tagged(v[i].code, e), 4 + n)
    <3> HIDE DEF n
    <3> QED BY <2>2, <2>3, <2>4, TaggedFits
  <2> QED BY <2>1, <2>5 DEF e
<1>4. packDataOpt(v) = Joined(es)  BY DEF packDataOpt
<1> HIDE DEF es, d
<1>5. IsSeq(es) /\ Len(es) = Len(v) /\ IsSeq(d) /\ Len(d) = Len(v)  BY <1>1, <1>2, FunctionIsSeq
<1>6. Fits(Joined(es), Total(d))  BY <1>3, <1>5, JoinedFits
<1> QED BY <1>4, <1>6 DEF d

-----------------------------------------------------------------------------
(* SVCB parameters, packed in the order of their keys.                     *)

\* There are as many cells as the sum says.
LEMMA CellCount ==
  ASSUME NEW n \in Nat, NEW d, \A i \in 1..n : d[i] \in Nat, NEW f, IsSum(f, d, n)
  PROVE  IsFiniteSet(Cells(d, n)) /\ Cardinality(Cells(d, n)) = f[n]
<1> DEFINE S == {k \in 0..n : IsFiniteSet(Cells(d, k)) /\ Cardinality(Cells(d, k)) = f[k]}
<1>1. 0 \in S
  <2>1. Cells(d, 0) = {}  BY DEF Cells
  <2>2. f[0] = 0  BY DEF IsSum
  <2> QED BY <2>1, <2>2, FS_EmptySet
<1>2. ASSUME NEW k \in 1..n, k - 1 \in S PROVE k \in S
  <2>1. IsFiniteSet(Cells(d, k - 1)) /\ Cardinality(Cells(d, k - 1)) = f[k - 1]  BY <1>2
  <2> DEFINE A == Cells(d, k - 1)
             r == d[k]
             B == {k} \X (1..r)
  <2>2. r \in Nat  OBVIOUS
  <2>3. Cells(d, k) = A \cup B
    <3>1. ASSUME NEW c \in Cells(d, k) PROVE c \in A \cup B
      <4>1. c \in (1..k) \X Nat /\ c[2] \in 1..d[c[1]]  BY DEF Cells
      <4>2. CASE c[1] = k  BY <4>1, <4>2
      <4>3. CASE c[1] # k
        <5>1. c[1] \in 1..(k - 1)  BY <4>1, <4>3
        <5>2. c \in (1..(k - 1)) \X Nat  BY <4>1, <5>1
        <5> QED BY <4>1, <5>2 DEF Cells
      <4> QED BY <4>2, <4>3
    <3>2. ASSUME NEW c \in A PROVE c \in Cells(d, k)  BY DEF Cells
    <3>3. ASSUME NEW c \in B PROVE c \in Cells(d, k)  BY <2>2 DEF Cells
    <3> HIDE DEF A, B
    <3> QED BY <3>1, <3>2, <3>3
  <2>4. IsFiniteSet(B) /\ Cardinality(B) = r
    <3>1. IsFiniteSet({k}) /\ Cardinality({k}) = 1  BY FS_Singleton
    <3>2. IsFiniteSet(1..r) /\ Cardinality(1..r) = r
      <4>1. r \in Int /\ 1 \in Int  BY <2>2
      <4> HIDE DEF r
      <4>2. IsFiniteSet(1..r) /\ Cardinality(1..r) = IF 1 > r THEN 0 ELSE r - 1 + 1  BY <4>1, FS_Interval
      <4> QED BY <2>2, <4>2
    <3> HIDE DEF r
    <3>3. IsFiniteSet(B) /\ Cardinality(B) = Cardinality({k}) * Cardinality(1..r)  BY <3>1, <3>2, FS_Product
    <3>4. Cardinality({k}) * Cardinality(1..r) = r  BY <2>2, <3>1, <3>2
    <3> QED BY <3>3, <3>4
  <2>5. A \cap B = {}  BY DEF Cells
  <2> HIDE DEF A, B
  <2>6. IsFiniteSet(A \cup B) /\ Cardinality(A \cup B) = Cardinality(A) + Cardinality(B) - Cardinality(A \cap B)
    BY <2>1, <2>4, FS_Union DEF A
  <2>7. Cardinality(A \cap B) = 0  BY <2>5, FS_EmptySet
  <2>8. k \in 0..n /\ f[k] = f[k - 1] + r /\ f[k - 1] \in Nat  BY DEF IsSum
  <2>9. Cardinality(A) = f[k - 1]  BY <2>1 DEF A
  <2>10. Cardinality(A \cup B) = f[k]
    <3> HIDE DEF r
    <3> QED BY <2>2, <2>4, <2>6, <2>7, <2>8, <2>9
  <2> QED BY <2>3, <2>6, <2>8, <2>10
<1>3. \A k \in 0..n : k \in S
  <2> HIDE DEF S
  <2> QED BY <1>1, <1>2, UpTo
<1>4. n \in S
  <2> HIDE DEF S
  <2> QED BY <1>3
<1> QED BY <1>4

\* What an injection is.
LEMMA Injects ==
  ASSUME NEW S, NEW T, NEW f
  PROVE  f \in Injection(S, T) <=> f \in [S -> T] /\ \A a, b \in S : f[a] = f[b] => a = b
BY DEF Injection, IsInjective

\* The total does not depend on the order.
LEMMA ShuffledTotal ==
  ASSUME NEW n \in Nat, NEW d, NEW e, IsSeq(d), IsSeq(e), Len(d) = n, Len(e) = n, \A i \in 1..n : d[i] \in Nat,
         NEW P, P \in Injection(1..n, 1..n), \A k \in 1..n : e[k] = d[P[k]]
  PROVE  Total(e) \in Nat /\ Total(d) \in Nat /\ Total(e) <= Total(d)
<1>1. \A k \in 1..n : P[k] \in 1..n  BY Injects
<1>2. \A k \in 1..n : e[k] \in Nat  BY <1>1
<1>3. PICK f : IsSum(f, d, n)  BY SumExists
<1>4. PICK g : IsSum(g, e, n)  BY <1>2, SumExists
<1>5. Total(d) = f[n] /\ Total(e) = g[n]  BY <1>3, <1>4, TotalIsSum
<1>6. IsFiniteSet(Cells(d, n)) /\ Cardinality(Cells(d, n)) = f[n]  BY <1>3, CellCount
<1>7. IsFiniteSet(Cells(e, n)) /\ Cardinality(Cells(e, n)) = g[n]  BY <1>2, <1>4, CellCount
<1> DEFINE h == [c \in Cells(e, n) |-> <<P[c[1]], c[2]>>]
<1>8. h \in Injection(Cells(e, n), Cells(d, n))
  <2>1. ASSUME NEW c \in Cells(e, n) PROVE h[c] \in Cells(d, n)  BY <1>1 DEF Cells
  <2>2. ASSUME NEW a \in Cells(e, n), NEW b \in Cells(e, n), h[a] = h[b] PROVE a = b
    <3>1. h[a] = <<P[a[1]], a[2]>> /\ h[b] = <<P[b[1]], b[2]>>  OBVIOUS
    <3>2. P[a[1]] = P[b[1]] /\ a[2] = b[2]
      <4> DEFINE x == P[a[1]]
                 y == P[b[1]]
      <4>1. h[a] = <<x, a[2]>> /\ h[b] = <<y, b[2]>> /\ h[a] = h[b]  BY <2>2, <3>1
      <4> HIDE DEF h, x, y
      <4>2. <<x, a[2]>> = <<y, b[2]>>  BY <4>1
      <4>3. x = y /\ a[2] = b[2]  BY <4>2
      <4> QED BY <4>3 DEF x, y
    <3>3. a \in (1..n) \X Nat /\ b \in (1..n) \X Nat  BY DEF Cells
    <3>4. a[1] = b[1]  BY <3>2, <3>3, Injects
    <3> HIDE DEF h
    <3> QED BY <3>2, <3>3, <3>4
  <2>3. h \in [Cells(e, n) -> Cells(d, n)]  BY <2>1
  <2> HIDE DEF h
  <2> QED BY <2>2, <2>3, Injects
<1> HIDE DEF h
<1>9. Cardinality(Cells(e, n)) <= Cardinality(Cells(d, n))  BY <1>6, <1>8, FS_Injection
<1>10. f[n] \in Nat /\ g[n] \in Nat  BY <1>3, <1>4 DEF IsSum
<1> QED BY <1>5, <1>6, <1>7, <1>9, <1>10

\* Sorted moves the elements and keeps each.
LEMMA SortedMoves ==
  ASSUME NEW s, IsSeq(s), NEW keys, \A i \in 1..Len(s) : keys[i] \in Int
  PROVE  /\ IsSeq(Sorted(s, keys)) /\ Len(Sorted(s, keys)) = Len(s)
         /\ \E P \in Injection(1..Len(s), 1..Len(s)) : \A k \in 1..Len(s) : Sorted(s, keys)[k] = s[P[k]]
<1> DEFINE n == Len(s)
           Before(j, i) == keys[j] < keys[i] \/ (keys[j] = keys[i] /\ j < i)
           Ahead(i) == {j \in 1..n : Before(j, i)}
           R == [i \in 1..n |-> 1 + Cardinality(Ahead(i))]
           P == [k \in 1..n |-> CHOOSE i \in 1..n : R[i] = k]
<1>1. n \in Nat  BY DEF IsSeq
<1>2. IsFiniteSet(1..n) /\ Cardinality(1..n) = n
  <2>1. 1 \in Int /\ n \in Int  BY <1>1
  <2> HIDE DEF n
  <2>2. IsFiniteSet(1..n) /\ Cardinality(1..n) = IF 1 > n THEN 0 ELSE n - 1 + 1  BY <2>1, FS_Interval
  <2> QED BY <1>1, <2>2
<1>3. ASSUME NEW i \in 1..n PROVE IsFiniteSet(Ahead(i)) /\ Cardinality(Ahead(i)) \in Nat /\ Cardinality(Ahead(i)) < n
  <2>1. Ahead(i) \subseteq 1..n /\ i \notin Ahead(i)  OBVIOUS
  <2>2. Ahead(i) # 1..n
    <3> HIDE DEF Ahead
    <3> QED BY <2>1
  <2> HIDE DEF Ahead
  <2>3. IsFiniteSet(Ahead(i)) /\ Cardinality(Ahead(i)) <= Cardinality(1..n)
        /\ (Cardinality(1..n) = Cardinality(Ahead(i)) => 1..n = Ahead(i))
    BY <1>2, <2>1, FS_Subset
  <2>4. Cardinality(Ahead(i)) \in Nat  BY <2>3, FS_CardinalityType
  <2> HIDE DEF n
  <2> QED BY <1>1, <1>2, <2>2, <2>3, <2>4
<1>4. ASSUME NEW i \in 1..n, NEW j \in 1..n, Before(i, j) PROVE Cardinality(Ahead(i)) < Cardinality(Ahead(j))
  <2>1. ASSUME NEW k \in Ahead(i) PROVE k \in Ahead(j)
    <3>1. k \in 1..n /\ Before(k, i)  OBVIOUS
    <3>2. keys[i] \in Int /\ keys[j] \in Int /\ keys[k] \in Int  BY <3>1
    <3>3. Before(k, j)
      <4> HIDE DEF n
      <4> QED BY <1>1, <1>4, <3>1, <3>2
    <3> QED BY <3>1, <3>3
  <2>2. i \in Ahead(j) /\ i \notin Ahead(i)
    <3>1. i \in Ahead(j)  BY <1>4
    <3>2. ~ Before(i, i)
      <4>1. keys[i] \in Int  OBVIOUS
      <4> HIDE DEF n
      <4> QED BY <1>1, <4>1
    <3> QED BY <3>1, <3>2
  <2>3. IsFiniteSet(Ahead(j)) /\ Cardinality(Ahead(i)) \in Nat /\ Cardinality(Ahead(j)) \in Nat  BY <1>3
  <2> HIDE DEF Ahead
  <2>4. Ahead(i) \subseteq Ahead(j) /\ Ahead(i) # Ahead(j)  BY <2>1, <2>2
  <2>5. Cardinality(Ahead(i)) <= Cardinality(Ahead(j)) /\ Cardinality(Ahead(j)) # Cardinality(Ahead(i))
    BY <2>3, <2>4, FS_Subset
  <2> QED BY <2>3, <2>5
<1>5. \A i, j \in 1..n : i # j => Before(i, j) \/ Before(j, i)
  <2> SUFFICES ASSUME NEW i \in 1..n, NEW j \in 1..n, i # j PROVE Before(i, j) \/ Before(j, i)  OBVIOUS
  <2>1. keys[i] \in Int /\ keys[j] \in Int  OBVIOUS
  <2> HIDE DEF n
  <2> QED BY <1>1, <2>1
<1> HIDE DEF Ahead, Before
<1>6. R \in Injection(1..n, 1..n)
  <2>1. ASSUME NEW i \in 1..n PROVE R[i] \in 1..n
    <3>1. R[i] = 1 + Cardinality(Ahead(i))  OBVIOUS
    <3> HIDE DEF R, n
    <3> QED BY <1>1, <1>3, <3>1
  <2>2. ASSUME NEW i \in 1..n, NEW j \in 1..n, R[i] = R[j] PROVE i = j
    <3>1. R[i] = 1 + Cardinality(Ahead(i)) /\ R[j] = 1 + Cardinality(Ahead(j))  OBVIOUS
    <3>2. Cardinality(Ahead(i)) \in Nat /\ Cardinality(Ahead(j)) \in Nat  BY <1>3
    <3>3. Cardinality(Ahead(i)) = Cardinality(Ahead(j))
      <4> DEFINE x == Cardinality(Ahead(i))
                 y == Cardinality(Ahead(j))
      <4>1. 1 + x = 1 + y /\ x \in Nat /\ y \in Nat  BY <2>2, <3>1, <3>2
      <4> HIDE DEF x, y
      <4>2. x = y  BY <4>1
      <4> QED BY <4>2 DEF x, y
    <3> HIDE DEF R, n
    <3> QED BY <1>4, <1>5, <3>2, <3>3
  <2>3. R \in [1..n -> 1..n]  BY <2>1
  <2> HIDE DEF R, n
  <2> QED BY <2>2, <2>3, Injects
<1>7. R \in Surjection(1..n, 1..n)
  <2> HIDE DEF R, n
  <2> QED BY <1>2, <1>6, FS_Injection
<1>8. ASSUME NEW k \in 1..n PROVE P[k] \in 1..n /\ R[P[k]] = k
  <2>1. \E i \in 1..n : R[i] = k
    <3> HIDE DEF R, n
    <3> QED BY <1>7 DEF Surjection
  <2> HIDE DEF R, n
  <2> QED BY <2>1
<1>9. P \in Injection(1..n, 1..n)
  <2>1. P \in [1..n -> 1..n]  BY <1>8
  <2>2. ASSUME NEW a \in 1..n, NEW b \in 1..n, P[a] = P[b] PROVE a = b
    <3> HIDE DEF P, n, R
    <3>1. R[P[a]] = a /\ R[P[b]] = b  BY <1>8
    <3> QED BY <2>2, <3>1
  <2> HIDE DEF P, n, R
  <2> QED BY <2>1, <2>2, Injects
<1> DEFINE t == Sorted(s, keys)
<1>10. t = [k \in 1..n |-> s[CHOOSE i \in 1..n : 1 + Cardinality(Ahead(i)) = k]]  BY DEF Sorted, Ahead, Before
<1>11. t = [k \in 1..n |-> t[k]]
  <2> HIDE DEF n, t
  <2> QED BY <1>10
<1>12. ASSUME NEW k \in 1..n PROVE t[k] = s[P[k]]
  <2>1. t[k] = s[CHOOSE i \in 1..n : 1 + Cardinality(Ahead(i)) = k]
    <3> HIDE DEF n, t
    <3> QED BY <1>10
  <2>2. \A i \in 1..n : (R[i] = k) <=> (1 + Cardinality(Ahead(i)) = k)  OBVIOUS
  <2>3. P[k] = CHOOSE i \in 1..n : R[i] = k  OBVIOUS
  <2>4. (CHOOSE i \in 1..n : R[i] = k) = (CHOOSE i \in 1..n : 1 + Cardinality(Ahead(i)) = k)
    <3> HIDE DEF R, n
    <3> QED BY <2>2
  <2> HIDE DEF P, R, n, t
  <2> QED BY <2>1, <2>3, <2>4
<1> HIDE DEF t, P, R
<1>13. IsSeq(t) /\ Len(t) = n  BY <1>1, <1>11, FunctionIsSeq
<1> QED BY <1>9, <1>12, <1>13 DEF t

\* A sequence of encodings is one.
LEMMA JoinedEncodes ==
  ASSUME NEW es, NEW n, Fits(Joined(es), n)
  PROVE  Encoding(Joined(es))
<1> DEFINE o == FlattenSeq([i \in 1..Len(es) |-> es[i].v])
<1>1. Joined(es) = Bad \/ Joined(es) = Good(o, 0)  BY DEF Joined
<1> HIDE DEF o
<1>2. Joined(es) = Good(o, 0) => IsSeq(o)  BY DEF Fits, Good
<1> QED BY <1>1, <1>2 DEF Encoding

\* A parameter that is a sequence of parts fits.
LEMMA FlatPair ==
  ASSUME NEW e, NEW es, IsSeq(es), NEW d, IsSeq(d), Len(d) = Len(es),
         \A i \in 1..Len(es) : IsSeq(es[i]) /\ d[i] \in Nat /\ Len(es[i]) <= d[i],
         SVCB_pack(e) = Good(FlattenSeq(es), 0), SVCB_len(e) = Total(d)
  PROVE  PairFits(e)
<1> DEFINE o == FlattenSeq(es)
<1>1. IsSeq(o) /\ Total(d) \in Nat /\ Len(o) <= Total(d)  BY FlatFits
<1> HIDE DEF o
<1>2. SVCB_pack(e) = Good(o, 0)  BY DEF o
<1>3. SVCB_pack(e).v = o  BY <1>2 DEF Good
<1>4. Len(SVCB_pack(e).v) <= SVCB_len(e) /\ SVCB_len(e) \in Nat  BY <1>1, <1>3
<1>5. Encoding(SVCB_pack(e))  BY <1>1, <1>2 DEF Encoding
<1> QED BY <1>4, <1>5 DEF PairFits

\* A parameter that does not pack fits.
LEMMA BadPair ==
  ASSUME NEW e, SVCB_pack(e) = Bad, SVCB_len(e) \in Nat
  PROVE  PairFits(e)
BY DEF PairFits, Encoding, Bad

\* So does one of which the length is counted exactly.
LEMMA GoodPair ==
  ASSUME NEW e, NEW o, IsSeq(o), SVCB_pack(e) = Good(o, 0), SVCB_len(e) = Len(o)
  PROVE  PairFits(e)
<1>1. Len(o) \in Nat /\ Len(o) <= Len(o)  BY DEF IsSeq
<1>3. SVCB_pack(e).v = o  BY DEF Good
<1>4. Len(SVCB_pack(e).v) <= SVCB_len(e) /\ SVCB_len(e) \in Nat  BY <1>1, <1>3
<1>5. Encoding(SVCB_pack(e))  BY DEF Encoding
<1> QED BY <1>4, <1>5 DEF PairFits

\* The parameter mandatory fits.
LEMMA MandatoryFits ==
  ASSUME NEW e, e.key = SVCB_MANDATORY, IsSeq(e.v)
  PROVE  PairFits(e)
<1> USE DEF SVCB_MANDATORY, SVCB_ALPN, SVCB_NO_DEFAULT_ALPN, SVCB_PORT, SVCB_IPV4HINT, SVCB_IPV6HINT, SVCB_OHTTP
<1> DEFINE v == e.v
           t == Sorted(v, v)
           es == [i \in 1..Len(v) |-> Good(BE(t[i], 2), 0)]
           d == [i \in 1..Len(v) |-> 2]
<1>1. Len(v) \in Nat  BY DEF IsSeq
<1>2. SVCB_pack(e) = Joined(es) /\ SVCB_len(e) = 2 * Len(v)  BY DEF SVCB_pack, SVCB_len, Mandatory_pack
<1> HIDE DEF t
<1>3. es = [i \in 1..Len(v) |-> es[i]] /\ d = [i \in 1..Len(v) |-> d[i]]  OBVIOUS
<1>4. ASSUME NEW i \in 1..Len(v) PROVE Fits(es[i], d[i])
  <2>1. es[i] = Good(BE(t[i], 2), 0) /\ d[i] = 2  OBVIOUS
  <2> HIDE DEF es, d
  <2>2. IsSeq(BE(t[i], 2)) /\ Len(BE(t[i], 2)) = 2  BY BEFacts
  <2> DEFINE x == BE(t[i], 2)
  <2>3. es[i].v = x /\ IsSeq(x) /\ Len(x) = 2  BY <2>1, <2>2 DEF Good
  <2> HIDE DEF x
  <2>4. IsSeq(es[i].v) /\ Len(es[i].v) = d[i]  BY <2>1, <2>3, Zenon
  <2>5. d[i] \in Nat  BY <2>1
  <2> QED BY <2>4, <2>5 DEF Fits
<1>5. Total(d) = 2 * Len(v)  BY <1>1, ConstTotal
<1> HIDE DEF es, d, v
<1>6. IsSeq(es) /\ Len(es) = Len(v) /\ IsSeq(d) /\ Len(d) = Len(v)  BY <1>1, <1>3, FunctionIsSeq
<1>7. Fits(Joined(es), Total(d))  BY <1>4, <1>6, JoinedFits
<1>8. Encoding(Joined(es))  BY <1>7, JoinedEncodes
<1> QED BY <1>2, <1>5, <1>7, <1>8 DEF PairFits, Fits

\* The parameter alpn fits.
LEMMA AlpnFits ==
  ASSUME NEW e, e.key = SVCB_ALPN, IsSeq(e.v), \A i \in 1..Len(e.v) : IsSeq(e.v[i])
  PROVE  PairFits(e)
<1> USE DEF SVCB_MANDATORY, SVCB_ALPN, SVCB_NO_DEFAULT_ALPN, SVCB_PORT, SVCB_IPV4HINT, SVCB_IPV6HINT, SVCB_OHTTP
<1> DEFINE v == e.v
           es == [i \in 1..Len(v) |-> <<Len(v[i])>> \o v[i]]
           d == [i \in 1..Len(v) |-> 1 + Len(v[i])]
<1>1. Len(v) \in Nat  BY DEF IsSeq
<1>2. SVCB_pack(e) \in {Bad, Good(FlattenSeq(es), 0)} /\ SVCB_len(e) = Total(d)
  BY DEF SVCB_pack, SVCB_len, Alpn_pack
<1>3. es = [i \in 1..Len(v) |-> es[i]] /\ d = [i \in 1..Len(v) |-> d[i]]  OBVIOUS
<1>4. ASSUME NEW i \in 1..Len(v) PROVE IsSeq(es[i]) /\ d[i] \in Nat /\ Len(es[i]) <= d[i]
  <2> DEFINE x == v[i]
             a == <<Len(x)>>
  <2>1. es[i] = a \o x /\ d[i] = 1 + Len(x)  OBVIOUS
  <2>2. IsSeq(x)  OBVIOUS
  <2> HIDE DEF es, d, x
  <2>3. IsSeq(a) /\ Len(a) = 1  BY One
  <2> HIDE DEF a
  <2>4. IsSeq(a \o x) /\ Len(a \o x) = Len(a) + Len(x) /\ Len(x) \in Nat  BY <2>2, <2>3, Cat
  <2> QED BY <2>1, <2>3, <2>4
<1> HIDE DEF es, d, v
<1>5. IsSeq(es) /\ Len(es) = Len(v) /\ IsSeq(d) /\ Len(d) = Len(v)  BY <1>1, <1>3, FunctionIsSeq
<1>6. Total(d) \in Nat  BY <1>4, <1>5, FlatFits
<1>7. CASE SVCB_pack(e) = Bad  BY <1>2, <1>6, <1>7, BadPair
<1>8. CASE SVCB_pack(e) = Good(FlattenSeq(es), 0)  BY <1>2, <1>4, <1>5, <1>8, FlatPair
<1> QED BY <1>2, <1>7, <1>8

\* The hints of addresses fit.
LEMMA HintFits ==
  ASSUME NEW e, e.key \in {SVCB_IPV4HINT, SVCB_IPV6HINT}, IsSeq(e.v), \A i \in 1..Len(e.v) : IsSeq(e.v[i])
  PROVE  PairFits(e)
<1> USE DEF SVCB_MANDATORY, SVCB_ALPN, SVCB_NO_DEFAULT_ALPN, SVCB_PORT, SVCB_IPV4HINT, SVCB_IPV6HINT, SVCB_OHTTP
<1> DEFINE v == e.v
           es == [i \in 1..Len(v) |-> To4(v[i])]
           d == [i \in 1..Len(v) |-> 4]
           d6 == [i \in 1..Len(v) |-> 16]
<1>1. Len(v) \in Nat  BY DEF IsSeq
<1>2. es = [i \in 1..Len(v) |-> es[i]] /\ d = [i \in 1..Len(v) |-> d[i]] /\ d6 = [i \in 1..Len(v) |-> d6[i]]
  OBVIOUS
<1>3. \A i \in 1..Len(v) : es[i] = To4(v[i]) /\ d[i] = 4 /\ d6[i] = 16  OBVIOUS
<1>4. Total(d) = 4 * Len(v) /\ Total(d6) = 16 * Len(v)  BY <1>1, ConstTotal
<1>5. 4 * Len(v) \in Nat /\ 16 * Len(v) \in Nat  BY <1>1
<1>6. e.key = 4 => /\ SVCB_pack(e) = IF \E i \in 1..Len(v) : To4(v[i]) = <<>> THEN Bad ELSE Good(FlattenSeq(es), 0)
                   /\ SVCB_len(e) = 4 * Len(v)
  BY DEF SVCB_pack, SVCB_len, IPv4Hint_pack
<1>7. e.key = 6 => /\ SVCB_pack(e) = IF \E i \in 1..Len(v) : Len(v[i]) # IPv6len \/ To4(v[i]) # <<>> THEN Bad ELSE Good(FlattenSeq(v), 0)
                   /\ SVCB_len(e) = 16 * Len(v)
  BY DEF SVCB_pack, SVCB_len, IPv6Hint_pack
<1>8. IsSeq(v) /\ \A i \in 1..Len(v) : IsSeq(v[i])  OBVIOUS
<1> HIDE DEF es, d, d6, v
<1>9. IsSeq(es) /\ Len(es) = Len(v) /\ IsSeq(d) /\ Len(d) = Len(v) /\ IsSeq(d6) /\ Len(d6) = Len(v)
  BY <1>1, <1>2, FunctionIsSeq
<1>10. CASE e.key = 4 /\ \E i \in 1..Len(v) : To4(v[i]) = <<>>  BY <1>5, <1>6, <1>10, BadPair
<1>11. CASE e.key = 4 /\ ~ \E i \in 1..Len(v) : To4(v[i]) = <<>>
  <2>1. \A i \in 1..Len(es) : IsSeq(es[i]) /\ d[i] \in Nat /\ Len(es[i]) <= d[i]
    <3> SUFFICES ASSUME NEW i \in 1..Len(es) PROVE IsSeq(es[i]) /\ d[i] \in Nat /\ Len(es[i]) <= d[i]  OBVIOUS
    <3>1. i \in 1..Len(v)  BY <1>9
    <3>2. IsSeq(To4(v[i])) /\ Len(To4(v[i])) = 4  BY <1>8, <1>11, <3>1, To4Facts
    <3>3. es[i] = To4(v[i]) /\ d[i] = 4  BY <1>3, <3>1
    <3> DEFINE x == To4(v[i])
    <3>4. IsSeq(x) /\ Len(x) = 4 /\ es[i] = x  BY <3>2, <3>3
    <3> HIDE DEF x
    <3>5. IsSeq(es[i]) /\ Len(es[i]) = d[i]  BY <3>3, <3>4, Zenon
    <3>6. d[i] \in Nat  BY <3>3
    <3> QED BY <3>5, <3>6
  <2>2. SVCB_pack(e) = Good(FlattenSeq(es), 0) /\ SVCB_len(e) = Total(d)  BY <1>4, <1>6, <1>11
  <2>3. Len(d) = Len(es)  BY <1>9
  <2> QED BY <1>9, <2>1, <2>2, <2>3, FlatPair
<1>12. CASE e.key = 6 /\ \E i \in 1..Len(v) : Len(v[i]) # IPv6len \/ To4(v[i]) # <<>>
  BY <1>5, <1>7, <1>12, BadPair
<1>13. CASE e.key = 6 /\ ~ \E i \in 1..Len(v) : Len(v[i]) # IPv6len \/ To4(v[i]) # <<>>
  <2>1. \A i \in 1..Len(v) : IsSeq(v[i]) /\ d6[i] \in Nat /\ Len(v[i]) <= d6[i]
    <3> SUFFICES ASSUME NEW i \in 1..Len(v) PROVE IsSeq(v[i]) /\ d6[i] \in Nat /\ Len(v[i]) <= d6[i]  OBVIOUS
    <3>1. Len(v[i]) = 16 /\ d6[i] = 16  BY <1>3, <1>13 DEF IPv6len
    <3> QED BY <1>8, <3>1
  <2>2. SVCB_pack(e) = Good(FlattenSeq(v), 0) /\ SVCB_len(e) = Total(d6)  BY <1>4, <1>7, <1>13
  <2> QED BY <1>8, <1>9, <2>1, <2>2, FlatPair
<1> QED BY <1>10, <1>11, <1>12, <1>13

\* Every parameter fits.
LEMMA PairsFit ==
  ASSUME NEW e, IsPair(e)
  PROVE  PairFits(e)
<1> USE DEF SVCB_MANDATORY, SVCB_ALPN, SVCB_NO_DEFAULT_ALPN, SVCB_PORT, SVCB_IPV4HINT, SVCB_IPV6HINT, SVCB_OHTTP
<1>1. CASE e.key = SVCB_MANDATORY
  <2>1. e.v \in Seq(0..svcb_RESERVED)  BY <1>1 DEF IsPair
  <2>2. IsSeq(e.v)  BY <2>1, SeqIsSeq
  <2> QED BY <1>1, <2>2, MandatoryFits
<1>2. CASE e.key \in {SVCB_ALPN, SVCB_IPV4HINT, SVCB_IPV6HINT}
  <2>1. e.v \in Seq(Seq(Byte))  BY <1>2 DEF IsPair
  <2>2. IsSeq(e.v) /\ \A i \in 1..Len(e.v) : e.v[i] \in Seq(Byte)  BY <2>1, SeqIsSeq
  <2>3. \A i \in 1..Len(e.v) : IsSeq(e.v[i])  BY <2>2, SeqIsSeq
  <2> QED BY <1>2, <2>2, <2>3, AlpnFits, HintFits
<1>3. CASE e.key = SVCB_PORT
  <2> DEFINE o == BE(e.v[1], 2)
  <2>1. SVCB_pack(e) = Good(o, 0) /\ SVCB_len(e) = 2  BY <1>3 DEF SVCB_pack, SVCB_len, Port_pack
  <2>2. IsSeq(o) /\ Len(o) = 2  BY BEFacts
  <2> HIDE DEF o
  <2>3. SVCB_len(e) = Len(o)  BY <2>1, <2>2
  <2> QED BY <2>1, <2>2, <2>3, GoodPair
<1>4. CASE e.key \in {SVCB_NO_DEFAULT_ALPN, SVCB_OHTTP}
  <2>1. SVCB_pack(e) = Good(<<>>, 0) /\ SVCB_len(e) = 0  BY <1>4 DEF SVCB_pack, SVCB_len
  <2>2. IsSeq(<<>>) /\ Len(<<>>) = 0  BY DEF IsSeq
  <2>3. SVCB_len(e) = Len(<<>>)  BY <2>1, <2>2
  <2> QED BY <2>1, <2>2, <2>3, GoodPair
<1>5. CASE e.key \notin {0, 1, 2, 3, 4, 6, 8}
  <2>1. SVCB_pack(e) = Good(e.v, 0) /\ SVCB_len(e) = Len(e.v)  BY <1>5 DEF SVCB_pack, SVCB_len
  <2>2. e.v \in Seq(Byte)  BY <1>5 DEF IsPair
  <2>3. IsSeq(e.v)  BY <2>2, SeqIsSeq
  <2> QED BY <2>1, <2>3, GoodPair
<1> QED BY <1>1, <1>2, <1>3, <1>4, <1>5

\* The length of an SVCB record covers its parameters, in the order they are packed.
LEMMA ParametersFit ==
  ASSUME NEW v, IsSeq(v), \A i \in 1..Len(v) : IsPair(v[i])
  PROVE  Fits(packDataSVCB(v), Total([i \in 1..Len(v) |-> 4 + SVCB_len(v[i])]))
<1> DEFINE keys == [i \in 1..Len(v) |-> v[i].key]
           s == Sorted(v, keys)
           es == [i \in 1..Len(s) |-> Tagged(s[i].key, SVCB_pack(s[i]))]
           d == [i \in 1..Len(v) |-> 4 + SVCB_len(v[i])]
           e == [i \in 1..Len(s) |-> 4 + SVCB_len(s[i])]
<1>1. Len(v) \in Nat  BY DEF IsSeq
<1>2. \A i \in 1..Len(v) : keys[i] \in Int  BY DEF IsPair
<1>3. packDataSVCB(v) = Bad \/ packDataSVCB(v) = Joined(es)  BY DEF packDataSVCB, ByKey
<1> HIDE DEF keys
<1>4. IsSeq(s) /\ Len(s) = Len(v)  BY <1>2, SortedMoves
<1>5. PICK P \in Injection(1..Len(v), 1..Len(v)) : \A k \in 1..Len(v) : s[k] = v[P[k]]  BY <1>2, SortedMoves
<1> HIDE DEF s
<1>6. \A k \in 1..Len(v) : P[k] \in 1..Len(v)  BY <1>5, Injects
<1>7. \A i \in 1..Len(v) : PairFits(v[i])  BY PairsFit
<1>8. \A i \in 1..Len(s) : PairFits(s[i])  BY <1>4, <1>5, <1>6, <1>7
<1>9. es = [i \in 1..Len(s) |-> es[i]] /\ d = [i \in 1..Len(v) |-> d[i]] /\ e = [i \in 1..Len(s) |-> e[i]]
  OBVIOUS
<1>10. /\ \A i \in 1..Len(s) : es[i] = Tagged(s[i].key, SVCB_pack(s[i])) /\ e[i] = 4 + SVCB_len(s[i])
       /\ \A i \in 1..Len(v) : d[i] = 4 + SVCB_len(v[i])
  OBVIOUS
<1> HIDE DEF es, d, e
<1>11. IsSeq(es) /\ Len(es) = Len(v) /\ IsSeq(d) /\ Len(d) = Len(v) /\ IsSeq(e) /\ Len(e) = Len(v)
  BY <1>1, <1>4, <1>9, FunctionIsSeq
<1>12. ASSUME NEW i \in 1..Len(v) PROVE Fits(es[i], e[i])
  <2> DEFINE x == SVCB_pack(s[i])
             n == SVCB_len(s[i])
  <2>1. i \in 1..Len(s)  BY <1>4
  <2>2. Encoding(x) /\ n \in Nat /\ (~x.err => Len(x.v) <= n)  BY <1>8, <2>1 DEF PairFits
  <2> HIDE DEF x, n
  <2>3. Fits(Tagged(s[i].key, x), 4 + n)  BY <2>2, TaggedFits
  <2> QED BY <1>10, <2>1, <2>3 DEF x, n
<1>13. \A i \in 1..Len(v) : d[i] \in Nat
  <2> SUFFICES ASSUME NEW i \in 1..Len(v) PROVE d[i] \in Nat  OBVIOUS
  <2>1. SVCB_len(v[i]) \in Nat /\ d[i] = 4 + SVCB_len(v[i])  BY <1>7, <1>10 DEF PairFits
  <2> QED BY <2>1
<1>14. \A k \in 1..Len(v) : e[k] = d[P[k]]
  <2> SUFFICES ASSUME NEW k \in 1..Len(v) PROVE e[k] = d[P[k]]  OBVIOUS
  <2>1. k \in 1..Len(s) /\ P[k] \in 1..Len(v) /\ s[k] = v[P[k]]  BY <1>4, <1>5, <1>6
  <2> QED BY <1>10, <2>1
<1>15. Fits(Joined(es), Total(e))  BY <1>11, <1>12, JoinedFits
<1>16. Total(e) \in Nat /\ Total(d) \in Nat /\ Total(e) <= Total(d)
  <2> DEFINE n == Len(v)
  <2>1. n \in Nat /\ IsSeq(d) /\ IsSeq(e) /\ Len(d) = n /\ Len(e) = n /\ P \in Injection(1..n, 1..n)
    BY <1>1, <1>5, <1>11
  <2>2. (\A i \in 1..n : d[i] \in Nat) /\ \A k \in 1..n : e[k] = d[P[k]]  BY <1>13, <1>14
  <2> HIDE DEF n
  <2> QED BY <2>1, <2>2, ShuffledTotal
<1>17. Fits(Joined(es), Total(d))
  <2> DEFINE o == Joined(es)
  <2>1. ~o.err => IsSeq(o.v) /\ Len(o.v) <= Total(e) /\ Len(o.v) \in Nat  BY <1>15 DEF Fits, IsSeq
  <2> HIDE DEF o
  <2>2. ~o.err => IsSeq(o.v) /\ Len(o.v) <= Total(d)  BY <1>16, <2>1
  <2> QED BY <1>16, <2>2 DEF Fits, o
<1>18. Fits(Bad, Total(d))  BY <1>16 DEF Fits, Bad
<1> QED BY <1>3, <1>17, <1>18 DEF d

-----------------------------------------------------------------------------
(* Fields.                                                                 *)

\* The kinds of fields that are numbers.
LEMMA UintNames == Uints = {"Uint8", "Uint16", "Uint32", "Uint48", "Uint64"} /\ \A k \in Uints : Width[k] \in Nat
BY DEF Uints, Width

\* Numbers of 16 bits are numbers.
LEMMA Uint16IsNat == \A x \in Uint16 : x \in Nat
BY DEF Uint16

\* The length of a list of strings covers it.
LEMMA StringsFit ==
  ASSUME NEW v, IsSeq(v), \A i \in 1..Len(v) : IsSeq(v[i])
  PROVE  Fits(Joined([i \in 1..Len(v) |-> packTxtString(v[i])]), Total([i \in 1..Len(v) |-> Len(v[i]) + 1]))
<1> DEFINE es == [i \in 1..Len(v) |-> packTxtString(v[i])]
           d == [i \in 1..Len(v) |-> Len(v[i]) + 1]
<1>1. Len(v) \in Nat  BY DEF IsSeq
<1>2. es = [i \in 1..Len(v) |-> es[i]] /\ d = [i \in 1..Len(v) |-> d[i]]  OBVIOUS
<1>3. \A i \in 1..Len(v) : es[i] = packTxtString(v[i]) /\ d[i] = Len(v[i]) + 1  OBVIOUS
<1> HIDE DEF es, d
<1>4. IsSeq(es) /\ Len(es) = Len(v) /\ IsSeq(d) /\ Len(d) = Len(v)  BY <1>1, <1>2, FunctionIsSeq
<1>5. ASSUME NEW i \in 1..Len(v) PROVE Fits(es[i], d[i])  BY <1>3, StringFits
<1>6. Fits(Joined(es), Total(d))  BY <1>4, <1>5, JoinedFits
<1> QED BY <1>6 DEF es, d

\* The length of a list of APL prefixes covers it.
LEMMA PrefixesFit ==
  ASSUME NEW v, IsSeq(v), \A i \in 1..Len(v) : IsSeq(v[i].ip) /\ v[i].prefix \in 0..(8 * Len(v[i].ip))
  PROVE  Fits(Joined([i \in 1..Len(v) |-> packDataAplPrefix(v[i])]), Total([i \in 1..Len(v) |-> AplPrefixLen(v[i])]))
<1> DEFINE es == [i \in 1..Len(v) |-> packDataAplPrefix(v[i])]
           d == [i \in 1..Len(v) |-> AplPrefixLen(v[i])]
<1>1. Len(v) \in Nat  BY DEF IsSeq
<1>2. es = [i \in 1..Len(v) |-> es[i]] /\ d = [i \in 1..Len(v) |-> d[i]]  OBVIOUS
<1>3. \A i \in 1..Len(v) : es[i] = packDataAplPrefix(v[i]) /\ d[i] = AplPrefixLen(v[i])  OBVIOUS
<1> HIDE DEF es, d
<1>4. IsSeq(es) /\ Len(es) = Len(v) /\ IsSeq(d) /\ Len(d) = Len(v)  BY <1>1, <1>2, FunctionIsSeq
<1>5. ASSUME NEW i \in 1..Len(v) PROVE Fits(es[i], d[i])  BY <1>3, PrefixFits
<1>6. Fits(Joined(es), Total(d))  BY <1>4, <1>5, JoinedFits
<1> QED BY <1>6 DEF es, d

\* The length of a field, as the generated len counts it, covers what pack writes.
LEMMA FieldFits ==
  ASSUME NEW kind \in PlainKinds, NEW v, IsValue(kind, v)
  PROVE  Fits(FieldOctets(kind, v), FieldLen(LenKind(kind), v))
<1>0. IsSeq(<<>>) /\ Len(<<>>) = 0  BY DEF IsSeq
<1> USE UintNames
<1>1. CASE kind \in Uints
  <2>1. FieldOctets(kind, v) = Good(BE(v, Width[kind]), 0)  BY <1>1 DEF FieldOctets
  <2>2. LenKind(kind) = kind  BY <1>1 DEF LenKind
  <2>3. FieldLen(kind, v) = Width[kind]  BY <1>1 DEF FieldLen
  <2> DEFINE n == Width[kind]
             o == BE(v, n)
  <2>4. n \in Nat  BY <1>1
  <2> HIDE DEF n
  <2>5. IsSeq(o) /\ Len(o) = n  BY <2>4, BEFacts
  <2> HIDE DEF o
  <2>6. FieldOctets(kind, v).v = o /\ FieldLen(LenKind(kind), v) = n  BY <2>1, <2>2, <2>3 DEF Good, n, o
  <2>7. Len(o) <= n  BY <2>4, <2>5
  <2> QED BY <2>4, <2>5, <2>6, <2>7 DEF Fits
<1>2. CASE kind = "StringTxt"
  <2>1. v \in Seq(Seq(Byte))  BY <1>2 DEF IsValue
  <2>2. IsSeq(v) /\ \A i \in 1..Len(v) : v[i] \in Seq(Byte)  BY <2>1, SeqIsSeq
  <2>3. \A i \in 1..Len(v) : IsSeq(v[i])  BY <2>2, SeqIsSeq
  <2>4. /\ FieldOctets(kind, v) = Joined([i \in 1..Len(v) |-> packTxtString(v[i])])
        /\ FieldLen(LenKind(kind), v) = Total([i \in 1..Len(v) |-> Len(v[i]) + 1])
    BY <1>2 DEF FieldOctets, FieldLen, LenKind
  <2> QED BY <2>2, <2>3, <2>4, StringsFit
<1>3. CASE kind = "DataNsec"
  <2>1. v \in Seq(Uint16)  BY <1>3 DEF IsValue
  <2>2. IsSeq(v) /\ \A i \in 1..Len(v) : v[i] \in Uint16  BY <2>1, SeqIsSeq
  <2>3. \A i \in 1..Len(v) : v[i] \in Nat  BY <2>2, Uint16IsNat
  <2>4. FieldOctets(kind, v) = packDataNsec(v) /\ FieldLen(LenKind(kind), v) = typeBitMapLen(v)
    BY <1>3 DEF FieldOctets, FieldLen, LenKind
  <2> QED BY <2>2, <2>3, <2>4, BitMapFits
<1>4. CASE kind = "DataOpt"
  <2>1. IsSeq(v) /\ \A i \in 1..Len(v) : IsOption(v[i])  BY <1>4 DEF IsValue
  <2>2. /\ FieldOctets(kind, v) = packDataOpt(v)
        /\ FieldLen(LenKind(kind), v) = Total([i \in 1..Len(v) |-> 4 + Len(EDNS0_pack(v[i]).v)])
    BY <1>4 DEF FieldOctets, FieldLen, LenKind
  <2> QED BY <2>1, <2>2, OptionsFit
<1>5. CASE kind = "DataSVCB"
  <2>1. IsSeq(v) /\ \A i \in 1..Len(v) : IsPair(v[i])  BY <1>5 DEF IsValue
  <2>2. /\ FieldOctets(kind, v) = packDataSVCB(v)
        /\ FieldLen(LenKind(kind), v) = Total([i \in 1..Len(v) |-> 4 + SVCB_len(v[i])])
    BY <1>5 DEF FieldOctets, FieldLen, LenKind
  <2> QED BY <2>1, <2>2, ParametersFit
<1>6. CASE kind = "DataApl"
  <2>1. IsSeq(v) /\ \A i \in 1..Len(v) : v[i].ip \in Seq(Byte) /\ v[i].prefix \in 0..(8 * Len(v[i].ip))
    BY <1>6 DEF IsValue
  <2>2. \A i \in 1..Len(v) : IsSeq(v[i].ip) /\ v[i].prefix \in 0..(8 * Len(v[i].ip))  BY <2>1, SeqIsSeq
  <2>3. /\ FieldOctets(kind, v) = Joined([i \in 1..Len(v) |-> packDataAplPrefix(v[i])])
        /\ FieldLen(LenKind(kind), v) = Total([i \in 1..Len(v) |-> AplPrefixLen(v[i])])
    BY <1>6 DEF FieldOctets, FieldLen, LenKind
  <2> QED BY <2>1, <2>2, <2>3, PrefixesFit
<1>7. CASE kind \in {"DataA", "DataAAAA", "String", "StringOctet", "StringAny", "StringHex", "StringHexSalt", "StringBase64"}
  <2>0. kind \notin Uints /\ kind \notin {"StringTxt", "DataNsec", "DataOpt", "DataSVCB", "DataApl"}  BY <1>7
  <2>1. v \in Seq(Byte)  BY <2>0 DEF IsValue
  <2>2. IsSeq(v) /\ Len(v) \in Nat  BY <2>1, SeqIsSeq DEF IsSeq
  <2>3. CASE kind = "DataA"
    <3>1. FieldOctets(kind, v) = packDataA(v) /\ FieldLen(LenKind(kind), v) = IF v = <<>> THEN 0 ELSE IPv4len
      BY <2>3 DEF FieldOctets, FieldLen, LenKind
    <3> QED BY <2>2, <3>1, Address4Fits
  <2>4. CASE kind = "DataAAAA"
    <3>1. FieldOctets(kind, v) = packDataAAAA(v) /\ FieldLen(LenKind(kind), v) = IF v = <<>> THEN 0 ELSE IPv6len
      BY <2>4 DEF FieldOctets, FieldLen, LenKind
    <3> QED BY <2>2, <3>1, Address6Fits
  <2>5. CASE kind = "String"
    <3>1. FieldOctets(kind, v) = packTxtString(v) /\ FieldLen(LenKind(kind), v) = Len(v) + 1
      BY <2>5 DEF FieldOctets, FieldLen, LenKind
    <3> QED BY <2>2, <3>1, StringFits
  <2>6. CASE kind = "StringOctet"
    <3>1. FieldOctets(kind, v) = packOctetString(v) /\ FieldLen(LenKind(kind), v) = Len(v)
      BY <2>6 DEF FieldOctets, FieldLen, LenKind
    <3> QED BY <2>2, <3>1, StringFits
  <2>7. CASE kind = "StringAny"
    <3>1. FieldOctets(kind, v) = Good(v, 0) /\ FieldLen(LenKind(kind), v) = Len(v)
      BY <2>7 DEF FieldOctets, FieldLen, LenKind
    <3>2. FieldOctets(kind, v).v = v  BY <3>1 DEF Good
    <3> QED BY <2>2, <3>1, <3>2 DEF Fits
  <2>8. CASE kind = "StringHex"
    <3>1. FieldOctets(kind, v) = fromHex(v) /\ FieldLen(LenKind(kind), v) = Len(v) \div 2
      BY <2>8 DEF FieldOctets, FieldLen, LenKind
    <3> QED BY <2>2, <3>1, HexFits
  <2>9. CASE kind = "StringHexSalt"
    <3>1. /\ FieldOctets(kind, v) = IF v = Dash THEN Good(<<>>, 0) ELSE fromHex(v)
          /\ FieldLen(LenKind(kind), v) = Len(v) \div 2
      BY <2>9 DEF FieldOctets, FieldLen, LenKind
    <3>2. Fits(fromHex(v), Len(v) \div 2)  BY <2>2, HexFits
    <3>3. Fits(Good(<<>>, 0), Len(v) \div 2)
      <4>1. Len(v) \div 2 \in Nat  BY <3>2 DEF Fits
      <4>2. Good(<<>>, 0).v = <<>>  BY DEF Good
      <4>3. Len(<<>>) <= Len(v) \div 2  BY <1>0, <4>1
      <4> QED BY <1>0, <4>1, <4>2, <4>3 DEF Fits
    <3> QED BY <3>1, <3>2, <3>3
  <2>10. CASE kind = "StringBase64"
    <3>1. FieldOctets(kind, v) = fromBase64(v) /\ FieldLen(LenKind(kind), v) = DecodedLen(Len(v))
      BY <2>10 DEF FieldOctets, FieldLen, LenKind
    <3> QED BY <2>2, <3>1, Base64Fits
  <2> QED BY <1>7, <2>3, <2>4, <2>5, <2>6, <2>7, <2>8, <2>9, <2>10
<1> QED BY <1>1, <1>2, <1>3, <1>4, <1>5, <1>6, <1>7 DEF PlainKinds

-----------------------------------------------------------------------------
(* Fields in a buffer.                                                     *)

\* A name has a length.
LEMMA PlainLenNat ==
  ASSUME NEW s, IsNameField(s)
  PROVE  PlainLen(s) \in Nat
BY NameFacts, PresentationCovers DEF IsNameField, PlainLen

\* The estimate c knows more than it needs.
LEMMA ForgetSeen ==
  ASSUME NEW p, NEW H, NEW l0, NEW l, NEW c, NEW d, Sound(p, H, l0, l, c), d = [valid |-> p.valid, seen |-> d.seen],
         p.valid => d.seen \subseteq c.seen
  PROVE  Sound(p, H, l0, l, d)
BY DEF Sound, Covers

\* A name counted as a string, with an octet for its length, is covered.
LEMMA StringCovers ==
  ASSUME NEW s, IsNameField(s)
  PROVE  StringLen(s) + 1 \in Nat /\ PlainLen(s) <= StringLen(s) + 1
<1>1. CASE s = <<>>
  <2>1. StringLen(s) = 0 /\ PlainLen(s) = 1  BY <1>1 DEF StringLen, PlainLen
  <2> QED BY <2>1
<1>2. CASE IsName(s) /\ s # <<>> /\ s = Root
  <2>1. StringLen(s) = 1  BY <1>2 DEF StringLen, Root
  <2>2. PlainLen(s) = 1  BY <1>2, RootLen DEF PlainLen
  <2> QED BY <2>1, <2>2
<1>3. CASE IsName(s) /\ s # <<>> /\ s # Root
  <2>1. PresentationLen(s) \in Nat /\ WireLen(s) \in Nat /\ WireLen(s) <= PresentationLen(s)
    BY <1>3, NameFacts, PresentationCovers
  <2>2. StringLen(s) = PresentationLen(s) - 1 /\ PlainLen(s) = WireLen(s)  BY <1>3 DEF StringLen, PlainLen
  <2> QED BY <2>1, <2>2
<1> QED BY <1>1, <1>2, <1>3 DEF IsNameField

\* A name that is packed without a pointer, and its length without one.
LEMMA PlainName ==
  ASSUME NEW s, NEW off, NEW c, NEW r, r = domainNameLen(s, off, c, FALSE)
  PROVE  r.len = PlainLen(s) /\ (c = [valid |-> c.valid, seen |-> c.seen] => r.c = [valid |-> c.valid, seen |-> r.c.seen] /\ c.seen \subseteq r.c.seen)
<1>1. r.len = PlainLen(s)
  <2>1. CASE s = <<>>  BY <2>1 DEF domainNameLen, PlainLen
  <2>2. CASE s # <<>> /\ s = Root  BY <2>2, RootLen DEF domainNameLen, PlainLen
  <2>3. CASE s # <<>> /\ s # Root  BY <2>3 DEF domainNameLen, PlainLen
  <2> QED BY <2>1, <2>2, <2>3
<1>2. ASSUME c = [valid |-> c.valid, seen |-> c.seen] PROVE r.c = [valid |-> c.valid, seen |-> r.c.seen] /\ c.seen \subseteq r.c.seen
  <2> DEFINE x == compressionLenSearch(c.seen, s, off).c
  <2>1. c.seen \subseteq x  BY DEF compressionLenSearch
  <2>2. r.c = c \/ r.c = [c EXCEPT !.seen = x]  BY DEF domainNameLen
  <2> HIDE DEF x
  <2> QED BY <1>2, <2>1, <2>2
<1> QED BY <1>1, <1>2

\* The lengths of a list of names without compression.
LEMMA PlainNames ==
  ASSUME NEW names, IsSeq(names), \A i \in 1..Len(names) : IsNameField(names[i]), NEW a, IsLength(a), ~a.c.valid, NEW off,
         NEW g, Steps(g, Len(names), a, [of |-> "NamesLen", s |-> names, off |-> off])
  PROVE  /\ \A k \in 0..Len(names) : IsLength(g[k]) /\ g[k].c = a.c
         /\ \A k \in 1..Len(names) : g[k - 1].len <= g[k].len /\ g[k].len = g[k - 1].len + PlainLen(names[k])
<1> DEFINE S == {k \in 0..Len(names) : IsLength(g[k]) /\ g[k].c = a.c}
<1>1. Len(names) \in Nat  BY DEF IsSeq
<1>2. 0 \in S  BY <1>1 DEF Steps
<1>3. ASSUME NEW k \in 1..Len(names), IsLength(g[k - 1]), g[k - 1].c = a.c
      PROVE  IsLength(g[k]) /\ g[k].c = a.c /\ g[k].len = g[k - 1].len + PlainLen(names[k]) /\ g[k - 1].len <= g[k].len
  <2> DEFINE u == g[k - 1]
             s == names[k]
             o == off + u.len
             no == FALSE
             c == u.c
             r == domainNameLen(s, o, c, no)
  <2>1. g[k] = [len |-> u.len + r.len, c |-> r.c]  BY DEF Steps, Turn, NameLen, AddName
  <2>2. ~u.c.valid /\ IsNameField(s) /\ u.len \in Nat /\ u.c = a.c  BY <1>3 DEF IsLength
  <2>3. r.len = PlainLen(s) /\ r.c = u.c
    <3>1. ~c.valid  BY <2>2
    <3> HIDE DEF s, o, c, no
    <3>2. r.len = PlainLen(s) /\ r.c = c  BY <3>1, PlainNameLen
    <3> QED BY <3>2 DEF c
  <2> HIDE DEF u, s, o, c
  <2>4. PlainLen(s) \in Nat  BY <2>2, PlainLenNat
  <2> HIDE DEF r
  <2>5. g[k].len = u.len + r.len /\ g[k].c = r.c  BY <2>1
  <2>6. g[k].len = u.len + PlainLen(s) /\ u.len <= g[k].len /\ g[k].len \in Nat /\ g[k].c = a.c
    BY <2>2, <2>3, <2>4, <2>5
  <2>7. IsLength(g[k])  BY <2>1, <2>6 DEF IsLength
  <2> QED BY <2>6, <2>7 DEF u, s
<1>4. ASSUME NEW k \in 1..Len(names), k - 1 \in S PROVE k \in S  BY <1>1, <1>3, <1>4
<1>5. \A k \in 0..Len(names) : k \in S
  <2> HIDE DEF S
  <2> QED BY <1>1, <1>2, <1>4, UpTo
<1>6. \A k \in 0..Len(names) : IsLength(g[k]) /\ g[k].c = a.c  BY <1>5
<1>7. ASSUME NEW k \in 1..Len(names)
      PROVE  g[k - 1].len <= g[k].len /\ g[k].len = g[k - 1].len + PlainLen(names[k])
  <2>1. k - 1 \in 0..Len(names)  BY <1>1
  <2> QED BY <1>3, <1>6, <2>1
<1> QED BY <1>6, <1>7

\* Numbers that grow step by step grow.
LEMMA Rising ==
  ASSUME NEW n \in Nat, NEW h, \A k \in 0..n : h[k] \in Nat, \A k \in 1..n : h[k - 1] <= h[k]
  PROVE  \A k \in 0..n : h[k] <= h[n] /\ h[0] <= h[k]
<1>1. \A k \in 0..n : h[0] <= h[k]
  <2> DEFINE S == {k \in 0..n : h[0] <= h[k]}
  <2>1. 0 \in S  OBVIOUS
  <2>2. ASSUME NEW k \in 1..n, k - 1 \in S PROVE k \in S
    <3>1. k - 1 \in 0..n /\ k \in 0..n /\ 0 \in 0..n /\ h[0] <= h[k - 1]  BY <2>2
    <3>2. h[0] \in Nat /\ h[k - 1] \in Nat /\ h[k] \in Nat /\ h[k - 1] <= h[k]  BY <3>1
    <3> QED BY <3>1, <3>2
  <2>3. \A k \in 0..n : k \in S
    <3> HIDE DEF S
    <3> QED BY <2>1, <2>2, UpTo
  <2> QED BY <2>3
<1>2. \A k \in 0..n : h[k] <= h[n]
  <2> DEFINE S == {k \in 0..n : h[n - k] <= h[n]}
  <2>1. 0 \in S  OBVIOUS
  <2>2. ASSUME NEW k \in 1..n, k - 1 \in S PROVE k \in S
    <3>1. h[n - (k - 1)] <= h[n] /\ k \in 0..n  BY <2>2
    <3> DEFINE j == n - (k - 1)
    <3>2. j \in 1..n /\ j - 1 = n - k  OBVIOUS
    <3> HIDE DEF j
    <3>3. h[j - 1] <= h[j] /\ h[j - 1] \in Nat /\ h[j] \in Nat /\ h[n] \in Nat  BY <3>2
    <3>4. h[j - 1] <= h[n]  BY <3>1, <3>3 DEF j
    <3> QED BY <3>1, <3>2, <3>4
  <2>3. \A k \in 0..n : k \in S
    <3> HIDE DEF S
    <3> QED BY <2>1, <2>2, UpTo
  <2>4. ASSUME NEW k \in 0..n PROVE h[k] <= h[n]
    <3>1. n - k \in 0..n /\ n - (n - k) = k  OBVIOUS
    <3>2. n - k \in S  BY <2>3, <3>1
    <3> QED BY <3>1, <3>2
  <2> QED BY <2>4
<1> QED BY <1>1, <1>2

\* A buffer extended twice is extended.
LEMMA ExtendsTrans ==
  ASSUME NEW p, NEW q, NEW r, IsBuffer(p), Extends(p, q), Extends(q, r)
  PROVE  Extends(p, r)
<1>1. Len(p.msg) \in Nat /\ Len(q.msg) \in Nat /\ Len(r.msg) \in Nat /\ Len(q.msg) >= Len(p.msg) /\ Len(r.msg) >= Len(q.msg)
  BY DEF Extends, IsBuffer, IsSeq
<1>2. Len(r.msg) >= Len(p.msg)  BY <1>1
<1>3. ASSUME NEW i \in 1..Len(p.msg) PROVE r.msg[i] = p.msg[i]
  <2>1. i \in 1..Len(q.msg)  BY <1>1
  <2> QED BY <2>1 DEF Extends
<1> QED BY <1>2, <1>3 DEF Extends

\* A buffer extends itself.
LEMMA ExtendsSelf ==
  ASSUME NEW p, IsBuffer(p), ~p.err
  PROVE  Extends(p, p)
<1>1. Len(p.msg) \in Nat  BY DEF IsBuffer, IsSeq
<1>2. Len(p.msg) >= Len(p.msg)  BY <1>1
<1> QED BY <1>2 DEF Extends

\* A name has a length, compressed or not.
LEMMA NameLenNat ==
  ASSUME NEW s, IsNameField(s), NEW off \in Nat, NEW c, NEW allowed, NEW r, r = domainNameLen(s, off, c, allowed)
  PROVE  r.len \in Nat
<1>1. CASE s \in {<<>>, Root}  BY <1>1 DEF domainNameLen
<1>2. CASE IsName(s) /\ s \notin {<<>>, Root}
  <2> DEFINE seen == c.seen
             x == compressionLenSearch(seen, s, off)
             k == x.hit - 1
  <2>1. r.len \in {WireLen(SubSeq(s, 1, k)) + 2, WireLen(s)}  BY <1>2 DEF domainNameLen
  <2>2. Labels(s)  BY <1>2, NameFacts
  <2>3. PICK w : NameOffsets(w, s)  BY <2>2, NameOffsetsExist
  <2> HIDE DEF seen
  <2>4. Found(seen, s, w, off, x)  BY <1>2, <2>3, SearchFacts
  <2> HIDE DEF x
  <2>5. Len(s) \in Nat  BY <2>2 DEF Labels, IsSeq
  <2>6. k \in 0..Len(s)  BY <2>4, <2>5 DEF Found
  <2> HIDE DEF k
  <2>7. WireLen(SubSeq(s, 1, k)) = w[k] /\ w[k] \in Nat  BY <2>3, <2>6 DEF NameOffsets, Offsets
  <2>8. WireLen(s) \in Nat  BY <2>2, PresentationCovers
  <2> QED BY <2>1, <2>7, <2>8
<1> QED BY <1>1, <1>2 DEF IsNameField

\* A field that is a name is covered by its length.
LEMMA NameGrown ==
  ASSUME NEW s, IsNameField(s), NEW p, NEW q, NEW H, NEW off0 \in Int, NEW a0, NEW off \in Nat, NEW a,
         IsBuffer(p), Grown(p, q, H, off0, a0, off, a), ~a0.c.valid, NEW compress \in BOOLEAN, NEW allowed \in BOOLEAN,
         p.valid => compress = allowed,
         NEW b0, b0 = NameLen(a0, s, off0, allowed), NEW b, b = NameLen(a, s, off, allowed),
         off0 + a0.len + PlainLen(s) < p.cap
  PROVE  Grown(p, packDomainName(s, q, compress), H, off0, b0, off, b)
<1> DEFINE l0 == off0 + a0.len
           l == off + a.len
           c == a.c
           c0 == a0.c
           r0 == domainNameLen(s, l0, c0, allowed)
           r == domainNameLen(s, l, c, allowed)
           t == packDomainName(s, q, compress)
<1>1. b0 = [len |-> a0.len + r0.len, c |-> r0.c] /\ b = [len |-> a.len + r.len, c |-> r.c]
  BY DEF NameLen, AddName
<1>2. r0.len = PlainLen(s)
  <2>1. ~c0.valid  OBVIOUS
  <2> HIDE DEF l0, c0
  <2> QED BY <2>1, PlainNameLen
<1>3. Sound(q, H, l0, l, c) /\ Extends(p, q) /\ IsLength(a0) /\ IsLength(a)  BY DEF Grown
<1>4. q.cap = p.cap /\ q.valid = p.valid  BY <1>3 DEF Extends
<1>5. q.valid => compress = allowed  BY <1>4
<1>6. l0 + PlainLen(s) < q.cap  BY <1>4
<1> HIDE DEF l0, l, c
<1>7. Sound(t, H, l0 + PlainLen(s), l + r.len, r.c) /\ Extends(q, t)  BY <1>3, <1>5, <1>6, NameSound
<1>12. r.len \in Nat
  <2>1. l \in Nat  BY <1>3 DEF Sound, Covers
  <2> QED BY <2>1, NameLenNat
<1> HIDE DEF r0, r, t
<1>8. PlainLen(s) \in Nat  BY PlainLenNat
<1>9. a0.len \in Nat /\ a.len \in Nat  BY <1>3 DEF IsLength
<1>10. b0.len = a0.len + PlainLen(s) /\ b.len = a.len + r.len /\ b.c = r.c /\ b0.c = r0.c  BY <1>1, <1>2
<1>11. off0 + b0.len = l0 + PlainLen(s)  BY <1>8, <1>9, <1>10 DEF l0
<1>13. off + b.len = l + r.len  BY <1>9, <1>10, <1>12 DEF l
<1>14. IsLength(b0) /\ IsLength(b)  BY <1>1, <1>8, <1>9, <1>10, <1>12 DEF IsLength
<1>15. Extends(p, t)  BY <1>3, <1>7, ExtendsTrans
<1>16. Grown(p, t, H, off0, b0, off, b)  BY <1>7, <1>10, <1>11, <1>13, <1>14, <1>15 DEF Grown
<1> QED BY <1>16 DEF t

\* A field that fits n octets is covered by n.
LEMMA OctetsGrown ==
  ASSUME NEW p, NEW q, NEW H, NEW off0 \in Int, NEW a0, NEW off \in Nat, NEW a, IsBuffer(p),
         Grown(p, q, H, off0, a0, off, a), NEW e, ~e.err, NEW n, Fits(e, n), off0 + a0.len + n < p.cap, NEW room
  PROVE  Grown(p, PutEncoded(q, e, room), H, off0, AddOctets(a0, n), off, AddOctets(a, n))
<1> DEFINE l0 == off0 + a0.len
           l == off + a.len
           t == PutEncoded(q, e, room)
           b0 == AddOctets(a0, n)
           b == AddOctets(a, n)
<1>1. n \in Nat /\ IsSeq(e.v) /\ Len(e.v) <= n  BY DEF Fits
<1>2. Sound(q, H, l0, l, a.c) /\ Extends(p, q) /\ IsLength(a0) /\ IsLength(a)  BY DEF Grown
<1>3. a0.len \in Nat /\ a.len \in Nat  BY <1>2 DEF IsLength
<1>4. b0.len = a0.len + n /\ b0.c = a0.c /\ IsLength(b0)  BY <1>1, <1>2 DEF AddOctets, IsLength
<1>5. b.len = a.len + n /\ b.c = a.c /\ IsLength(b)  BY <1>1, <1>2 DEF AddOctets, IsLength
<1>6. q.cap = p.cap  BY <1>2 DEF Extends
<1>7. l0 + n < q.cap  BY <1>6
<1>8. off0 + b0.len = l0 + n /\ off + b.len = l + n  BY <1>1, <1>3, <1>4, <1>5
<1> HIDE DEF l0, l, b0, b
<1>9. Sound(t, H, l0 + n, l + n, a.c) /\ Extends(q, t)  BY <1>1, <1>2, <1>7, EncodedSound
<1> HIDE DEF t
<1>10. Extends(p, t)  BY <1>2, <1>9, ExtendsTrans
<1>11. Grown(p, t, H, off0, b0, off, b)  BY <1>4, <1>5, <1>8, <1>9, <1>10 DEF Grown
<1> QED BY <1>11 DEF t, b0, b

\* A field that is a list of names is covered.
LEMMA NamesGrown ==
  ASSUME NEW names, IsSeq(names), \A i \in 1..Len(names) : IsNameField(names[i]),
         NEW p, NEW q, NEW H, NEW off0 \in Int, NEW a0, NEW off \in Nat, NEW a, IsBuffer(p),
         Grown(p, q, H, off0, a0, off, a), ~a0.c.valid, off0 + NamesLen(a0, names, off0).len < p.cap
  PROVE  Grown(p, packDataDomainNames(names, q), H, off0, NamesLen(a0, names, off0), off, NamesLen(a, names, off))
<1> DEFINE n == Len(names)
           loop0 == [of |-> "NamesLen", s |-> names, off |-> off0]
           loop == [of |-> "NamesLen", s |-> names, off |-> off]
           pack == [of |-> "packDataDomainNames", s |-> names]
<1>1. n \in Nat  BY DEF IsSeq
<1>2. IsLength(a0)  BY DEF Grown
<1>3. PICK g0 : Steps(g0, n, a0, loop0) /\ NamesLen(a0, names, off0) = g0[n]  BY NamesLenLoop
<1>4. PICK g : Steps(g, n, a, loop) /\ NamesLen(a, names, off) = g[n]  BY NamesLenLoop
<1>5. PICK h : Steps(h, n, q, pack) /\ packDataDomainNames(names, q) = h[n]  BY NamesLoop
<1>6. /\ \A k \in 0..n : IsLength(g0[k]) /\ g0[k].c = a0.c
      /\ \A k \in 1..n : g0[k - 1].len <= g0[k].len /\ g0[k].len = g0[k - 1].len + PlainLen(names[k])
  BY <1>2, <1>3, PlainNames
<1>7. \A k \in 0..n : g0[k].len <= g0[n].len
  <2> DEFINE f == [k \in 0..n |-> g0[k].len]
  <2>1. \A k \in 0..n : f[k] = g0[k].len /\ f[k] \in Nat  BY <1>6 DEF IsLength
  <2>2. \A k \in 1..n : f[k - 1] <= f[k]
    <3> SUFFICES ASSUME NEW k \in 1..n PROVE f[k - 1] <= f[k]  OBVIOUS
    <3>1. k - 1 \in 0..n /\ k \in 0..n  BY <1>1
    <3> HIDE DEF f
    <3> QED BY <1>6, <2>1, <3>1
  <2> HIDE DEF f
  <2>3. \A k \in 0..n : f[k] <= f[n]  BY <1>1, <2>1, <2>2, Rising
  <2>4. n \in 0..n  BY <1>1
  <2> QED BY <2>1, <2>3, <2>4
<1> HIDE DEF n
<1> DEFINE S == {k \in 0..n : Grown(p, h[k], H, off0, g0[k], off, g[k])}
<1>8. 0 \in S
  <2>1. h[0] = q /\ g0[0] = a0 /\ g[0] = a  BY <1>3, <1>4, <1>5 DEF Steps
  <2> QED BY <1>1, <2>1
<1>9. ASSUME NEW k \in 1..n, k - 1 \in S PROVE k \in S
  <2> DEFINE u == h[k - 1]
             x0 == g0[k - 1]
             x == g[k - 1]
             s == names[k]
             no == FALSE
  <2>1. Grown(p, u, H, off0, x0, off, x)  BY <1>9
  <2>2. h[k] = packDomainName(s, u, no) /\ g0[k] = NameLen(x0, s, off0, no) /\ g[k] = NameLen(x, s, off, no)
    BY <1>3, <1>4, <1>5 DEF Steps, Turn
  <2>3. k - 1 \in 0..n /\ k \in 0..n  BY <1>1
  <2>4. ~x0.c.valid  BY <1>6, <2>3
  <2>5. IsNameField(s)  BY DEF n
  <2>6. off0 + x0.len + PlainLen(s) < p.cap
    <3>1. x0.len \in Nat /\ g0[k].len \in Nat /\ g0[n].len \in Nat
      <4>1. n \in 0..n  BY <1>1
      <4> QED BY <1>6, <2>3, <4>1 DEF IsLength
    <3>2. g0[k].len = x0.len + PlainLen(s) /\ g0[k].len <= g0[n].len  BY <1>6, <1>7, <2>3
    <3>3. off0 + g0[n].len < p.cap  BY <1>3
    <3>4. PlainLen(s) \in Nat /\ p.cap \in Nat  BY <2>5, PlainLenNat DEF IsBuffer
    <3> DEFINE l == x0.len
               z == g0[k].len
               y == g0[n].len
               o == PlainLen(s)
               cap == p.cap
    <3>5. l \in Nat /\ z \in Nat /\ y \in Nat /\ o \in Nat /\ cap \in Nat /\ z = l + o /\ z <= y /\ off0 + y < cap
      BY <3>1, <3>2, <3>3, <3>4
    <3> HIDE DEF l, z, y, o, cap
    <3>6. off0 + l + o < cap  BY <3>5
    <3> QED BY <3>6 DEF l, o, cap
  <2>7. no \in BOOLEAN /\ (p.valid => no = no)  OBVIOUS
  <2> HIDE DEF u, x0, x, s, no
  <2>8. Grown(p, packDomainName(s, u, no), H, off0, NameLen(x0, s, off0, no), off, NameLen(x, s, off, no))
    BY <2>1, <2>4, <2>5, <2>6, <2>7, NameGrown
  <2> QED BY <2>2, <2>3, <2>8
<1>10. \A k \in 0..n : k \in S
  <2> HIDE DEF S
  <2> QED BY <1>1, <1>8, <1>9, UpTo
<1>11. Grown(p, h[n], H, off0, g0[n], off, g[n])
  <2>1. n \in 0..n  BY <1>1
  <2> QED BY <1>10, <2>1
<1> QED BY <1>3, <1>4, <1>5, <1>11

\* The gateway has a length.
LEMMA GatewayLenNat ==
  ASSUME NEW f, IsGateway(f)
  PROVE  GatewayLen(f) \in Nat
<1>1. CASE f.GatewayType = IPSECGatewayHost
  <2>1. GatewayLen(f) = StringLen(f.GatewayHost) + 1 /\ IsNameField(f.GatewayHost)
    BY <1>1 DEF GatewayLen, IsGateway, IPSECGatewayIPv4, IPSECGatewayIPv6, IPSECGatewayHost
  <2> QED BY <2>1, StringCovers
<1>2. CASE f.GatewayType # IPSECGatewayHost  BY <1>2 DEF GatewayLen, IPv4len, IPv6len
<1> QED BY <1>1, <1>2

\* The gateway of an IPSECKEY record is covered by its length.
LEMMA GatewayGrown ==
  ASSUME NEW f, IsGateway(f), NEW p, NEW q, NEW H, NEW off0 \in Int, NEW a0, NEW off \in Nat, NEW a, IsBuffer(p),
         Grown(p, q, H, off0, a0, off, a), ~a0.c.valid, off0 + a0.len + GatewayLen(f) < p.cap
  PROVE  Grown(p, packIPSECGateway(f, q), H, off0, AddOctets(a0, GatewayLen(f)), off, AddOctets(a, GatewayLen(f)))
<1> USE DEF IPSECGatewayIPv4, IPSECGatewayIPv6, IPSECGatewayHost
<1> DEFINE n == GatewayLen(f)
<1>0. n \in Nat  BY GatewayLenNat
<1>1. CASE f.GatewayType = IPSECGatewayIPv4
  <2> DEFINE e == packDataA(f.GatewayAddr)
  <2>1. packIPSECGateway(f, q) = PutEncoded(q, e, FALSE) /\ n = IPv4len /\ ~e.err
    BY <1>1 DEF packIPSECGateway, GatewayLen, IsGateway
  <2>2. f.GatewayAddr \in Seq(Byte)  BY <1>1 DEF IsGateway
  <2>3. Fits(e, IPv4len)  BY <2>2, SeqIsSeq, Address4Fits
  <2> HIDE DEF e, n
  <2>4. off0 + a0.len + n < p.cap /\ Fits(e, n) /\ ~e.err  BY <2>1, <2>3 DEF n
  <2>5. Grown(p, PutEncoded(q, e, FALSE), H, off0, AddOctets(a0, n), off, AddOctets(a, n))
    <3> DEFINE no == FALSE
    <3> HIDE DEF no
    <3>1. Grown(p, PutEncoded(q, e, no), H, off0, AddOctets(a0, n), off, AddOctets(a, n))
      BY <2>4, OctetsGrown
    <3> QED BY <3>1 DEF no
  <2> QED BY <2>1, <2>5 DEF n
<1>2. CASE f.GatewayType = IPSECGatewayIPv6
  <2> DEFINE e == packDataAAAA(f.GatewayAddr)
  <2>1. packIPSECGateway(f, q) = PutEncoded(q, e, FALSE) /\ n = IPv6len /\ ~e.err
    BY <1>2 DEF packIPSECGateway, GatewayLen, IsGateway
  <2>2. f.GatewayAddr \in Seq(Byte)  BY <1>2 DEF IsGateway
  <2>3. Fits(e, IPv6len)  BY <2>2, SeqIsSeq, Address6Fits
  <2> HIDE DEF e, n
  <2>4. off0 + a0.len + n < p.cap /\ Fits(e, n) /\ ~e.err  BY <2>1, <2>3 DEF n
  <2>5. Grown(p, PutEncoded(q, e, FALSE), H, off0, AddOctets(a0, n), off, AddOctets(a, n))
    <3> DEFINE no == FALSE
    <3> HIDE DEF no
    <3>1. Grown(p, PutEncoded(q, e, no), H, off0, AddOctets(a0, n), off, AddOctets(a, n))
      BY <2>4, OctetsGrown
    <3> QED BY <3>1 DEF no
  <2> QED BY <2>1, <2>5 DEF n
<1>10. /\ Sound(q, H, off0 + a0.len, off + a.len, a.c) /\ Extends(p, q) /\ IsLength(a0) /\ IsLength(a)
       /\ a0.len \in Nat /\ a.len \in Nat /\ p.cap \in Nat
  BY DEF Grown, IsLength, IsBuffer
<1>11. /\ AddOctets(a0, n).len = a0.len + n /\ AddOctets(a0, n).c = a0.c /\ IsLength(AddOctets(a0, n))
       /\ AddOctets(a, n).len = a.len + n /\ AddOctets(a, n).c = a.c /\ IsLength(AddOctets(a, n))
  <2> HIDE DEF n
  <2> QED BY <1>0, <1>10 DEF AddOctets, IsLength
<1>3. CASE f.GatewayType = IPSECGatewayHost
  <2> DEFINE s == f.GatewayHost
             no == FALSE
             c == a.c
             l0 == off0 + a0.len
             l == off + a.len
             r == domainNameLen(s, l, c, no)
             t == packDomainName(s, q, no)
  <2>1. packIPSECGateway(f, q) = t /\ n = StringLen(s) + 1 /\ IsNameField(s)
    BY <1>3 DEF packIPSECGateway, GatewayLen, IsGateway
  <2>2. PlainLen(s) <= n /\ PlainLen(s) \in Nat  BY <2>1, StringCovers, PlainLenNat
  <2>3. no \in BOOLEAN /\ (q.valid => no = no)  OBVIOUS
  <2>4. Sound(q, H, l0, l, c) /\ q.cap = p.cap /\ l0 \in Nat /\ l \in Nat  BY <1>10 DEF Extends, Sound, Covers
  <2>5. r.len = PlainLen(s) /\ (c = [valid |-> c.valid, seen |-> c.seen] => r.c = [valid |-> c.valid, seen |-> r.c.seen] /\ c.seen \subseteq r.c.seen)
    <3> HIDE DEF s, l, c
    <3> QED BY PlainName
  <2> HIDE DEF n, no
  <2>6. l0 + PlainLen(s) < q.cap /\ l0 + n \in Nat /\ l + n \in Nat  BY <1>0, <1>10, <2>2, <2>4 DEF n
  <2> HIDE DEF s, c, l0, l
  <2>7. Sound(t, H, l0 + PlainLen(s), l + r.len, r.c) /\ Extends(q, t)  BY <2>1, <2>3, <2>4, <2>6, NameSound
  <2> HIDE DEF r, t
  <2>8. c = [valid |-> q.valid, seen |-> c.seen] /\ t.valid = q.valid
    BY <2>4, <2>7 DEF Sound, Covers, Extends
  <2>9. c.valid = q.valid /\ c = [valid |-> c.valid, seen |-> c.seen]  BY <2>8
  <2>10. c = [valid |-> t.valid, seen |-> c.seen] /\ (t.valid => c.seen \subseteq r.c.seen)
    BY <2>5, <2>8, <2>9
  <2>11. Sound(t, H, l0 + PlainLen(s), l + r.len, c)  BY <2>7, <2>10, ForgetSeen
  <2>12. l0 + PlainLen(s) <= l0 + n /\ l + r.len <= l + n  BY <1>0, <2>2, <2>4, <2>5
  <2>13. Sound(t, H, l0 + n, l + n, c)
    <3> DEFINE x0 == l0 + n
               x == l + n
               y0 == l0 + PlainLen(s)
               y == l + r.len
    <3>1. x0 \in Nat /\ x \in Nat /\ y0 <= x0 /\ y <= x /\ Sound(t, H, y0, y, c)  BY <2>6, <2>11, <2>12
    <3> HIDE DEF x0, x, y0, y
    <3>2. Sound(t, H, x0, x, c)  BY <3>1, LengthsGrow
    <3> QED BY <3>2 DEF x0, x
  <2>14. off0 + AddOctets(a0, n).len = l0 + n /\ off + AddOctets(a, n).len = l + n
    BY <1>0, <1>10, <1>11 DEF l0, l, n
  <2>15. Extends(p, t)  BY <1>10, <2>7, ExtendsTrans
  <2>16. Grown(p, t, H, off0, AddOctets(a0, n), off, AddOctets(a, n))
    BY <1>11, <2>13, <2>14, <2>15 DEF Grown, c, n
  <2> QED BY <2>1, <2>16 DEF n
<1>4. CASE f.GatewayType \notin {1, 2, 3}
  <2>1. packIPSECGateway(f, q) = q /\ n = 0  BY <1>4 DEF packIPSECGateway, GatewayLen
  <2>2. off0 + AddOctets(a0, n).len = off0 + a0.len /\ off + AddOctets(a, n).len = off + a.len
    BY <1>10, <1>11, <2>1
  <2> HIDE DEF n
  <2>3. Grown(p, q, H, off0, AddOctets(a0, n), off, AddOctets(a, n))  BY <1>10, <1>11, <2>2 DEF Grown, n
  <2> QED BY <2>1, <2>3 DEF n
<1> QED BY <1>1, <1>2, <1>3, <1>4

\* The kinds of fields, and those that len has for them.
LEMMA KindSplit ==
  ASSUME NEW k \in FieldKinds
  PROVE  \/ k \in Names /\ LenKind(k) = k
         \/ k = "DataDomainNames" /\ LenKind(k) = k
         \/ k = "IPSECGateway" /\ LenKind(k) = k
         \/ k \in PlainKinds /\ LenKind(k) \notin Names \cup {"DataDomainNames", "IPSECGateway"}
            /\ k \notin Names \cup {"DataDomainNames", "IPSECGateway"}
BY UintNames DEF FieldKinds, PlainKinds, Names, LenKind

\* The length of a field without compression.
LEMMA EntryPlain ==
  ASSUME NEW e, e[1] \in FieldKinds, NEW f, IsEncodable(e, f), NEW a, IsLength(a), ~a.c.valid, NEW off, NEW off1,
         NEW b, b = EntryLen(a, LenEntry(e), f, off)
  PROVE  IsLength(b) /\ b.c = a.c /\ a.len <= b.len /\ b = EntryLen(a, LenEntry(e), f, off1)
<1> DEFINE k == e[1]
           v == f[e[2]]
           d == LenEntry(e)
<1>0. d[1] = LenKind(k) /\ d[2] = e[2]  BY DEF LenEntry
<1>a. a = [len |-> a.len, c |-> a.c] /\ a.len \in Nat  BY DEF IsLength
<1> HIDE DEF d
<1>1. CASE k \in Names /\ LenKind(k) = k
  <2> DEFINE c == a.c
             yes == d[1] = "CDomainName"
             o == off + a.len
             o1 == off1 + a.len
             r == domainNameLen(v, o, c, yes)
             r1 == domainNameLen(v, o1, c, yes)
             n == PlainLen(v)
  <2>1. b = [len |-> a.len + r.len, c |-> r.c] /\ EntryLen(a, d, f, off1) = [len |-> a.len + r1.len, c |-> r1.c] /\ IsNameField(v)
    BY <1>0, <1>1 DEF EntryLen, NameLen, AddName, IsEncodable, d, Names
  <2>2. r.len = n /\ r.c = c /\ r1.len = n /\ r1.c = c
    <3>1. ~c.valid  OBVIOUS
    <3> HIDE DEF c, yes, o, o1, v
    <3> QED BY <3>1, PlainNameLen
  <2>3. n \in Nat  BY <2>1, PlainLenNat
  <2> HIDE DEF r, r1, n
  <2>4. b = [len |-> a.len + n, c |-> c] /\ EntryLen(a, d, f, off1) = b  BY <2>1, <2>2
  <2> QED BY <1>a, <2>3, <2>4 DEF IsLength, d
<1>2. CASE k = "DataDomainNames" /\ LenKind(k) = k
  <2> DEFINE n == Len(v)
  <2>1. /\ b = NamesLen(a, v, off) /\ EntryLen(a, d, f, off1) = NamesLen(a, v, off1)
        /\ IsSeq(v) /\ \A i \in 1..Len(v) : IsNameField(v[i])
    BY <1>0, <1>2 DEF EntryLen, IsEncodable, d, Names
  <2>2. PICK g : Steps(g, Len(v), a, [of |-> "NamesLen", s |-> v, off |-> off]) /\ NamesLen(a, v, off) = g[Len(v)]
    BY <2>1, NamesLenLoop
  <2>3. PICK h : Steps(h, Len(v), a, [of |-> "NamesLen", s |-> v, off |-> off1]) /\ NamesLen(a, v, off1) = h[Len(v)]
    BY <2>1, NamesLenLoop
  <2>4. /\ \A i \in 0..Len(v) : IsLength(g[i]) /\ g[i].c = a.c
        /\ \A i \in 1..Len(v) : g[i - 1].len <= g[i].len /\ g[i].len = g[i - 1].len + PlainLen(v[i])
    BY <2>1, <2>2, PlainNames
  <2>5. /\ \A i \in 0..Len(v) : IsLength(h[i]) /\ h[i].c = a.c
        /\ \A i \in 1..Len(v) : h[i - 1].len <= h[i].len /\ h[i].len = h[i - 1].len + PlainLen(v[i])
    BY <2>1, <2>3, PlainNames
  <2>6. n \in Nat  BY <2>1 DEF IsSeq
  <2> HIDE DEF n, v
  <2> DEFINE S == {i \in 0..n : g[i] = h[i] /\ a.len <= g[i].len}
  <2>7. 0 \in S  BY <2>2, <2>3, <2>6, <1>a DEF Steps
  <2>8. ASSUME NEW i \in 1..n, i - 1 \in S PROVE i \in S
    <3>1. i - 1 \in 0..n /\ i \in 0..n /\ g[i - 1] = h[i - 1] /\ a.len <= g[i - 1].len  BY <2>6, <2>8
    <3>2. g[i].len = h[i].len /\ g[i].c = h[i].c  BY <2>4, <2>5, <3>1 DEF n
    <3>3. g[i] = [len |-> g[i].len, c |-> g[i].c] /\ h[i] = [len |-> h[i].len, c |-> h[i].c]
          /\ g[i].len \in Nat /\ g[i - 1].len \in Nat /\ g[i - 1].len <= g[i].len
      BY <2>4, <2>5, <3>1 DEF IsLength, n
    <3>4. g[i] = h[i]  BY <3>2, <3>3
    <3>5. a.len <= g[i].len  BY <1>a, <3>1, <3>3
    <3> QED BY <3>1, <3>4, <3>5
  <2>9. \A i \in 0..n : i \in S
    <3> HIDE DEF S
    <3> QED BY <2>6, <2>7, <2>8, UpTo
  <2>10. n \in 0..n  BY <2>6
  <2>11. g[n] = h[n] /\ a.len <= g[n].len /\ IsLength(g[n]) /\ g[n].c = a.c  BY <2>4, <2>9, <2>10 DEF n
  <2> QED BY <2>1, <2>2, <2>3, <2>11 DEF n, d
<1>3. CASE k = "IPSECGateway" /\ LenKind(k) = k
  <2>1. b = AddOctets(a, GatewayLen(f)) /\ EntryLen(a, d, f, off1) = b /\ IsGateway(f)
    BY <1>0, <1>3 DEF EntryLen, IsEncodable, d, Names
  <2>2. GatewayLen(f) \in Nat  BY <2>1, GatewayLenNat
  <2> QED BY <1>a, <2>1, <2>2 DEF AddOctets, IsLength, d
<1>4. CASE k \in PlainKinds /\ LenKind(k) \notin Names \cup {"DataDomainNames", "IPSECGateway"}
            /\ k \notin Names \cup {"DataDomainNames", "IPSECGateway"}
  <2> DEFINE n == FieldLen(LenKind(k), v)
  <2>1. b = AddOctets(a, n) /\ EntryLen(a, d, f, off1) = b  BY <1>0, <1>4 DEF EntryLen, d
  <2>2. IsValue(k, v)  BY <1>4 DEF IsEncodable
  <2>3. n \in Nat  BY <1>4, <2>2, FieldFits DEF Fits
  <2> HIDE DEF n
  <2> QED BY <1>a, <2>1, <2>3 DEF AddOctets, IsLength, d
<1> QED BY <1>1, <1>2, <1>3, <1>4, KindSplit

\* A field of a record is covered by what len counts for it.
LEMMA EntryGrown ==
  ASSUME NEW e, e[1] \in FieldKinds, NEW f, IsEncodable(e, f), NEW compress \in BOOLEAN,
         NEW p, NEW q, NEW H, NEW off0 \in Int, NEW a0, NEW off \in Nat, NEW a, IsBuffer(p),
         Grown(p, q, H, off0, a0, off, a), ~a0.c.valid, p.valid => compress,
         off0 + EntryLen(a0, LenEntry(e), f, off0).len < p.cap
  PROVE  Grown(p, packEntry(e, f, q, compress), H, off0, EntryLen(a0, LenEntry(e), f, off0), off, EntryLen(a, LenEntry(e), f, off))
<1> DEFINE k == e[1]
           v == f[e[2]]
           d == LenEntry(e)
           b0 == EntryLen(a0, d, f, off0)
           b == EntryLen(a, d, f, off)
           t == packEntry(e, f, q, compress)
<1>0. d[1] = LenKind(k) /\ d[2] = e[2]  BY DEF LenEntry
<1>a. a0 = [len |-> a0.len, c |-> a0.c] /\ a0.len \in Nat /\ a = [len |-> a.len, c |-> a.c] /\ a.len \in Nat /\ ~q.err /\ p.cap \in Nat
  BY DEF IsLength, Grown, Sound, Covers, IsBuffer
<1>b. off0 + b0.len < p.cap  OBVIOUS
<1> HIDE DEF d
<1>1. CASE k \in Names /\ LenKind(k) = k
  <2> DEFINE yes == k = "CDomainName"
             both == compress /\ yes
  <2>1. /\ b0 = NameLen(a0, v, off0, yes) /\ b = NameLen(a, v, off, yes) /\ IsNameField(v)
        /\ t = packDomainName(v, q, both)
    BY <1>0, <1>1, <1>a DEF EntryLen, IsEncodable, packEntry, Names
  <2>2. both \in BOOLEAN /\ yes \in BOOLEAN /\ (p.valid => both = yes)  OBVIOUS
  <2>3. off0 + a0.len + PlainLen(v) < p.cap
    <3> DEFINE c == a0.c
               o == off0 + a0.len
               r == domainNameLen(v, o, c, yes)
    <3>1. b0.len = a0.len + r.len  BY <2>1 DEF NameLen, AddName
    <3>2. r.len = PlainLen(v)
      <4>1. ~c.valid  OBVIOUS
      <4> HIDE DEF c, o, v, yes
      <4> QED BY <4>1, PlainNameLen
    <3>3. PlainLen(v) \in Nat  BY <2>1, PlainLenNat
    <3> HIDE DEF b0, r
    <3> QED BY <1>a, <1>b, <3>1, <3>2, <3>3
  <2> HIDE DEF b0, b, t, both, yes, v
  <2>4. Grown(p, packDomainName(v, q, both), H, off0, b0, off, b)  BY <2>1, <2>2, <2>3, NameGrown
  <2> QED BY <2>1, <2>4 DEF b0, b, t, d
<1>2. CASE k = "DataDomainNames" /\ LenKind(k) = k
  <2>1. /\ b0 = NamesLen(a0, v, off0) /\ b = NamesLen(a, v, off)
        /\ IsSeq(v) /\ \A i \in 1..Len(v) : IsNameField(v[i])
        /\ t = packDataDomainNames(v, q)
    BY <1>0, <1>2, <1>a DEF EntryLen, IsEncodable, packEntry, Names
  <2> HIDE DEF v
  <2>2. off0 + NamesLen(a0, v, off0).len < p.cap  BY <1>b, <2>1
  <2>3. Grown(p, packDataDomainNames(v, q), H, off0, NamesLen(a0, v, off0), off, NamesLen(a, v, off))
    BY <2>1, <2>2, NamesGrown
  <2> HIDE DEF b0, b, t
  <2> QED BY <2>1, <2>3 DEF b0, b, t, d
<1>3. CASE k = "IPSECGateway" /\ LenKind(k) = k
  <2> DEFINE n == GatewayLen(f)
  <2>1. b0 = AddOctets(a0, n) /\ b = AddOctets(a, n) /\ IsGateway(f) /\ t = packIPSECGateway(f, q)
    BY <1>0, <1>3, <1>a DEF EntryLen, IsEncodable, packEntry, Names
  <2>2. n \in Nat  BY <2>1, GatewayLenNat
  <2> HIDE DEF n
  <2>3. b0.len = a0.len + n  BY <1>a, <2>1 DEF AddOctets
  <2> HIDE DEF b0, b, t
  <2>4. off0 + a0.len + n < p.cap  BY <1>a, <1>b, <2>2, <2>3
  <2>5. Grown(p, packIPSECGateway(f, q), H, off0, AddOctets(a0, n), off, AddOctets(a, n))
    BY <2>1, <2>4, GatewayGrown DEF n
  <2> QED BY <2>1, <2>5 DEF b0, b, t, d
<1>4. CASE k \in PlainKinds /\ LenKind(k) \notin Names \cup {"DataDomainNames", "IPSECGateway"}
            /\ k \notin Names \cup {"DataDomainNames", "IPSECGateway"}
  <2> DEFINE n == FieldLen(LenKind(k), v)
             o == FieldOctets(k, v)
             room == NeedsRoom(k, v)
  <2>1. b0 = AddOctets(a0, n) /\ b = AddOctets(a, n)  BY <1>0, <1>4 DEF EntryLen
  <2>2. IsValue(k, v) /\ ~o.err  BY <1>4 DEF IsEncodable
  <2>3. t = PutEncoded(q, o, room)  BY <1>4, <1>a DEF packEntry, PutField
  <2>4. Fits(o, n)  BY <1>4, <2>2, FieldFits
  <2>5. n \in Nat  BY <2>4 DEF Fits
  <2> HIDE DEF n, o, room
  <2>6. b0.len = a0.len + n  BY <1>a, <2>1 DEF AddOctets
  <2> HIDE DEF b0, b, t
  <2>7. off0 + a0.len + n < p.cap  BY <1>a, <1>b, <2>5, <2>6
  <2>8. Grown(p, PutEncoded(q, o, room), H, off0, AddOctets(a0, n), off, AddOctets(a, n))
    BY <2>2, <2>4, <2>7, OctetsGrown
  <2> QED BY <2>1, <2>3, <2>8 DEF b0, b, t, d
<1> QED BY <1>1, <1>2, <1>3, <1>4, KindSplit

\* The lengths of the fields of a row without compression, wherever they start.
LEMMA RowPlain ==
  ASSUME NEW row, NEW lens, NEW f, IsRow(row, lens, f), NEW a, IsLength(a), ~a.c.valid, NEW off, NEW off1,
         NEW g, Steps(g, Len(row), a, [of |-> "EntriesLen", s |-> lens, f |-> f, off |-> off]),
         NEW h, Steps(h, Len(row), a, [of |-> "EntriesLen", s |-> lens, f |-> f, off |-> off1])
  PROVE  \A k \in 0..Len(row) : IsLength(g[k]) /\ g[k].c = a.c /\ a.len <= g[k].len /\ g[k].len <= g[Len(row)].len /\ g[k] = h[k]
<1> DEFINE n == Len(row)
           S == {k \in 0..n : IsLength(g[k]) /\ g[k].c = a.c /\ g[k] = h[k]}
<1>1. n \in Nat  BY DEF IsRow, IsSeq
<1> HIDE DEF n
<1>2. 0 \in S  BY <1>1 DEF Steps
<1>3. ASSUME NEW k \in 1..n, IsLength(g[k - 1]), g[k - 1].c = a.c, g[k - 1] = h[k - 1]
      PROVE  IsLength(g[k]) /\ g[k].c = a.c /\ g[k - 1].len <= g[k].len /\ g[k] = h[k]
  <2> DEFINE u == g[k - 1]
             e == row[k]
  <2>1. g[k] = EntryLen(u, LenEntry(e), f, off) /\ h[k] = EntryLen(u, LenEntry(e), f, off1)
    BY <1>3 DEF Steps, Turn, IsRow, n
  <2>2. e[1] \in FieldKinds /\ IsEncodable(e, f) /\ IsLength(u) /\ ~u.c.valid /\ u.c = a.c
    BY <1>3 DEF IsRow, n
  <2> HIDE DEF u, e
  <2>3. IsLength(g[k]) /\ g[k].c = u.c /\ u.len <= g[k].len /\ g[k] = h[k]  BY <2>1, <2>2, EntryPlain
  <2> QED BY <2>2, <2>3 DEF u
<1>4. ASSUME NEW k \in 1..n, k - 1 \in S PROVE k \in S  BY <1>1, <1>3, <1>4
<1>5. \A k \in 0..n : k \in S
  <2> HIDE DEF S
  <2> QED BY <1>1, <1>2, <1>4, UpTo
<1>6. \A k \in 0..n : IsLength(g[k]) /\ g[k].c = a.c /\ g[k] = h[k]  BY <1>5
<1> HIDE DEF S
<1> DEFINE l == [k \in 0..n |-> g[k].len]
<1>7. \A k \in 0..n : l[k] = g[k].len /\ l[k] \in Nat  BY <1>6 DEF IsLength
<1>8. \A k \in 1..n : l[k - 1] <= l[k]
  <2> SUFFICES ASSUME NEW k \in 1..n PROVE l[k - 1] <= l[k]  OBVIOUS
  <2>1. k - 1 \in 0..n /\ k \in 0..n  BY <1>1
  <2> HIDE DEF l
  <2> QED BY <1>3, <1>6, <1>7, <2>1
<1> HIDE DEF l
<1>9. \A k \in 0..n : l[k] <= l[n] /\ l[0] <= l[k]  BY <1>1, <1>7, <1>8, Rising
<1>10. n \in 0..n /\ 0 \in 0..n /\ g[0] = a  BY <1>1 DEF Steps
<1>11. \A k \in 0..n : a.len <= g[k].len /\ g[k].len <= g[n].len  BY <1>7, <1>9, <1>10
<1> QED BY <1>6, <1>11 DEF n

\* The fields of a row are covered by what len counts for them.
LEMMA RowGrown ==
  ASSUME NEW row, NEW lens, NEW f, IsRow(row, lens, f), NEW compress \in BOOLEAN,
         NEW p, NEW q, NEW H, NEW off0 \in Int, NEW a0, NEW off \in Nat, NEW a, IsBuffer(p),
         Grown(p, q, H, off0, a0, off, a), ~a0.c.valid, p.valid => compress,
         off0 + EntriesLen(a0, lens, f, off0).len < p.cap
  PROVE  Grown(p, packEntries(row, f, q, compress), H, off0, EntriesLen(a0, lens, f, off0), off, EntriesLen(a, lens, f, off))
<1> DEFINE n == Len(row)
           loop0 == [of |-> "EntriesLen", s |-> lens, f |-> f, off |-> off0]
           loop == [of |-> "EntriesLen", s |-> lens, f |-> f, off |-> off]
           pack == [of |-> "packEntries", s |-> row, f |-> f, compress |-> compress]
<1>1. n \in Nat /\ IsSeq(row) /\ IsSeq(lens) /\ Len(lens) = n  BY DEF IsRow, IsSeq
<1>2. IsLength(a0)  BY DEF Grown
<1>3. PICK g0 : Steps(g0, n, a0, loop0) /\ EntriesLen(a0, lens, f, off0) = g0[n]  BY <1>1, EntriesLenLoop
<1>4. PICK g : Steps(g, n, a, loop) /\ EntriesLen(a, lens, f, off) = g[n]  BY <1>1, EntriesLenLoop
<1>5. PICK h : Steps(h, n, q, pack) /\ packEntries(row, f, q, compress) = h[n]  BY <1>1, EntriesLoop
<1>6. \A k \in 0..n : IsLength(g0[k]) /\ g0[k].c = a0.c /\ g0[k].len <= g0[n].len  BY <1>2, <1>3, RowPlain
<1> HIDE DEF n
<1> DEFINE S == {k \in 0..n : Grown(p, h[k], H, off0, g0[k], off, g[k])}
<1>8. 0 \in S
  <2>1. h[0] = q /\ g0[0] = a0 /\ g[0] = a  BY <1>3, <1>4, <1>5 DEF Steps
  <2> QED BY <1>1, <2>1
<1>9. ASSUME NEW k \in 1..n, k - 1 \in S PROVE k \in S
  <2> DEFINE u == h[k - 1]
             x0 == g0[k - 1]
             x == g[k - 1]
             e == row[k]
  <2>1. Grown(p, u, H, off0, x0, off, x)  BY <1>9
  <2>2. h[k] = packEntry(e, f, u, compress) /\ g0[k] = EntryLen(x0, LenEntry(e), f, off0) /\ g[k] = EntryLen(x, LenEntry(e), f, off)
    BY <1>3, <1>4, <1>5 DEF Steps, Turn, IsRow, n
  <2>3. k - 1 \in 0..n /\ k \in 0..n /\ n \in 0..n  BY <1>1
  <2>4. ~x0.c.valid  BY <1>6, <2>3
  <2>5. e[1] \in FieldKinds /\ IsEncodable(e, f)  BY DEF IsRow, n
  <2>6. off0 + g0[k].len < p.cap
    <3>1. g0[k].len \in Nat /\ g0[n].len \in Nat /\ g0[k].len <= g0[n].len  BY <1>6, <2>3 DEF IsLength
    <3>2. off0 + g0[n].len < p.cap /\ p.cap \in Nat  BY <1>3 DEF IsBuffer
    <3> QED BY <3>1, <3>2
  <2>7. off0 + EntryLen(x0, LenEntry(e), f, off0).len < p.cap  BY <2>2, <2>6
  <2> HIDE DEF u, x0, x, e
  <2>8. Grown(p, packEntry(e, f, u, compress), H, off0, EntryLen(x0, LenEntry(e), f, off0), off, EntryLen(x, LenEntry(e), f, off))
    BY <2>1, <2>4, <2>5, <2>7, EntryGrown
  <2> QED BY <2>2, <2>3, <2>8
<1>10. \A k \in 0..n : k \in S
  <2> HIDE DEF S
  <2> QED BY <1>1, <1>8, <1>9, UpTo
<1>11. Grown(p, h[n], H, off0, g0[n], off, g[n])
  <2>1. n \in 0..n  BY <1>1
  <2> QED BY <1>10, <2>1
<1> QED BY <1>3, <1>4, <1>5, <1>11

\* Octets added twice.
LEMMA OctetsAdd ==
  ASSUME NEW a, IsLength(a), NEW n \in Nat, NEW k \in Nat
  PROVE  /\ AddOctets(AddOctets(a, n), k) = AddOctets(a, n + k)
         /\ IsLength(AddOctets(a, n)) /\ AddOctets(a, n).len = a.len + n /\ AddOctets(a, n).c = a.c
<1> DEFINE x == AddOctets(a, n)
           y == AddOctets(x, k)
           z == AddOctets(a, n + k)
<1>1. a = [len |-> a.len, c |-> a.c] /\ a.len \in Nat  BY DEF IsLength
<1>2. x = [len |-> a.len + n, c |-> a.c] /\ z = [len |-> a.len + (n + k), c |-> a.c]  BY <1>1 DEF AddOctets
<1>3. IsLength(x) /\ x.len = a.len + n /\ x.c = a.c  BY <1>1, <1>2 DEF IsLength
<1>4. y = [len |-> x.len + k, c |-> x.c]
  <2> HIDE DEF x
  <2> QED BY <1>2 DEF AddOctets
<1> HIDE DEF x, y, z
<1>5. x.len + k = a.len + (n + k)  BY <1>1, <1>3
<1>6. y = z  BY <1>2, <1>3, <1>4, <1>5
<1> QED BY <1>3, <1>6 DEF x, y, z

\* Longer estimates cover a field too.
LEMMA GrownMore ==
  ASSUME NEW p, NEW q, NEW H, NEW off0 \in Int, NEW a0, NEW off \in Nat, NEW a, Grown(p, q, H, off0, a0, off, a),
         NEW b0, IsLength(b0), a0.len <= b0.len, NEW b, IsLength(b), b.c = a.c, a.len <= b.len
  PROVE  Grown(p, q, H, off0, b0, off, b)
<1>1. Sound(q, H, off0 + a0.len, off + a.len, a.c) /\ Extends(p, q)  BY DEF Grown
<1>2. a0.len \in Nat /\ a.len \in Nat /\ b0.len \in Nat /\ b.len \in Nat  BY DEF Grown, IsLength
<1> DEFINE x0 == off0 + a0.len
           x == off + a.len
           y0 == off0 + b0.len
           y == off + b.len
           c == a.c
<1>a. x0 \in Nat  BY <1>1 DEF Sound, Covers
<1>3. x0 <= y0 /\ x <= y /\ y0 \in Nat /\ y \in Nat /\ Sound(q, H, x0, x, c)  BY <1>1, <1>2, <1>a
<1> HIDE DEF x0, x, y0, y, c
<1>4. Sound(q, H, y0, y, c)  BY <1>3, LengthsGrow
<1> QED BY <1>1, <1>4 DEF Grown, y0, y, c

\* One field of a record of which N octets are written.
LEMMA FieldStep ==
  ASSUME NEW e, e[1] \notin Names \cup {"DataDomainNames", "IPSECGateway"}, NEW f, NEW compress,
         ~FieldOctets(e[1], f[e[2]]).err, NEW n, Fits(FieldOctets(e[1], f[e[2]]), n), NEW N \in Nat,
         NEW p, NEW q, NEW H, NEW off0 \in Int, NEW a0, IsLength(a0), NEW off \in Nat, NEW a, IsLength(a), IsBuffer(p),
         Grown(p, q, H, off0, AddOctets(a0, N), off, AddOctets(a, N)), off0 + a0.len + N + n < p.cap
  PROVE  n \in Nat /\ Grown(p, packEntry(e, f, q, compress), H, off0, AddOctets(a0, N + n), off, AddOctets(a, N + n))
<1> DEFINE o == FieldOctets(e[1], f[e[2]])
           room == NeedsRoom(e[1], f[e[2]])
           x0 == AddOctets(a0, N)
           x == AddOctets(a, N)
<1>1. n \in Nat  BY DEF Fits
<1>2. /\ AddOctets(x0, n) = AddOctets(a0, N + n) /\ AddOctets(x, n) = AddOctets(a, N + n)
      /\ x0.len = a0.len + N
  BY <1>1, OctetsAdd
<1>3. a0.len \in Nat /\ p.cap \in Nat /\ ~q.err  BY DEF IsLength, IsBuffer, Grown, Sound, Covers
<1>4. packEntry(e, f, q, compress) = PutEncoded(q, o, room)  BY <1>3 DEF packEntry, PutField
<1>5. ~o.err /\ Fits(o, n) /\ Grown(p, q, H, off0, x0, off, x)  OBVIOUS
<1> HIDE DEF o, room, x0, x
<1>6. off0 + x0.len + n < p.cap  BY <1>1, <1>2, <1>3
<1>7. Grown(p, PutEncoded(q, o, room), H, off0, AddOctets(x0, n), off, AddOctets(x, n))
  BY <1>5, <1>6, OctetsGrown
<1> QED BY <1>1, <1>2, <1>4, <1>7

\* What the fields of NSEC3 write.
LEMMA NSEC3Fields ==
  ASSUME NEW f, \A i \in 1..Len(NSEC3Row) : IsEncodable(NSEC3Row[i], f)
  PROVE  /\ \A i \in 1..8 : NSEC3Row[i][1] \notin Names \cup {"DataDomainNames", "IPSECGateway"} /\ ~FieldOctets(NSEC3Row[i][1], f[NSEC3Row[i][2]]).err
         /\ Len(NSEC3Row) = 8
         /\ \A i \in {1, 2, 4, 6} : Fits(FieldOctets(NSEC3Row[i][1], f[NSEC3Row[i][2]]), 1)
         /\ Fits(FieldOctets(NSEC3Row[3][1], f[NSEC3Row[3][2]]), 2)
         /\ Fits(FieldOctets(NSEC3Row[5][1], f[NSEC3Row[5][2]]), Len(f["Salt"]) \div 2)
         /\ Fits(FieldOctets(NSEC3Row[7][1], f[NSEC3Row[7][2]]), Len(f["NextDomain"]) + 1)
         /\ Fits(FieldOctets(NSEC3Row[8][1], f[NSEC3Row[8][2]]), typeBitMapLen(f["TypeBitMap"]))
<1>1. NSEC3Row =
         <<<<"Uint8", "Hash">>, <<"Uint8", "Flags">>, <<"Uint16", "Iterations">>, <<"Uint8", "SaltLength">>,
           <<"StringHexSalt", "Salt">>, <<"Uint8", "HashLength">>, <<"StringBase32", "NextDomain">>,
           <<"DataNsec", "TypeBitMap">>>>
  BY RowsAgree DEF NSEC3Row
<1>2. Len(NSEC3Row) = 8  BY <1>1
<1>3. /\ NSEC3Row[1] = <<"Uint8", "Hash">> /\ NSEC3Row[2] = <<"Uint8", "Flags">> /\ NSEC3Row[3] = <<"Uint16", "Iterations">>
      /\ NSEC3Row[4] = <<"Uint8", "SaltLength">> /\ NSEC3Row[5] = <<"StringHexSalt", "Salt">> /\ NSEC3Row[6] = <<"Uint8", "HashLength">>
      /\ NSEC3Row[7] = <<"StringBase32", "NextDomain">> /\ NSEC3Row[8] = <<"DataNsec", "TypeBitMap">>
  BY <1>1
<1>4. ASSUME NEW i \in 1..8
      PROVE /\ NSEC3Row[i][1] \notin Names \cup {"DataDomainNames", "IPSECGateway"}
            /\ NSEC3Row[i][1] # "StringBase32" => NSEC3Row[i][1] \in PlainKinds
  BY SMTT(20), <1>3, UintNames DEF Names, PlainKinds
<1>5. ASSUME NEW i \in 1..8
      PROVE IsValue(NSEC3Row[i][1], f[NSEC3Row[i][2]]) /\ ~FieldOctets(NSEC3Row[i][1], f[NSEC3Row[i][2]]).err
  <2>1. IsEncodable(NSEC3Row[i], f)  BY <1>2
  <2>2. NSEC3Row[i][1] \notin Names \cup {"DataDomainNames", "IPSECGateway"}  BY <1>4
  <2> QED BY <2>1, <2>2 DEF IsEncodable
<1>6. ASSUME NEW i \in 1..8, NSEC3Row[i][1] # "StringBase32"
      PROVE Fits(FieldOctets(NSEC3Row[i][1], f[NSEC3Row[i][2]]), FieldLen(LenKind(NSEC3Row[i][1]), f[NSEC3Row[i][2]]))
  BY <1>4, <1>5, <1>6, FieldFits
<1>7. /\ \A v : FieldLen(LenKind("Uint8"), v) = 1 /\ FieldLen(LenKind("Uint16"), v) = 2
      /\ \A v : FieldLen(LenKind("StringHexSalt"), v) = Len(v) \div 2 /\ FieldLen(LenKind("DataNsec"), v) = typeBitMapLen(v)
  BY UintNames DEF FieldLen, LenKind, Width
<1>8. Fits(FieldOctets("StringBase32", f["NextDomain"]), Len(f["NextDomain"]) + 1)
  <2>1. IsValue("StringBase32", f["NextDomain"])  BY <1>3, <1>5
  <2>2. f["NextDomain"] \in Seq(Byte)  BY <2>1, UintNames DEF IsValue
  <2>3. FieldOctets("StringBase32", f["NextDomain"]) = fromBase32(f["NextDomain"])
    BY UintNames DEF FieldOctets
  <2> QED BY <2>2, <2>3, SeqIsSeq, Base32Fits
<1> DEFINE n(i) == FieldLen(LenKind(NSEC3Row[i][1]), f[NSEC3Row[i][2]])
           o(i) == FieldOctets(NSEC3Row[i][1], f[NSEC3Row[i][2]])
<1>9. n(1) = 1 /\ n(2) = 1 /\ n(3) = 2 /\ n(4) = 1 /\ n(6) = 1  BY <1>3, <1>7
<1>10. n(5) = Len(f["Salt"]) \div 2 /\ n(8) = typeBitMapLen(f["TypeBitMap"])
  <2>1. NSEC3Row[5][1] = "StringHexSalt" /\ NSEC3Row[5][2] = "Salt" /\ NSEC3Row[8][1] = "DataNsec" /\ NSEC3Row[8][2] = "TypeBitMap"
    BY <1>3
  <2> QED BY <1>7, <2>1, Zenon
<1>11. Fits(o(1), n(1)) /\ Fits(o(2), n(2)) /\ Fits(o(3), n(3)) /\ Fits(o(4), n(4)) /\ Fits(o(5), n(5)) /\ Fits(o(6), n(6)) /\ Fits(o(8), n(8))
  <2>1. \A i \in {1, 2, 3, 4, 5, 6, 8} : i \in 1..8 /\ NSEC3Row[i][1] # "StringBase32"  BY <1>3
  <2> QED BY <1>6, <2>1
<1>12. Fits(o(7), Len(f["NextDomain"]) + 1)  BY <1>3, <1>8
<1>13. \A i \in 1..8 : NSEC3Row[i][1] \notin Names \cup {"DataDomainNames", "IPSECGateway"} /\ ~o(i).err
  BY <1>4, <1>5
<1> HIDE DEF n, o
<1>14. Fits(o(1), 1) /\ Fits(o(2), 1) /\ Fits(o(3), 2) /\ Fits(o(4), 1) /\ Fits(o(6), 1)
  BY <1>9, <1>11, Zenon
<1>15. Fits(o(5), Len(f["Salt"]) \div 2) /\ Fits(o(8), typeBitMapLen(f["TypeBitMap"]))  BY <1>10, <1>11, Zenon
<1>16. \A i \in {1, 2, 4, 6} : Fits(o(i), 1)  BY <1>14, Zenon
<1> QED BY <1>2, <1>12, <1>13, <1>14, <1>15, <1>16, Zenon DEF o

\* The next hashed owner is a string.
LEMMA NSEC3Next ==
  ASSUME NEW f, \A i \in 1..Len(NSEC3Row) : IsEncodable(NSEC3Row[i], f)
  PROVE  IsSeq(f["NextDomain"])
<1>1. Len(NSEC3Row) = 8  BY NSEC3Fields
<1>2. IsEncodable(NSEC3Row[7], f)  BY <1>1
<1>3. NSEC3Row[7] = <<"StringBase32", "NextDomain">>  BY RowsAgree DEF NSEC3Row
<1>4. IsValue("StringBase32", f["NextDomain"])  BY <1>2, <1>3 DEF IsEncodable, Names
<1>5. f["NextDomain"] \in Seq(Byte)  BY <1>4, UintNames DEF IsValue
<1> QED BY <1>5, SeqIsSeq

\* The len of NSEC3, which is written by hand.
LEMMA NSEC3Plain ==
  ASSUME NEW f, \A i \in 1..Len(NSEC3Row) : IsEncodable(NSEC3Row[i], f), NEW a, IsLength(a), NEW off
  PROVE  NSEC3Len(f) \in Nat /\ EntriesLen(a, LenRow("NSEC3"), f, off) = AddOctets(a, NSEC3Len(f))
<1> DEFINE row == LenRow("NSEC3")
           s == Len(f["Salt"]) \div 2
           d == Len(f["NextDomain"])
           t == typeBitMapLen(f["TypeBitMap"])
           loop == [of |-> "EntriesLen", s |-> row, f |-> f, off |-> off]
<1>1. row = Len_NSEC3  BY RowsAgree
<1>2. IsSeq(row) /\ Len(row) = 5  BY <1>1 DEF Len_NSEC3, IsSeq
<1>3. /\ row[1] = <<"Six", "Hash">> /\ row[2] = <<"StringHex", "Salt">> /\ row[3] = <<"String", "NextDomain">>
      /\ row[4] = <<"Uint8", "HashLength">> /\ row[5] = <<"DataNsec", "TypeBitMap">>
  BY <1>1 DEF Len_NSEC3
<1> HIDE DEF row
<1>4. PICK g : Steps(g, Len(row), a, loop) /\ EntriesLen(a, row, f, off) = g[Len(row)]
  BY <1>2, EntriesLenLoop
<1>5. ASSUME NEW k \in 1..5 PROVE g[k] = EntryLen(g[k - 1], row[k], f, off)  BY <1>2, <1>4 DEF Steps, Turn
<1>6. ASSUME NEW k \in 1..5, NEW u PROVE EntryLen(u, row[k], f, off) = AddOctets(u, FieldLen(row[k][1], f[row[k][2]]))
  BY <1>3 DEF EntryLen, Names
<1>7. /\ FieldLen(row[1][1], f[row[1][2]]) = 6 /\ FieldLen(row[2][1], f[row[2][2]]) = s
      /\ FieldLen(row[3][1], f[row[3][2]]) = d + 1 /\ FieldLen(row[4][1], f[row[4][2]]) = 1 /\ FieldLen(row[5][1], f[row[5][2]]) = t
  <2>1. /\ \A v : FieldLen("Uint8", v) = 1 /\ FieldLen("Six", v) = 6
        /\ \A v : FieldLen("StringHex", v) = Len(v) \div 2 /\ FieldLen("DataNsec", v) = typeBitMapLen(v)
        /\ \A v : FieldLen("String", v) = Len(v) + 1
    BY UintNames DEF FieldLen, Width
  <2>2. /\ row[1][1] = "Six" /\ row[2][1] = "StringHex" /\ row[2][2] = "Salt" /\ row[3][1] = "String" /\ row[3][2] = "NextDomain"
        /\ row[4][1] = "Uint8" /\ row[5][1] = "DataNsec" /\ row[5][2] = "TypeBitMap"
    BY <1>3
  <2> QED BY <2>1, <2>2, Zenon
<1>8. s \in Nat /\ d + 1 \in Nat /\ t \in Nat  BY NSEC3Fields DEF Fits
<1>9. d \in Nat  BY NSEC3Next DEF IsSeq
<1>10. NSEC3Len(f) = 8 + s + d + t  BY DEF NSEC3Len
<1> HIDE DEF s, d, t, loop
<1>11. g[0] = a  BY <1>4 DEF Steps
<1>12. g[1] = AddOctets(a, 6)  BY <1>5, <1>6, <1>7, <1>11
<1>13. g[2] = AddOctets(a, 6 + s)
  <2>1. g[2] = AddOctets(g[1], s)  BY <1>5, <1>6, <1>7
  <2>2. g[2] = AddOctets(AddOctets(a, 6), s) /\ 6 \in Nat  BY <1>12, <2>1
  <2> QED BY <1>8, <2>2, OctetsAdd
<1>14. g[3] = AddOctets(a, 7 + s + d)
  <2>1. g[3] = AddOctets(g[2], d + 1)  BY <1>5, <1>6, <1>7
  <2> DEFINE n == 6 + s
             k == d + 1
             z == 7 + s + d
  <2>2. n \in Nat /\ k \in Nat /\ n + k = z  BY <1>8, <1>9
  <2>3. g[3] = AddOctets(AddOctets(a, n), k)  BY <1>13, <2>1
  <2> HIDE DEF n, k, z
  <2>4. g[3] = AddOctets(a, z)  BY <2>2, <2>3, OctetsAdd
  <2> QED BY <2>4 DEF z
<1>15. g[4] = AddOctets(a, 8 + s + d)
  <2>1. g[4] = AddOctets(g[3], 1)  BY <1>5, <1>6, <1>7
  <2> DEFINE n == 7 + s + d
             k == 1
             z == 8 + s + d
  <2>2. n \in Nat /\ k \in Nat /\ n + k = z  BY <1>8, <1>9
  <2>3. g[4] = AddOctets(AddOctets(a, n), k)  BY <1>14, <2>1
  <2> HIDE DEF n, k, z
  <2>4. g[4] = AddOctets(a, z)  BY <2>2, <2>3, OctetsAdd
  <2> QED BY <2>4 DEF z
<1>16. g[5] = AddOctets(a, 8 + s + d + t)
  <2>1. g[5] = AddOctets(g[4], t)  BY <1>5, <1>6, <1>7
  <2> DEFINE n == 8 + s + d
  <2>2. n \in Nat  BY <1>8, <1>9
  <2>3. g[5] = AddOctets(AddOctets(a, n), t)  BY <1>15, <2>1
  <2> HIDE DEF n
  <2>4. g[5] = AddOctets(a, n + t)  BY <1>8, <2>2, <2>3, OctetsAdd
  <2> QED BY <2>4 DEF n
<1>17. 8 + s + d + t \in Nat  BY <1>8, <1>9
<1>18. EntriesLen(a, row, f, off) = g[5]  BY <1>2, <1>4
<1> QED BY <1>10, <1>16, <1>17, <1>18 DEF row

\* The fields of NSEC3 are covered by the length written by hand.
LEMMA NSEC3Grown ==
  ASSUME NEW f, \A i \in 1..Len(NSEC3Row) : IsEncodable(NSEC3Row[i], f), NEW compress,
         NEW p, NEW q, NEW H, NEW off0 \in Int, NEW a0, NEW off \in Nat, NEW a, IsBuffer(p),
         Grown(p, q, H, off0, a0, off, a), off0 + a0.len + NSEC3Len(f) < p.cap
  PROVE  Grown(p, packEntries(NSEC3Row, f, q, compress), H, off0, AddOctets(a0, NSEC3Len(f)), off, AddOctets(a, NSEC3Len(f)))
<1> DEFINE row == NSEC3Row
           s == Len(f["Salt"]) \div 2
           d == Len(f["NextDomain"])
           t == typeBitMapLen(f["TypeBitMap"])
           l0 == off0 + a0.len
           loop == [of |-> "packEntries", s |-> row, f |-> f, compress |-> compress]
           G(u, n) == Grown(p, u, H, off0, AddOctets(a0, n), off, AddOctets(a, n))
<1>1. IsLength(a0) /\ IsLength(a) /\ a0.len \in Nat /\ a.len \in Nat /\ p.cap \in Nat
  BY DEF Grown, IsLength, IsBuffer
<1>2. IsSeq(row) /\ Len(row) = 8
  <2>1. Len(row) = 8  BY NSEC3Fields
  <2>2. IsSeq(row)  BY RowsAgree DEF NSEC3Row, IsSeq
  <2> QED BY <2>1, <2>2
<1>3. NSEC3Len(f) \in Nat /\ NSEC3Len(f) = 8 + s + d + t  BY <1>1, NSEC3Plain DEF NSEC3Len
<1>4. /\ \A i \in 1..8 : row[i][1] \notin Names \cup {"DataDomainNames", "IPSECGateway"} /\ ~FieldOctets(row[i][1], f[row[i][2]]).err
      /\ \A i \in {1, 2, 4, 6} : Fits(FieldOctets(row[i][1], f[row[i][2]]), 1)
      /\ Fits(FieldOctets(row[3][1], f[row[3][2]]), 2)
      /\ Fits(FieldOctets(row[5][1], f[row[5][2]]), s)
      /\ Fits(FieldOctets(row[7][1], f[row[7][2]]), d + 1)
      /\ Fits(FieldOctets(row[8][1], f[row[8][2]]), t)
  BY NSEC3Fields
<1>5. s \in Nat /\ d \in Nat /\ t \in Nat
  <2>1. s \in Nat /\ d + 1 \in Nat /\ t \in Nat  BY <1>4 DEF Fits
  <2>2. IsSeq(f["NextDomain"])  BY NSEC3Next
  <2> QED BY <2>1, <2>2 DEF IsSeq
<1> HIDE DEF row, s, d, t
<1>6. PICK h : Steps(h, Len(row), q, loop) /\ packEntries(row, f, q, compress) = h[Len(row)]
  BY <1>2, EntriesLoop
<1>7. ASSUME NEW k \in 1..8 PROVE h[k] = packEntry(row[k], f, h[k - 1], compress)
  BY <1>2, <1>6 DEF Steps, Turn
<1> HIDE DEF l0
<1>8. l0 \in Int /\ l0 + 8 + s + d + t < p.cap
  <2> DEFINE n == NSEC3Len(f)
             cap == p.cap
  <2>1. l0 \in Int /\ l0 + n < cap /\ n = 8 + s + d + t /\ cap \in Nat  BY <1>1, <1>3 DEF l0
  <2> HIDE DEF n, cap
  <2>2. l0 + 8 + s + d + t < cap  BY <1>5, <2>1
  <2> QED BY <2>1, <2>2 DEF cap
<1>9. ASSUME NEW i \in 1..8, NEW n, Fits(FieldOctets(row[i][1], f[row[i][2]]), n), NEW N \in Nat, G(h[i - 1], N),
             NEW z, z = N + n, l0 + z < p.cap
      PROVE  G(h[i], z)
  <2> DEFINE e == row[i]
             u == h[i - 1]
  <2>1. e[1] \notin Names \cup {"DataDomainNames", "IPSECGateway"} /\ ~FieldOctets(e[1], f[e[2]]).err /\ Fits(FieldOctets(e[1], f[e[2]]), n)
    BY <1>4, <1>9
  <2>2. Grown(p, u, H, off0, AddOctets(a0, N), off, AddOctets(a, N))  BY <1>9
  <2>3. off0 + a0.len + N + n < p.cap  BY <1>1, <1>9, <2>1 DEF l0, Fits
  <2>4. h[i] = packEntry(e, f, u, compress)  BY <1>7
  <2> HIDE DEF e, u
  <2>5. Grown(p, packEntry(e, f, u, compress), H, off0, AddOctets(a0, N + n), off, AddOctets(a, N + n))
    BY <1>1, <2>1, <2>2, <2>3, FieldStep
  <2> QED BY <1>9, <2>4, <2>5
<1>10. G(h[0], 0)
  <2>1. h[0] = q  BY <1>6 DEF Steps
  <2>2. AddOctets(a0, 0) = a0 /\ AddOctets(a, 0) = a  BY <1>1 DEF AddOctets, IsLength
  <2> QED BY <2>1, <2>2
<1> HIDE DEF G
<1>11. G(h[1], 1)
  <2>1. 0 \in Nat /\ 1 = 0 + 1 /\ l0 + (1) < p.cap /\ 1 \in 1..8 /\ 1 - 1 = 0  BY <1>1, <1>5, <1>8
  <2> QED BY <1>4, <1>9, <1>10, <2>1
<1>12. G(h[2], 2)
  <2>1. 1 \in Nat /\ 2 = 1 + 1 /\ l0 + (2) < p.cap /\ 2 \in 1..8 /\ 2 - 1 = 1  BY <1>1, <1>5, <1>8
  <2> QED BY <1>4, <1>9, <1>11, <2>1
<1>13. G(h[3], 4)
  <2>1. 2 \in Nat /\ 4 = 2 + 2 /\ l0 + (4) < p.cap /\ 3 \in 1..8 /\ 3 - 1 = 2  BY <1>1, <1>5, <1>8
  <2> QED BY <1>4, <1>9, <1>12, <2>1
<1>14. G(h[4], 5)
  <2>1. 4 \in Nat /\ 5 = 4 + 1 /\ l0 + (5) < p.cap /\ 4 \in 1..8 /\ 4 - 1 = 3  BY <1>1, <1>5, <1>8
  <2> QED BY <1>4, <1>9, <1>13, <2>1
<1>15. G(h[5], 5 + s)
  <2>1. 5 \in Nat /\ 5 + s = 5 + s /\ l0 + (5 + s) < p.cap /\ 5 \in 1..8 /\ 5 - 1 = 4  BY <1>1, <1>5, <1>8
  <2> QED BY <1>4, <1>9, <1>14, <2>1
<1>16. G(h[6], 6 + s)
  <2>1. 5 + s \in Nat /\ 6 + s = 5 + s + 1 /\ l0 + (6 + s) < p.cap /\ 6 \in 1..8 /\ 6 - 1 = 5
    BY <1>1, <1>5, <1>8
  <2> QED BY <1>4, <1>9, <1>15, <2>1
<1>17. G(h[7], 7 + s + d)
  <2>1. 6 + s \in Nat /\ 7 + s + d = 6 + s + (d + 1) /\ l0 + (7 + s + d) < p.cap /\ 7 \in 1..8 /\ 7 - 1 = 6
    BY <1>1, <1>5, <1>8
  <2> QED BY <1>4, <1>9, <1>16, <2>1
<1>18. G(h[8], 7 + s + d + t)
  <2>1. 7 + s + d \in Nat /\ 7 + s + d + t = 7 + s + d + t /\ l0 + (7 + s + d + t) < p.cap /\ 8 \in 1..8 /\ 8 - 1 = 7
    BY <1>1, <1>5, <1>8
  <2> QED BY <1>4, <1>9, <1>17, <2>1
<1>19. Grown(p, h[8], H, off0, AddOctets(a0, NSEC3Len(f)), off, AddOctets(a, NSEC3Len(f)))
  <2> DEFINE n == 7 + s + d + t
             k == NSEC3Len(f)
             x0 == AddOctets(a0, n)
             x == AddOctets(a, n)
             y0 == AddOctets(a0, k)
             y == AddOctets(a, k)
  <2>1. n \in Nat /\ k \in Nat /\ n <= k  BY <1>3, <1>5
  <2>2. Grown(p, h[8], H, off0, x0, off, x)  BY <1>18 DEF G
  <2> HIDE DEF n, k
  <2>3. x0.len = a0.len + n /\ y0.len = a0.len + k /\ x.len = a.len + n /\ y.len = a.len + k /\ y.c = a.c /\ x.c = a.c
        /\ IsLength(y0) /\ IsLength(y)
    BY <1>1, <2>1, OctetsAdd
  <2> HIDE DEF x0, x, y0, y
  <2>4. x0.len <= y0.len /\ x.len <= y.len  BY <1>1, <2>1, <2>3
  <2>5. Grown(p, h[8], H, off0, y0, off, y)  BY <2>2, <2>3, <2>4, GrownMore
  <2> QED BY <2>5 DEF y0, y, k
<1> QED BY <1>2, <1>6, <1>19 DEF row

\* The rows of the other types agree with those of their len.
LEMMA RowsOf ==
  ASSUME NEW kind \in DOMAIN PackTable, kind # "NSEC3", NEW f, \A i \in 1..Len(PackTable[kind]) : IsEncodable(PackTable[kind][i], f)
  PROVE  IsRow(PackTable[kind], LenRow(kind), f)
<1> DEFINE row == PackTable[kind]
           lens == LenRow(kind)
           U == FieldKinds \X STRING
<1>1. row \in Seq(U) /\ lens = [i \in 1..Len(row) |-> <<LenKind(row[i][1]), row[i][2]>>]  BY RowsAgree
<1>2. \A i \in 1..Len(row) : IsEncodable(row[i], f)  OBVIOUS
<1> HIDE DEF row, lens, U
<1>3. IsSeq(row) /\ \A i \in 1..Len(row) : row[i] \in U  BY <1>1, SeqIsSeq
<1>4. \A i \in 1..Len(row) : row[i][1] \in FieldKinds  BY <1>3 DEF U
<1>5. Len(row) \in Nat  BY <1>3 DEF IsSeq
<1>6. \A i \in 1..Len(row) : lens[i] = LenEntry(row[i])  BY <1>1 DEF LenEntry
<1>7. lens = [i \in 1..Len(row) |-> lens[i]]  BY <1>1
<1>8. IsSeq(lens) /\ Len(lens) = Len(row)  BY <1>5, <1>7, FunctionIsSeq
<1>9. IsRow(row, lens, f)  BY <1>2, <1>3, <1>4, <1>6, <1>8 DEF IsRow
<1> QED BY <1>9 DEF row, lens

\* The length of the rdata without compression, wherever it starts.
LEMMA RdataPlain ==
  ASSUME NEW kind \in DOMAIN PackTable, NEW f, \A i \in 1..Len(PackTable[kind]) : IsEncodable(PackTable[kind][i], f),
         NEW a, IsLength(a), ~a.c.valid, NEW off, NEW off1, NEW b, b = EntriesLen(a, LenRow(kind), f, off)
  PROVE  IsLength(b) /\ b.c = a.c /\ a.len <= b.len /\ b = EntriesLen(a, LenRow(kind), f, off1)
<1>1. CASE kind = "NSEC3"
  <2> DEFINE n == NSEC3Len(f)
  <2>1. \A i \in 1..Len(NSEC3Row) : IsEncodable(NSEC3Row[i], f)  BY <1>1 DEF NSEC3Row
  <2>2. n \in Nat /\ b = AddOctets(a, n) /\ EntriesLen(a, LenRow(kind), f, off1) = AddOctets(a, n)
    BY <1>1, <2>1, NSEC3Plain
  <2> HIDE DEF n
  <2>3. IsLength(b) /\ b.len = a.len + n /\ b.c = a.c /\ a.len \in Nat  BY <2>2, OctetsAdd DEF IsLength
  <2> QED BY <2>2, <2>3
<1>2. CASE kind # "NSEC3"
  <2> DEFINE row == PackTable[kind]
             lens == LenRow(kind)
  <2>1. IsRow(row, lens, f)  BY <1>2, RowsOf
  <2>2. b = EntriesLen(a, lens, f, off)  OBVIOUS
  <2> HIDE DEF row, lens
  <2>3. IsSeq(lens) /\ Len(lens) = Len(row) /\ Len(row) \in Nat  BY <2>1 DEF IsRow, IsSeq
  <2>4. PICK g : Steps(g, Len(row), a, [of |-> "EntriesLen", s |-> lens, f |-> f, off |-> off]) /\ EntriesLen(a, lens, f, off) = g[Len(row)]
    BY <2>3, EntriesLenLoop
  <2>5. PICK h : Steps(h, Len(row), a, [of |-> "EntriesLen", s |-> lens, f |-> f, off |-> off1]) /\ EntriesLen(a, lens, f, off1) = h[Len(row)]
    BY <2>3, EntriesLenLoop
  <2>6. \A k \in 0..Len(row) : IsLength(g[k]) /\ g[k].c = a.c /\ a.len <= g[k].len /\ g[k] = h[k]
    BY <2>1, <2>4, <2>5, RowPlain
  <2>7. Len(row) \in 0..Len(row)  BY <2>3
  <2> QED BY <2>2, <2>4, <2>5, <2>6, <2>7 DEF lens
<1> QED BY <1>1, <1>2

\* The rdata of every type is covered by its len.
LEMMA RdataGrown ==
  ASSUME NEW kind \in DOMAIN PackTable, NEW f, \A i \in 1..Len(PackTable[kind]) : IsEncodable(PackTable[kind][i], f),
         NEW compress \in BOOLEAN, NEW p, NEW q, NEW H, NEW off0 \in Int, NEW a0, NEW off \in Nat, NEW a, IsBuffer(p),
         Grown(p, q, H, off0, a0, off, a), ~a0.c.valid, p.valid => compress,
         NEW b0, b0 = EntriesLen(a0, LenRow(kind), f, off0), off0 + b0.len < p.cap
  PROVE  Grown(p, packRdata(kind, f, q, compress), H, off0, b0, off, EntriesLen(a, LenRow(kind), f, off))
<1>a. IsLength(a0) /\ IsLength(a)  BY DEF Grown
<1>1. CASE kind = "NSEC3"
  <2> DEFINE n == NSEC3Len(f)
             row == NSEC3Row
  <2>1. \A i \in 1..Len(NSEC3Row) : IsEncodable(NSEC3Row[i], f)  BY <1>1 DEF NSEC3Row
  <2>2. n \in Nat /\ b0 = AddOctets(a0, n) /\ EntriesLen(a, LenRow(kind), f, off) = AddOctets(a, n)
    BY <1>1, <1>a, <2>1, NSEC3Plain
  <2>3. packRdata(kind, f, q, compress) = packEntries(row, f, q, compress)  BY <1>1 DEF packRdata, NSEC3Row
  <2> HIDE DEF n
  <2>4. b0.len = a0.len + n /\ a0.len \in Nat /\ p.cap \in Nat
    BY <1>a, <2>2, OctetsAdd DEF IsLength, IsBuffer
  <2>5. off0 + a0.len + n < p.cap  BY <2>2, <2>4
  <2>6. Grown(p, packEntries(NSEC3Row, f, q, compress), H, off0, AddOctets(a0, NSEC3Len(f)), off, AddOctets(a, NSEC3Len(f)))
    BY <2>1, <2>5, NSEC3Grown DEF n
  <2> QED BY <2>2, <2>3, <2>6 DEF n
<1>2. CASE kind # "NSEC3"
  <2> DEFINE row == PackTable[kind]
             lens == LenRow(kind)
  <2>1. IsRow(row, lens, f)  BY <1>2, RowsOf
  <2>2. b0 = EntriesLen(a0, lens, f, off0) /\ packRdata(kind, f, q, compress) = packEntries(row, f, q, compress)
    BY DEF packRdata
  <2> HIDE DEF row, lens
  <2>3. off0 + EntriesLen(a0, lens, f, off0).len < p.cap  BY <2>2
  <2>4. Grown(p, packEntries(row, f, q, compress), H, off0, EntriesLen(a0, lens, f, off0), off, EntriesLen(a, lens, f, off))
    BY <2>1, <2>3, RowGrown
  <2> QED BY <2>2, <2>4 DEF lens
<1> QED BY <1>1, <1>2

\* Which octets are still to be written: fewer of them, or some behind the message.
LEMMA SpelledBy ==
  ASSUME NEW msg, NEW H, NEW K, \A i \in Nat : i <= Len(msg) /\ i \in K => i \in H, NEW s, Labels(s), Len(s) >= 1, IsSeq(msg),
         NEW pos, SpelledAt(msg, H, s, pos)
  PROVE  SpelledAt(msg, K, s, pos)
<1>1. Len(msg) \in Nat /\ Len(s) \in Nat  BY DEF Labels, IsSeq
<1>2. pos \in [1..Len(s) -> Nat]  BY DEF SpelledAt
<1>3. ASSUME NEW i \in 1..(Len(s) - 1) PROVE LabelAt(msg, K, s[i], pos[i])
  <2>1. LabelAt(msg, H, s[i], pos[i])  BY DEF SpelledAt
  <2>2. pos[i] \in Nat /\ Len(s[i]) \in Nat  BY <1>1, <1>2 DEF Labels, IsSeq
  <2>3. pos[i] + 1 + Len(s[i]) <= Len(msg)  BY <2>1 DEF LabelAt
  <2>4. pos[i] + 1 \notin K
    <3>1. pos[i] + 1 \in Nat /\ pos[i] + 1 <= Len(msg)  BY <1>1, <2>2, <2>3
    <3> QED BY <2>1, <3>1 DEF LabelAt
  <2>5. ASSUME NEW j \in 1..Len(s[i]) PROVE pos[i] + 1 + j \notin K
    <3> DEFINE k == pos[i] + 1 + j
    <3>1. k \in Nat /\ k <= Len(msg)  BY SMTT(20), <1>1, <2>2, <2>3
    <3>2. k \notin H  BY <2>1 DEF LabelAt
    <3> HIDE DEF k
    <3>3. k \notin K  BY <3>1, <3>2
    <3> QED BY <3>3 DEF k
  <2> QED BY <2>1, <2>4, <2>5 DEF LabelAt
<1>4. ASSUME NEW i \in 1..(Len(s) - 1), NEW to, GoesOn(msg, H, pos[i] + 1 + Len(s[i]), to)
      PROVE  GoesOn(msg, K, pos[i] + 1 + Len(s[i]), to)
  <2> DEFINE at == pos[i] + 1 + Len(s[i])
  <2>1. at \in Nat  BY <1>1, <1>2 DEF Labels, IsSeq
  <2>2. GoesOn(msg, H, at, to)  BY <1>4
  <2> HIDE DEF at
  <2>3. at + 1 \in Nat /\ at + 1 <= Len(msg) /\ at + 2 \in Nat /\ at + 2 <= Len(msg)
    BY <1>1, <2>1, <2>2 DEF GoesOn
  <2>4. at + 1 \notin K /\ at + 2 \notin K  BY <2>2, <2>3 DEF GoesOn
  <2>5. GoesOn(msg, K, at, to)  BY <2>2, <2>4 DEF GoesOn
  <2> QED BY <2>5 DEF at
<1>5. pos[Len(s)] + 1 \notin K
  <2>1. Len(s) \in 1..Len(s)  BY <1>1
  <2>2. pos[Len(s)] + 1 \in Nat /\ pos[Len(s)] + 1 <= Len(msg)  BY <1>2, <2>1 DEF SpelledAt
  <2> QED BY <2>2 DEF SpelledAt
<1> QED BY <1>3, <1>4, <1>5 DEF SpelledAt

-----------------------------------------------------------------------------
(* Records.                                                                *)

\* A map is true whatever of the octets still to be written is known.
LEMMA MapBy ==
  ASSUME NEW p, IsSeq(p.msg), NEW H, NEW K, \A i \in Nat : i <= Len(p.msg) /\ i \in K => i \in H, TrueMap(p, H)
  PROVE  TrueMap(p, K)
<1>1. ASSUME NEW x \in DOMAIN p.comp PROVE Spelled(p.msg, K, x, p.comp[x])
  <2>1. IsName(x) /\ Spelled(p.msg, H, x, p.comp[x])  BY DEF TrueMap
  <2>2. PICK pos : SpelledAt(p.msg, H, x, pos) /\ pos[1] = p.comp[x]  BY <2>1 DEF Spelled
  <2>3. Labels(x) /\ Len(x) >= 1  BY <2>1, NameFacts
  <2> DEFINE msg == p.msg
  <2>5. IsSeq(msg) /\ (\A i \in Nat : i <= Len(msg) /\ i \in K => i \in H) /\ SpelledAt(msg, H, x, pos)
    BY <2>2
  <2> HIDE DEF msg
  <2>4. SpelledAt(msg, K, x, pos)  BY <2>5, <2>3, SpelledBy
  <2> QED BY <2>2, <2>4 DEF Spelled, msg
<1> QED BY <1>1 DEF TrueMap

\* The fixed part of the header of a record has ten octets.
LEMMA HeaderOctets ==
  ASSUME NEW rr, rr.ttl \in [1..4 -> Byte], NEW o, o = BE(rr.rrtype, 2) \o BE(rr.class, 2) \o rr.ttl \o BE(0, 2)
  PROVE  IsSeq(o) /\ Len(o) = 10
<1> DEFINE b == BE(rr.rrtype, 2)
           c == BE(rr.class, 2)
           t == rr.ttl
           z == BE(0, 2)
<1>1. IsSeq(b) /\ Len(b) = 2 /\ IsSeq(c) /\ Len(c) = 2 /\ IsSeq(z) /\ Len(z) = 2  BY BEFacts
<1>2. t = [i \in 1..4 |-> t[i]] /\ 4 \in Nat  OBVIOUS
<1>3. o = b \o c \o t \o z  OBVIOUS
<1> HIDE DEF b, c, t, z
<1>4. IsSeq(t) /\ Len(t) = 4  BY <1>2, FunctionIsSeq
<1> DEFINE u == b \o c
           w == u \o t
<1>5. IsSeq(u) /\ Len(u) = 4
  <2>1. IsSeq(u) /\ Len(u) = Len(b) + Len(c)  BY <1>1, Cat
  <2> QED BY <1>1, <2>1
<1>6. IsSeq(w) /\ Len(w) = 8
  <2> HIDE DEF u
  <2>1. IsSeq(w) /\ Len(w) = Len(u) + Len(t)  BY <1>4, <1>5, Cat
  <2> QED BY <1>4, <1>5, <2>1
<1>7. IsSeq(w \o z) /\ Len(w \o z) = 10
  <2> HIDE DEF w
  <2>1. IsSeq(w \o z) /\ Len(w \o z) = Len(w) + Len(z)  BY <1>1, <1>6, Cat
  <2> QED BY <1>1, <1>6, <2>1
<1> QED BY <1>3, <1>7

\* The header of a record is covered by its length.
LEMMA HeaderGrown ==
  ASSUME NEW rr, IsNameField(rr.name), rr.ttl \in [1..4 -> Byte], NEW p, NEW l0, NEW l, NEW c, Sound(p, {}, l0, l, c),
         NEW compress \in BOOLEAN, p.valid => compress, l0 + PlainLen(rr.name) + 10 <= p.cap,
         NEW h, h = packHeader(rr, p, compress), NEW d, d = domainNameLen(rr.name, l, c, TRUE)
  PROVE  /\ Sound(h, Rdlength(h), l0 + PlainLen(rr.name) + 10, l + d.len + 10, d.c) /\ Extends(p, h)
         /\ Len(h.msg) >= Len(p.msg) + 10
<1> DEFINE s == rr.name
           yes == TRUE
           n == PlainLen(s)
           q == packDomainName(s, p, compress)
           o == BE(rr.rrtype, 2) \o BE(rr.class, 2) \o rr.ttl \o BE(0, 2)
           H == Rdlength(h)
<1>1. IsBuffer(p) /\ ~p.err /\ Len(p.msg) \in Nat /\ Len(p.msg) <= l0 /\ p.cap \in Nat /\ l0 \in Nat /\ l \in Nat
  BY DEF Sound, Covers, IsBuffer, IsSeq
<1>2. n \in Nat  BY PlainLenNat
<1> HIDE DEF n
<1>3. ~ (Len(p.msg) = p.cap) /\ l0 + n < p.cap /\ l0 + n + 10 <= p.cap  BY <1>1, <1>2 DEF n
<1>4. h = Put(q, o)  BY <1>3 DEF packHeader
<1>5. IsSeq(o) /\ Len(o) = 10  BY HeaderOctets
<1> HIDE DEF o
<1>6. Sound(q, {}, l0 + n, l + d.len, d.c) /\ Extends(p, q)
  <2> DEFINE none == {}
  <2>1. Sound(p, none, l0, l, c) /\ IsNameField(s) /\ yes \in BOOLEAN /\ (p.valid => compress = yes) /\ l0 + PlainLen(s) < p.cap
        /\ d = domainNameLen(s, l, c, yes) /\ q = packDomainName(s, p, compress)
    BY <1>3 DEF n
  <2> HIDE DEF none, yes, s, q
  <2>2. Sound(q, none, l0 + PlainLen(s), l + d.len, d.c) /\ Extends(p, q)  BY <2>1, NameSound
  <2> QED BY <2>2 DEF none, n
<1> HIDE DEF q
<1>7. q.cap = p.cap /\ IsBuffer(q) /\ ~q.err /\ Len(q.msg) \in Nat /\ l0 + n \in Nat /\ Len(q.msg) <= l0 + n /\ Len(q.msg) >= Len(p.msg)
      /\ l + d.len \in Nat
  BY <1>6 DEF Extends, Sound, Covers, IsBuffer, IsSeq
<1>8. Sound(h, {}, l0 + n + 10, l + d.len + 10, d.c) /\ Extends(q, h)
  <2> DEFINE x0 == l0 + n
             x == l + d.len
             none == {}
  <2>1. x0 \in Nat /\ x \in Nat /\ Sound(q, none, x0, x, d.c)  BY <1>6, <1>7
  <2>3. x0 + 10 <= q.cap /\ 10 \in Nat /\ Len(o) <= 10
    <3>1. x0 + 10 <= p.cap  BY <1>3
    <3> HIDE DEF x0
    <3> QED BY <1>5, <1>7, <3>1
  <2> HIDE DEF x0, x, none
  <2>2. Sound(h, none, x0 + 10, x + 10, d.c) /\ Extends(q, h)  BY <1>4, <1>5, <2>1, <2>3, PutSound
  <2> QED BY <2>2 DEF x0, x, none
<1>9. h.comp = q.comp /\ Len(h.msg) = Len(q.msg) + 10
  <2>1. Len(q.msg) + 10 <= q.cap  BY <1>1, <1>2, <1>3, <1>7
  <2>2. Len(q.msg) + Len(o) <= q.cap  BY <1>5, <2>1
  <2> DEFINE new == Put(q, o)
  <2>3. new.comp = q.comp /\ Len(new.msg) = Len(q.msg) + Len(o)  BY <1>5, <1>7, <2>2, PutFits
  <2> QED BY <1>4, <1>5, <2>3
<1>10. TrueMap(h, H)
  <2>1. TrueMap(q, {}) /\ IsSeq(q.msg)  BY <1>6, <1>7 DEF Sound, IsBuffer
  <2>2. \A i \in Nat : i <= Len(q.msg) /\ i \in H => i \in {}  BY <1>7, <1>9 DEF Rdlength
  <2>3. TrueMap(q, H)
    <3> HIDE DEF H
    <3> QED BY <2>1, <2>2, MapBy
  <2>4. IsSeq(h.msg) /\ Len(q.msg) <= Len(h.msg) /\ \A i \in 1..Len(q.msg) : h.msg[i] = q.msg[i]
    BY <1>8, <1>7 DEF Extends, IsBuffer, IsSeq
  <2>5. Agrees(q.msg, h.msg, H)
    <3> HIDE DEF H
    <3> QED BY <2>1, <2>4 DEF Agrees
  <2> HIDE DEF H
  <2> QED BY <1>9, <2>3, <2>5, MapKept
<1>11. \A i \in H : i \in Nat /\ i <= Len(h.msg)  BY <1>7, <1>9 DEF Rdlength
<1>12. Sound(h, H, l0 + n + 10, l + d.len + 10, d.c)
  <2> HIDE DEF H
  <2> QED BY <1>8, <1>10, <1>11 DEF Sound
<1>13. Extends(p, h)  BY <1>1, <1>6, <1>8, ExtendsTrans
<1>14. Len(h.msg) >= Len(p.msg) + 10  BY <1>1, <1>7, <1>9
<1> QED BY <1>12, <1>13, <1>14 DEF n

\* A sequence of which one element is set.
LEMMA OneSet ==
  ASSUME NEW o, IsSeq(o), NEW k \in 1..Len(o), NEW x, NEW new, Changed(o, new, k, x)
  PROVE  IsSeq(new) /\ Len(new) = Len(o) /\ \A i \in 1..Len(o) : i # k => new[i] = o[i]
<1> DEFINE n == Len(o)
<1>1. o = [i \in 1..n |-> o[i]] /\ n \in Nat  BY DEF IsSeq
<1>2. DOMAIN o = 1..n  BY <1>1
<1> HIDE DEF n
<1>3. new = [i \in 1..n |-> new[i]]  BY <1>2 DEF Changed
<1>4. \A i \in 1..n : i # k => new[i] = o[i]  BY <1>2 DEF Changed
<1>5. IsSeq(new) /\ Len(new) = n  BY <1>1, <1>3, FunctionIsSeq
<1> QED BY <1>4, <1>5 DEF n

\* SetRdlength sets the last two octets of the header.
LEMMA RdlengthStored ==
  ASSUME NEW h, NEW r, ~h.err, ~r.err, Len(r.msg) - Len(h.msg) \in Uint16
  PROVE  \E x, y : SetRdlength(h, r) = [r EXCEPT !.msg = [[@ EXCEPT ![Len(h.msg) - 1] = x] EXCEPT ![Len(h.msg)] = y]]
<1> DEFINE x == (Len(r.msg) - Len(h.msg)) \div 256
           y == (Len(r.msg) - Len(h.msg)) % 256
<1>1. SetRdlength(h, r) = [r EXCEPT !.msg = [[@ EXCEPT ![Len(h.msg) - 1] = x] EXCEPT ![Len(h.msg)] = y]]
  BY DEF SetRdlength
<1> HIDE DEF x, y
<1> QED BY <1>1
\* Setting them keeps the buffer sound.
LEMMA RdlengthSet ==
  ASSUME NEW p, NEW h, NEW r, NEW l0, NEW l, NEW c, IsBuffer(p), Extends(p, h), Extends(h, r), Sound(r, Rdlength(h), l0, l, c),
         Len(h.msg) >= Len(p.msg) + 10, Len(r.msg) - Len(h.msg) \in Uint16, NEW t, t = SetRdlength(h, r)
  PROVE  Sound(t, {}, l0, l, c) /\ Extends(p, t)
<1> DEFINE H == Rdlength(h)
           e == Len(h.msg)
           n == Len(r.msg)
<1>1. /\ IsBuffer(h) /\ ~h.err /\ IsBuffer(r) /\ ~r.err /\ e \in Nat /\ n \in Nat /\ n >= e /\ Len(p.msg) \in Nat /\ IsSeq(r.msg)
      /\ e >= Len(p.msg) + 10
  BY DEF Extends, IsBuffer, IsSeq
<1>2. PICK x, y : t = [r EXCEPT !.msg = [[@ EXCEPT ![Len(h.msg) - 1] = x] EXCEPT ![Len(h.msg)] = y]]
  <2>1. ~h.err /\ ~r.err /\ Len(r.msg) - Len(h.msg) \in Uint16  BY <1>1
  <2>2. \E x, y : SetRdlength(h, r) = [r EXCEPT !.msg = [[@ EXCEPT ![Len(h.msg) - 1] = x] EXCEPT ![Len(h.msg)] = y]]
    BY <2>1, RdlengthStored
  <2> QED BY <2>2
<1> DEFINE new == [[r.msg EXCEPT ![e - 1] = x] EXCEPT ![e] = y]
<1>3. t = [r EXCEPT !.msg = new]  BY <1>2
<1>4. e - 1 \in 1..n /\ e \in 1..n  BY <1>1
<1>6. IsSeq(new) /\ Len(new) = n /\ \A i \in 1..n : i \notin {e - 1, e} => new[i] = r.msg[i]
  <2> DEFINE o == r.msg
             d == e - 1
             k == e
             mid == [o EXCEPT ![d] = x]
             all == [mid EXCEPT ![k] = y]
  <2>1. IsSeq(o) /\ Len(o) = n /\ d \in 1..Len(o) /\ k \in 1..n  BY <1>1, <1>4
  <2>a. new = all  OBVIOUS
  <2> HIDE DEF o, d, k, new
  <2>b. Changed(o, mid, d, x) /\ Changed(mid, all, k, y)  BY DEF Changed
  <2> HIDE DEF mid, all
  <2>2. IsSeq(mid) /\ Len(mid) = Len(o) /\ \A i \in 1..Len(o) : i # d => mid[i] = o[i]  BY <2>1, <2>b, OneSet
  <2>3. IsSeq(all) /\ Len(all) = Len(mid) /\ \A i \in 1..Len(mid) : i # k => all[i] = mid[i]
    <3>1. k \in 1..Len(mid)  BY <2>1, <2>2
    <3> QED BY <2>b, <2>2, <3>1, OneSet
  <2>4. Len(all) = n /\ \A i \in 1..n : i \notin {d, k} => all[i] = o[i]  BY <2>1, <2>2, <2>3
  <2> QED BY <2>1, <2>a, <2>3, <2>4 DEF o, d, k
<1> HIDE DEF new
<1>a. \A i \in 1..n : i \notin H => new[i] = r.msg[i]  BY <1>6 DEF Rdlength
<1>7. DOMAIN r = {"msg", "cap", "valid", "comp", "err"}  BY <1>1 DEF IsBuffer
<1>8. t.msg = new /\ t.cap = r.cap /\ t.valid = r.valid /\ t.comp = r.comp /\ t.err = r.err /\ DOMAIN t = DOMAIN r
  BY <1>3, <1>7
<1>9. IsBuffer(t) /\ ~t.err /\ Len(t.msg) = n  BY <1>1, <1>6, <1>7, <1>8 DEF IsBuffer
<1>10. Agrees(r.msg, t.msg, H)
  <2>1. n <= n  BY <1>1
  <2> HIDE DEF H
  <2>2. IsSeq(r.msg) /\ IsSeq(t.msg) /\ Len(r.msg) <= Len(t.msg)  BY <1>1, <1>6, <1>8, <2>1
  <2>3. \A i \in 1..Len(r.msg) : i \notin H => t.msg[i] = r.msg[i]  BY <1>8, <1>a
  <2> QED BY <2>2, <2>3 DEF Agrees
<1>11. TrueMap(t, H)
  <2>1. TrueMap(r, H)  BY DEF Sound
  <2> HIDE DEF H
  <2> QED BY <1>8, <1>10, <2>1, MapKept
<1>12. TrueMap(t, {})
  <2>1. IsSeq(t.msg)  BY <1>9 DEF IsBuffer
  <2> HIDE DEF H
  <2> QED BY <1>11, <2>1, MapBy
<1>13. Covers(t, l0, l, c)
  <2>1. Covers(r, l0, l, c)  BY DEF Sound
  <2>2. Nested(r) => Nested(t)  BY <1>8, <1>9 DEF Nested, n
  <2> QED BY <1>8, <1>9, <2>1, <2>2 DEF Covers, n
<1>14. Sound(t, {}, l0, l, c)  BY <1>12, <1>13 DEF Sound
<1>15. Extends(p, t)
  <2>1. Extends(p, r)  BY ExtendsTrans
  <2>2. ASSUME NEW i \in 1..Len(p.msg) PROVE t.msg[i] = p.msg[i]
    <3>1. i \in 1..n /\ i \notin H  BY <1>1 DEF Rdlength
    <3> QED BY <1>a, <1>8, <2>1, <3>1 DEF Extends
  <2> QED BY <1>8, <1>9, <2>1, <2>2 DEF Extends, n
<1> QED BY <1>14, <1>15

\* A number up to the largest one of 16 bits.
LEMMA IsUint16 ==
  ASSUME NEW v \in Nat, NEW w \in Nat, v <= w, w <= MaxUint16
  PROVE  v \in Uint16
<1>1. MaxUint16 \in Nat  BY DEF MaxUint16
<1> QED BY <1>1 DEF Uint16

\* The length of the header of a record.
LEMMA HeaderLenIs ==
  ASSUME NEW rr, IsNameField(rr.name), NEW off \in Nat, NEW c, NEW d, d = HeaderName(rr, off, c)
  PROVE  HeaderLen(rr, off, c) = [len |-> d.len + 10, c |-> d.c] /\ d.len \in Nat /\ IsLength(HeaderLen(rr, off, c))
<1> DEFINE x == [len |-> 0, c |-> c]
           o == off + x.len
           yes == TRUE
           s == rr.name
           e == domainNameLen(s, o, x.c, yes)
           y == NameLen(x, s, off, yes)
<1>1. HeaderLen(rr, off, c) = [y EXCEPT !.len = @ + 10] /\ y = [len |-> x.len + e.len, c |-> e.c]
  BY DEF HeaderLen, NameLen, AddName, AddOctets
<1>2. x.len = 0 /\ x.c = c  OBVIOUS
<1>3. o = off  BY <1>2
<1>4. e = d  BY <1>2, <1>3 DEF HeaderName
<1>5. e.len \in Nat
  <2>1. IsNameField(s) /\ o \in Nat  BY <1>3
  <2> DEFINE z == x.c
  <2> HIDE DEF s, o, yes, z
  <2>2. domainNameLen(s, o, z, yes).len \in Nat  BY <2>1, NameLenNat
  <2> QED BY <2>2 DEF z
<1>6. d.len \in Nat /\ e.len = d.len /\ e.c = d.c  BY <1>4, <1>5, Zenon
<1> HIDE DEF x, e, o, y
<1>7. y.len = d.len /\ y.c = d.c /\ y = [len |-> y.len, c |-> y.c]
  <2>1. y.len = 0 + d.len /\ y.c = d.c /\ y = [len |-> 0 + d.len, c |-> d.c]  BY <1>1, <1>2, <1>6
  <2>2. 0 + d.len = d.len  BY <1>6
  <2> QED BY <2>1, <2>2, Zenon
<1>8. HeaderLen(rr, off, c) = [len |-> d.len + 10, c |-> d.c]  BY <1>1, <1>7
<1>9. d.len + 10 \in Nat  BY <1>6
<1> QED BY <1>6, <1>8, <1>9 DEF IsLength

\* The length of a record without compression, wherever it starts.
LEMMA RecordPlain ==
  ASSUME NEW rr, IsRR(rr), NEW off \in Nat, NEW h, h = HeaderLen(rr, off, NoMap), NEW b, b = rrLen(rr, off, NoMap), NEW off1 \in Int
  PROVE  /\ IsLength(h) /\ h.c = NoMap /\ h.len = PlainLen(rr.name) + 10
         /\ IsLength(b) /\ b.c = NoMap /\ h.len <= b.len /\ b.len <= MaxUint16
         /\ b = EntriesLen(h, LenRow(rr.kind), rr.f, off1) /\ b = rrLen(rr, 0, NoMap)
<1> DEFINE s == rr.name
           c == NoMap
           yes == TRUE
           kind == rr.kind
           f == rr.f
<1>1. IsNameField(s) /\ kind \in DOMAIN PackTable /\ (\A i \in 1..Len(PackTable[kind]) : IsEncodable(PackTable[kind][i], f))
      /\ RRLen(rr) <= MaxUint16
  BY DEF IsRR
<1>2. ~c.valid  BY DEF NoMap
<1>3. ASSUME NEW o \in Nat PROVE HeaderLen(rr, o, c) = [len |-> PlainLen(s) + 10, c |-> c] /\ IsLength(HeaderLen(rr, o, c))
  <2> HIDE DEF c, yes
  <2>1. domainNameLen(s, o, c, yes).len = PlainLen(s) /\ domainNameLen(s, o, c, yes).c = c
    BY <1>2, PlainNameLen
  <2> DEFINE d == domainNameLen(s, o, c, yes)
  <2> HIDE DEF d
  <2>2. d = HeaderName(rr, o, c)  BY DEF d, yes, s, HeaderName
  <2>3. HeaderLen(rr, o, c) = [len |-> d.len + 10, c |-> d.c] /\ IsLength(HeaderLen(rr, o, c))
    BY <1>1, <2>2, HeaderLenIs
  <2>4. d.len = PlainLen(s) /\ d.c = c  BY <2>1 DEF d
  <2> QED BY <2>3, <2>4
<1>4. IsLength(h) /\ h.c = c /\ h.len = PlainLen(s) + 10 /\ HeaderLen(rr, 0, c) = h  BY <1>3
<1>5. b = EntriesLen(h, LenRow(kind), f, off) /\ rrLen(rr, 0, c) = EntriesLen(HeaderLen(rr, 0, c), LenRow(kind), f, 0)
  BY DEF rrLen, HeaderLen
<1> HIDE DEF c, kind, f, s
<1>6. ~h.c.valid  BY <1>2, <1>4
<1>7. IsLength(b) /\ b.c = h.c /\ h.len <= b.len /\ \A o : b = EntriesLen(h, LenRow(kind), f, o)
  BY <1>1, <1>4, <1>5, <1>6, RdataPlain
<1>8. b = rrLen(rr, 0, c)  BY <1>4, <1>5, <1>7
<1>9. b.len = RRLen(rr)  BY <1>8 DEF RRLen, c
<1> QED BY <1>1, <1>4, <1>7, <1>8, <1>9 DEF c, s, kind, f

\* A record is covered by rrLen, and its rdata by the rdlength.
LEMMA RecordSound ==
  ASSUME NEW rr, IsRR(rr), NEW p, NEW l0, NEW l, NEW c, Sound(p, {}, l0, l, c), NEW compress \in BOOLEAN, p.valid => compress,
         NEW b0, b0 = rrLen(rr, l0, NoMap), NEW b, b = rrLen(rr, l, c), l0 + b0.len < p.cap,
         NEW t, t = packRR(rr, p, compress)
  PROVE  Sound(t, {}, l0 + b0.len, l + b.len, b.c) /\ Extends(p, t) /\ b.len \in Nat
<1> DEFINE s == rr.name
           kind == rr.kind
           f == rr.f
           n == PlainLen(s)
           d == HeaderName(rr, l, c)
           h == packHeader(rr, p, compress)
           r == packRdata(kind, f, h, compress)
           H == Rdlength(h)
           a0 == HeaderLen(rr, l0, NoMap)
           a == HeaderLen(rr, l, c)
           off0 == Len(h.msg) - a0.len
<1>1. IsNameField(s) /\ rr.ttl \in [1..4 -> Byte] /\ kind \in DOMAIN PackTable
      /\ (\A i \in 1..Len(PackTable[kind]) : IsEncodable(PackTable[kind][i], f))
  BY DEF IsRR
<1>2. IsBuffer(p) /\ ~p.err /\ Len(p.msg) \in Nat /\ p.cap \in Nat /\ l0 \in Nat /\ l \in Nat
  BY DEF Sound, Covers, IsBuffer, IsSeq
<1>3. /\ IsLength(a0) /\ a0.c = NoMap /\ a0.len = n + 10 /\ IsLength(b0) /\ b0.c = NoMap /\ a0.len <= b0.len /\ b0.len <= MaxUint16
      /\ \A o \in Int : b0 = EntriesLen(a0, LenRow(kind), f, o)
  <2> DEFINE o0 == a0
             k == LenRow(kind)
  <2>2. o0 = HeaderLen(rr, l0, NoMap) /\ k = LenRow(rr.kind) /\ f = rr.f /\ n = PlainLen(rr.name)  OBVIOUS
  <2> HIDE DEF o0, k, n, f, kind
  <2>1. /\ IsLength(o0) /\ o0.c = NoMap /\ o0.len = n + 10 /\ IsLength(b0) /\ b0.c = NoMap /\ o0.len <= b0.len /\ b0.len <= MaxUint16
        /\ \A o \in Int : b0 = EntriesLen(o0, k, f, o)
    BY <1>2, <2>2, RecordPlain
  <2> QED BY <2>1 DEF o0, k
<1>4. a = [len |-> d.len + 10, c |-> d.c] /\ d.len \in Nat /\ IsLength(a)  BY <1>1, <1>2, HeaderLenIs
<1>5. b = EntriesLen(a, LenRow(kind), f, l)  BY DEF rrLen, HeaderLen
<1>6. t = SetRdlength(h, r)  BY DEF packRR, packBehind
<1>7. n \in Nat  BY <1>1, PlainLenNat
<1> HIDE DEF a0, a, d, n, kind, f
<1>a. a0.len \in Nat /\ b0.len \in Nat /\ a0.len = n + 10 /\ a0.len <= b0.len  BY <1>3 DEF IsLength
<1>8. l0 + n + 10 <= p.cap /\ a0.len \in Nat /\ b0.len \in Nat  BY <1>2, <1>7, <1>a
<1>9. /\ Sound(h, H, l0 + n + 10, l + d.len + 10, d.c) /\ Extends(p, h)
      /\ Len(h.msg) >= Len(p.msg) + 10
  <2>1. l0 + PlainLen(rr.name) + 10 <= p.cap  BY <1>8 DEF n
  <2>2. IsNameField(rr.name)  BY <1>1
  <2>3. /\ Sound(h, Rdlength(h), l0 + PlainLen(rr.name) + 10, l + domainNameLen(rr.name, l, c, TRUE).len + 10, domainNameLen(rr.name, l, c, TRUE).c) /\ Extends(p, h)
        /\ Len(h.msg) >= Len(p.msg) + 10
    <3> HIDE DEF h
    <3> QED BY <1>1, <2>1, <2>2, HeaderGrown DEF h
  <2> QED BY <2>3 DEF n, d, HeaderName
<1> HIDE DEF s, H, r, h
<1>10. IsBuffer(h) /\ ~h.err /\ h.cap = p.cap /\ h.valid = p.valid /\ Len(h.msg) \in Nat /\ Len(h.msg) <= l0 + n + 10
  BY <1>9 DEF Extends, Sound, Covers, IsBuffer, IsSeq
<1>11. off0 \in Int /\ off0 + a0.len = Len(h.msg) /\ off0 + b0.len < p.cap /\ off0 + b0.len <= l0 + b0.len
       /\ l + a.len = l + d.len + 10 /\ a.c = d.c
  <2>1. off0 \in Int /\ off0 + a0.len = Len(h.msg) /\ off0 <= l0
    <3> DEFINE e == Len(h.msg)
               k == a0.len
    <3>1. e \in Nat /\ e <= l0 + n + 10 /\ k \in Nat /\ k = n + 10 /\ l0 \in Nat  BY <1>2, <1>10, <1>a
    <3> HIDE DEF e, k
    <3>2. e - k \in Int /\ e - k + k = e /\ e - k <= l0  BY <1>7, <3>1
    <3> QED BY <3>2 DEF e, k
  <2>2. l + a.len = l + d.len + 10 /\ a.c = d.c  BY <1>2, <1>4
  <2> HIDE DEF off0
  <2> QED BY <1>2, <1>8, <2>1, <2>2
<1> HIDE DEF off0
<1>12. Grown(h, h, H, off0, a0, l, a)
  <2>1. Sound(h, H, off0 + a0.len, l + a.len, a.c)
    <3>1. Covers(h, Len(h.msg), l + a.len, a.c)
      <4>1. Len(h.msg) <= Len(h.msg)  BY <1>10
      <4>2. Covers(h, l0 + n + 10, l + a.len, a.c)  BY <1>9, <1>11 DEF Sound
      <4> QED BY <1>10, <4>1, <4>2 DEF Covers
    <3> QED BY <1>9, <1>11, <3>1 DEF Sound
  <2>2. Extends(h, h)  BY <1>10, ExtendsSelf
  <2> QED BY <1>3, <1>4, <2>1, <2>2 DEF Grown
<1>13. b0 = EntriesLen(a0, LenRow(kind), f, off0) /\ ~a0.c.valid  BY <1>3, <1>11 DEF NoMap
<1>14. Grown(h, r, H, off0, b0, l, b)
  <2>1. off0 + b0.len < h.cap /\ (h.valid => compress)  BY <1>10, <1>11
  <2>2. Grown(h, packRdata(kind, f, h, compress), H, off0, b0, l, EntriesLen(a, LenRow(kind), f, l))
    BY <1>1, <1>2, <1>10, <1>11, <1>12, <1>13, <2>1, RdataGrown
  <2> QED BY <1>5, <2>2 DEF r
<1>15. Sound(r, H, off0 + b0.len, l + b.len, b.c) /\ Extends(h, r) /\ b.len \in Nat
  BY <1>14 DEF Grown, IsLength
<1>16. Len(r.msg) - Len(h.msg) \in Uint16
  <2>1. Len(r.msg) \in Nat /\ Len(r.msg) >= Len(h.msg) /\ Len(r.msg) <= off0 + b0.len
    BY <1>15 DEF Extends, Sound, Covers, IsBuffer, IsSeq
  <2> DEFINE v == Len(r.msg) - Len(h.msg)
             w == b0.len
  <2>2. v \in Nat /\ w \in Nat /\ v <= w /\ w <= MaxUint16
    <3>1. MaxUint16 \in Int  BY DEF MaxUint16
    <3>2. w <= MaxUint16  BY <1>3
    <3>3. v \in Nat /\ v <= w /\ w \in Nat
      <4>1. off0 <= Len(h.msg) /\ off0 + a0.len = Len(h.msg)  BY <1>11, <1>a
      <4> DEFINE e == Len(h.msg)
                 z == Len(r.msg)
                 k == a0.len
      <4>2. e \in Nat /\ z \in Nat /\ e <= z /\ z <= off0 + w /\ off0 + k = e /\ k \in Nat /\ w \in Nat /\ off0 \in Int
        BY <1>10, <1>11, <1>a, <2>1
      <4> HIDE DEF e, z, k, w
      <4>3. z - e \in Nat /\ z - e <= w  BY <4>2
      <4> QED BY <4>2, <4>3 DEF e, z
    <3> QED BY <3>2, <3>3
  <2> HIDE DEF v, w
  <2>3. v \in Uint16  BY <2>2, IsUint16
  <2> QED BY <2>3 DEF v
<1>17. Sound(t, {}, off0 + b0.len, l + b.len, b.c) /\ Extends(p, t)
  <2> DEFINE x0 == off0 + b0.len
             x == l + b.len
             g == b.c
  <2>1. Sound(r, Rdlength(h), x0, x, g)  BY <1>15 DEF H
  <2> HIDE DEF x0, x, g
  <2>2. Sound(t, {}, x0, x, g) /\ Extends(p, t)  BY <1>2, <1>6, <1>9, <1>15, <1>16, <2>1, RdlengthSet
  <2> QED BY <2>2 DEF x0, x, g
<1>18. Sound(t, {}, l0 + b0.len, l + b.len, b.c)
  <2> DEFINE x0 == off0 + b0.len
             y0 == l0 + b0.len
             x == l + b.len
             g == b.c
             none == {}
  <2>3. y0 \in Nat /\ x \in Nat /\ x <= x  BY <1>2, <1>8, <1>15
  <2>1. Sound(t, none, x0, x, g) /\ y0 \in Nat /\ x \in Nat /\ x0 <= y0 /\ x <= x  BY <1>11, <1>17, <2>3
  <2> HIDE DEF x0, y0, x, g, none
  <2>2. Sound(t, none, y0, x, g)  BY <2>1, LengthsGrow
  <2> QED BY <2>2 DEF y0, x, g, none
<1> QED BY <1>15, <1>17, <1>18

-----------------------------------------------------------------------------
(* Messages.                                                               *)

\* The length of a question without compression.
LEMMA QuestionPlain ==
  ASSUME NEW s, IsNameField(s.name), NEW off, NEW b, b = questionLen(s, off, NoMap)
  PROVE  b.len \in Nat /\ b.c = NoMap /\ b.len = PlainLen(s.name) + 4
<1> DEFINE c == NoMap
           yes == TRUE
           x == s.name
           d == domainNameLen(x, off, c, yes)
<1>1. b = [len |-> d.len + 4, c |-> d.c]  BY DEF questionLen
<1>2. ~c.valid  BY DEF NoMap
<1> HIDE DEF c, yes, x
<1>3. d.len = PlainLen(x) /\ d.c = c  BY <1>2, PlainNameLen
<1>4. PlainLen(x) \in Nat  BY PlainLenNat DEF x
<1> HIDE DEF d
<1>5. b.len = PlainLen(x) + 4 /\ b.c = c  BY <1>1, <1>3
<1> QED BY <1>4, <1>5 DEF x, c

\* A question is covered by its length.
LEMMA QuestionSound ==
  ASSUME NEW s, IsNameField(s.name), NEW p, NEW l0, NEW l, NEW c, Sound(p, {}, l0, l, c), NEW compress \in BOOLEAN, p.valid => compress,
         NEW b0, b0 = questionLen(s, l0, NoMap), NEW b, b = questionLen(s, l, c), l0 + b0.len < p.cap,
         NEW t, t = packQuestion(s, p, compress)
  PROVE  Sound(t, {}, l0 + b0.len, l + b.len, b.c) /\ Extends(p, t) /\ b.len \in Nat
<1> DEFINE x == s.name
           yes == TRUE
           none == {}
           d == domainNameLen(x, l, c, yes)
           q == packDomainName(x, p, compress)
           o == BE(s.qtype, 2) \o BE(s.qclass, 2)
           n == PlainLen(x)
<1>1. b = [len |-> d.len + 4, c |-> d.c] /\ t = Put(q, o)  BY DEF questionLen, packQuestion
<1>2. b0.len \in Nat /\ b0.len = n + 4  BY QuestionPlain
<1>3. p.cap \in Nat /\ l0 \in Nat /\ l \in Nat  BY DEF Sound, Covers, IsBuffer
<1>4. n \in Nat  BY PlainLenNat
<1>5. IsSeq(o) /\ Len(o) = 4
  <2> DEFINE u == BE(s.qtype, 2)
             v == BE(s.qclass, 2)
  <2>1. IsSeq(u) /\ Len(u) = 2 /\ IsSeq(v) /\ Len(v) = 2  BY BEFacts
  <2> HIDE DEF u, v
  <2>2. IsSeq(u \o v) /\ Len(u \o v) = Len(u) + Len(v)  BY <2>1, Cat
  <2>3. IsSeq(u \o v) /\ Len(u \o v) = 4  BY <2>1, <2>2
  <2> QED BY <2>3 DEF u, v
<1> HIDE DEF o
<1>6. l0 + n < p.cap /\ l0 + n + 4 <= p.cap
  <2>1. l0 + (n + 4) < p.cap  BY <1>2
  <2> HIDE DEF n
  <2> QED BY <1>3, <1>4, <2>1
<1>7. IsNameField(x) /\ yes \in BOOLEAN /\ (p.valid => compress = yes) /\ Sound(p, none, l0, l, c) /\ l0 + PlainLen(x) < p.cap
  BY <1>6
<1> HIDE DEF x, yes, none
<1>8. Sound(q, none, l0 + PlainLen(x), l + d.len, d.c) /\ Extends(p, q)  BY <1>7, NameSound
<1>9. d.len \in Nat  BY <1>3, <1>7, NameLenNat
<1> HIDE DEF d, q
<1> DEFINE x0 == l0 + n
           y == l + d.len
<1>10. Sound(q, none, x0, y, d.c) /\ x0 + 4 <= q.cap /\ 4 \in Nat /\ Len(o) <= 4
  <2>1. q.cap = p.cap  BY <1>8 DEF Extends
  <2>2. x0 + 4 <= q.cap  BY <1>6, <2>1
  <2>3. Sound(q, none, x0, y, d.c)  BY <1>8
  <2> HIDE DEF x0, y
  <2> QED BY <1>5, <2>2, <2>3
<1> HIDE DEF x0, y
<1>11. Sound(t, none, x0 + 4, y + 4, d.c) /\ Extends(q, t)  BY <1>1, <1>5, <1>10, PutSound
<1>12. b.len = d.len + 4 /\ b.c = d.c /\ b.len \in Nat  BY <1>1, <1>9
<1>13. x0 + 4 = l0 + b0.len /\ y + 4 = l + b.len
  <2>1. x0 + 4 = l0 + b0.len
    <3> HIDE DEF n
    <3> QED BY <1>2, <1>3, <1>4 DEF x0
  <2>2. y + 4 = l + b.len  BY <1>3, <1>9, <1>12 DEF y
  <2> QED BY <2>1, <2>2
<1>14. IsBuffer(p)  BY <1>7 DEF Sound, Covers
<1>15. Extends(p, t)  BY <1>8, <1>11, <1>14, ExtendsTrans
<1>16. Sound(t, none, l0 + b0.len, l + b.len, b.c)  BY <1>11, <1>12, <1>13
<1> QED BY <1>12, <1>15, <1>16 DEF none

\* Lengths without compression only grow.
LEMMA PlainRuns ==
  ASSUME NEW n \in Nat, NEW g, g[0].l \in Nat, g[0].c = NoMap,
         \A k \in 1..n : g[k - 1].l \in Nat /\ g[k - 1].c = NoMap => g[k].l \in Nat /\ g[k].c = NoMap /\ g[k - 1].l <= g[k].l
  PROVE  PlainRun(g, n)
<1> DEFINE S == {k \in 0..n : g[k].l \in Nat /\ g[k].c = NoMap}
           f == [k \in 0..n |-> g[k].l]
<1>1. 0 \in S  OBVIOUS
<1>2. ASSUME NEW k \in 1..n, k - 1 \in S PROVE k \in S  BY <1>2
<1>3. \A k \in 0..n : k \in S
  <2> HIDE DEF S
  <2> QED BY <1>1, <1>2, UpTo
<1>4. \A k \in 0..n : g[k].l \in Nat /\ g[k].c = NoMap  BY <1>3
<1>5. \A k \in 0..n : f[k] = g[k].l /\ f[k] \in Nat  BY <1>4
<1>6. ASSUME NEW k \in 1..n PROVE f[k - 1] <= f[k]
  <2>1. k - 1 \in 0..n /\ k \in 0..n  OBVIOUS
  <2> HIDE DEF f, S
  <2> QED BY <1>4, <1>5, <2>1
<1> HIDE DEF f, S
<1>7. \A k \in 0..n : f[k] <= f[n]  BY <1>5, <1>6, Rising
<1>8. n \in 0..n  OBVIOUS
<1> QED BY <1>4, <1>5, <1>7, <1>8 DEF PlainRun

\* A sound buffer stays sound when elements are packed one by one.
LEMMA SoundRuns ==
  ASSUME NEW n \in Nat, NEW g0, PlainRun(g0, n), NEW g, NEW h, NEW cap \in Nat, NEW compress, g0[n].l < cap,
         Sound(h[0], {}, g0[0].l, g[0].l, g[0].c), h[0].cap = cap, h[0].valid = compress,
         \A k \in 1..n : SoundStep(g0, g, h, cap, compress, k)
  PROVE  Sound(h[n], {}, g0[n].l, g[n].l, g[n].c) /\ h[n].cap = cap /\ h[n].valid = compress
<1> DEFINE S == {k \in 0..n : Sound(h[k], {}, g0[k].l, g[k].l, g[k].c) /\ h[k].cap = cap /\ h[k].valid = compress}
<1>1. 0 \in S  OBVIOUS
<1>2. ASSUME NEW k \in 1..n, k - 1 \in S PROVE k \in S
  <2>1. k \in 0..n /\ k - 1 \in 0..n /\ n \in 0..n  OBVIOUS
  <2>2. Sound(h[k - 1], {}, g0[k - 1].l, g[k - 1].l, g[k - 1].c) /\ h[k - 1].cap = cap /\ h[k - 1].valid = compress
    BY <1>2
  <2> HIDE DEF S
  <2>3. g0[k].l \in Nat /\ g0[n].l \in Nat /\ g0[k].l <= g0[n].l /\ g0[k - 1].c = NoMap  BY <2>1 DEF PlainRun
  <2>4. g0[k].l < cap  BY <2>3
  <2>5. Sound(h[k], {}, g0[k].l, g[k].l, g[k].c) /\ Extends(h[k - 1], h[k])
    <3>1. SoundStep(g0, g, h, cap, compress, k)  OBVIOUS
    <3> QED BY <2>2, <2>3, <2>4, <3>1 DEF SoundStep
  <2>6. h[k].cap = cap /\ h[k].valid = compress  BY <2>2, <2>5 DEF Extends
  <2> QED BY <2>1, <2>5, <2>6 DEF S
<1>3. \A k \in 0..n : k \in S
  <2> HIDE DEF S
  <2> QED BY <1>1, <1>2, UpTo
<1>4. n \in S
  <2>1. n \in 0..n  OBVIOUS
  <2> QED BY <1>3, <2>1
<1> QED BY <1>4

\* The lengths of the questions without compression.
LEMMA QuestionsPlain ==
  ASSUME NEW dns, IsSeq(dns.question), \A i \in 1..Len(dns.question) : IsNameField(dns.question[i].name)
  PROVE  \E g : /\ PlainQuestions(dns) = g[Len(dns.question)] /\ PlainRun(g, Len(dns.question))
                /\ g[0].l = headerSize /\ g[0].c = NoMap
                /\ \A k \in 1..Len(dns.question) : g[k] = AddLen(g[k - 1], questionLen(dns.question[k], g[k - 1].l, g[k - 1].c))
<1> DEFINE no == FALSE
           n == Len(dns.question)
           start == [l |-> headerSize, c |-> [valid |-> no, seen |-> {}]]
           loop == [of |-> "QuestionsLen", s |-> dns.question]
<1>1. PICK g : Steps(g, n, start, loop) /\ QuestionsLen(dns, no) = g[n]  BY QuestionsLenLoop
<1>2. ASSUME NEW k \in 1..n PROVE g[k] = AddLen(g[k - 1], questionLen(dns.question[k], g[k - 1].l, g[k - 1].c))
  BY <1>1 DEF Steps, Turn
<1>3. g[0].l = headerSize /\ g[0].c = NoMap  BY <1>1 DEF Steps, NoMap
<1>4. n \in Nat  BY DEF IsSeq
<1>5. headerSize \in Nat  BY DEF headerSize
<1>6. ASSUME NEW k \in 1..n, g[k - 1].l \in Nat, g[k - 1].c = NoMap
      PROVE  g[k].l \in Nat /\ g[k].c = NoMap /\ g[k - 1].l <= g[k].l
  <2> DEFINE u == g[k - 1]
             s == dns.question[k]
             b == questionLen(s, u.l, NoMap)
  <2>1. g[k] = [l |-> u.l + b.len, c |-> b.c]  BY <1>2, <1>6 DEF AddLen
  <2>2. IsNameField(s.name)  OBVIOUS
  <2>3. b.len \in Nat /\ b.c = NoMap  BY <2>2, QuestionPlain
  <2> HIDE DEF b
  <2>4. g[k].l = u.l + b.len /\ g[k].c = b.c  BY <2>1
  <2> QED BY <1>6, <2>3, <2>4
<1> HIDE DEF no, n, start, loop
<1>7. PlainRun(g, n)  BY <1>3, <1>4, <1>5, <1>6, PlainRuns
<1>8. PlainQuestions(dns) = g[n]  BY <1>1 DEF PlainQuestions, no
<1> QED BY <1>2, <1>3, <1>7, <1>8 DEF n

\* The questions are covered by their lengths.
LEMMA QuestionsSound ==
  ASSUME NEW dns, IsSeq(dns.question), \A i \in 1..Len(dns.question) : IsNameField(dns.question[i].name),
         NEW compress \in BOOLEAN, NEW p, Sound(p, {}, headerSize, headerSize, FreshMap(compress)),
         NEW cap \in Nat, p.cap = cap, p.valid = compress, PlainQuestions(dns).l < cap,
         NEW a, a = QuestionsLen(dns, compress), NEW q, q = packQuestions(dns.question, p, compress)
  PROVE  /\ Sound(q, {}, PlainQuestions(dns).l, a.l, a.c) /\ q.cap = cap /\ q.valid = compress
         /\ PlainQuestions(dns).l \in Nat /\ PlainQuestions(dns).c = NoMap
<1> DEFINE n == Len(dns.question)
           none == {}
           start == [l |-> headerSize, c |-> [valid |-> compress, seen |-> none]]
           loop == [of |-> "QuestionsLen", s |-> dns.question]
           pack == [of |-> "packQuestions", s |-> dns.question, compress |-> compress]
<1>1. PICK g0 : /\ PlainQuestions(dns) = g0[n] /\ PlainRun(g0, n) /\ g0[0].l = headerSize /\ g0[0].c = NoMap
                /\ \A k \in 1..n : g0[k] = AddLen(g0[k - 1], questionLen(dns.question[k], g0[k - 1].l, g0[k - 1].c))
  BY QuestionsPlain
<1>2. PICK g : Steps(g, n, start, loop) /\ a = g[n]  BY QuestionsLenLoop
<1>3. PICK h : Steps(h, n, p, pack) /\ q = h[n]  BY QuestionsLoop
<1>4. n \in Nat  BY DEF IsSeq
<1>5. ASSUME NEW k \in 1..n
      PROVE  /\ g[k] = AddLen(g[k - 1], questionLen(dns.question[k], g[k - 1].l, g[k - 1].c))
             /\ h[k] = packQuestion(dns.question[k], h[k - 1], compress)
  BY <1>2, <1>3 DEF Steps, Turn
<1>6. g[0].l = headerSize /\ g[0].c = FreshMap(compress) /\ h[0] = p  BY <1>2, <1>3 DEF Steps, FreshMap
<1>7. ASSUME NEW k \in 1..n, Sound(h[k - 1], {}, g0[k - 1].l, g[k - 1].l, g[k - 1].c), h[k - 1].cap = cap, h[k - 1].valid = compress,
             g0[k].l < cap, g0[k - 1].c = NoMap
      PROVE  Sound(h[k], {}, g0[k].l, g[k].l, g[k].c) /\ Extends(h[k - 1], h[k])
  <2> DEFINE u == h[k - 1]
             x0 == g0[k - 1].l
             x == g[k - 1].l
             c == g[k - 1].c
             s == dns.question[k]
             b0 == questionLen(s, x0, NoMap)
             b == questionLen(s, x, c)
             t == packQuestion(s, u, compress)
  <2>1. g0[k] = [l |-> x0 + b0.len, c |-> b0.c] /\ g[k] = [l |-> x + b.len, c |-> b.c] /\ h[k] = t
    BY <1>1, <1>5, <1>7 DEF AddLen
  <2>2. IsNameField(s.name) /\ Sound(u, none, x0, x, c) /\ (u.valid => compress)  BY <1>7
  <2>3. x0 + b0.len < u.cap  BY <1>7, <2>1
  <2> HIDE DEF u, x0, x, c, s, none
  <2>4. Sound(t, none, x0 + b0.len, x + b.len, b.c) /\ Extends(u, t)  BY <2>2, <2>3, QuestionSound DEF none
  <2> HIDE DEF b0, b, t
  <2>5. g0[k].l = x0 + b0.len /\ g[k].l = x + b.len /\ g[k].c = b.c  BY <2>1
  <2> QED BY <2>1, <2>4, <2>5 DEF u, none
<1>s. \A k \in 1..n : SoundStep(g0, g, h, cap, compress, k)  BY <1>7 DEF SoundStep
<1>8. Sound(h[0], {}, g0[0].l, g[0].l, g[0].c) /\ h[0].cap = cap /\ h[0].valid = compress /\ g0[n].l < cap
  BY <1>1, <1>6
<1> HIDE DEF n, start, loop, pack, none
<1>9. Sound(h[n], {}, g0[n].l, g[n].l, g[n].c) /\ h[n].cap = cap /\ h[n].valid = compress
  <2>1. PlainRun(g0, n)  BY <1>1
  <2> QED BY <2>1, <1>4, <1>s, <1>8, SoundRuns
<1>10. g0[n].l \in Nat /\ g0[n].c = NoMap
  <2>1. n \in 0..n  BY <1>4
  <2> QED BY <1>1, <2>1 DEF PlainRun
<1> QED BY <1>1, <1>2, <1>3, <1>9, <1>10

\* The lengths of the records without compression.
LEMMA RecordsPlain ==
  ASSUME NEW rrs, IsSeq(rrs), \A i \in 1..Len(rrs) : IsRR(rrs[i]), NEW a, a.l \in Nat, a.c = NoMap
  PROVE  \E g : /\ RecordsLen(rrs, a) = g[Len(rrs)] /\ PlainRun(g, Len(rrs)) /\ g[0] = a
                /\ \A k \in 1..Len(rrs) : g[k] = AddLen(g[k - 1], rrLen(rrs[k], g[k - 1].l, g[k - 1].c))
<1> DEFINE n == Len(rrs)
           loop == [of |-> "RecordsLen", s |-> rrs]
<1>1. PICK g : Steps(g, n, a, loop) /\ RecordsLen(rrs, a) = g[n]  BY RecordsLenLoop
<1>2. ASSUME NEW k \in 1..n PROVE g[k] = AddLen(g[k - 1], rrLen(rrs[k], g[k - 1].l, g[k - 1].c))
  BY <1>1 DEF Steps, Turn
<1>3. g[0] = a  BY <1>1 DEF Steps
<1>4. n \in Nat  BY DEF IsSeq
<1>6. ASSUME NEW k \in 1..n, g[k - 1].l \in Nat, g[k - 1].c = NoMap
      PROVE  g[k].l \in Nat /\ g[k].c = NoMap /\ g[k - 1].l <= g[k].l
  <2> DEFINE u == g[k - 1]
             o == u.l
             rr == rrs[k]
             b == rrLen(rr, o, NoMap)
             h == HeaderLen(rr, o, NoMap)
  <2>1. g[k] = [l |-> u.l + b.len, c |-> b.c]  BY <1>2, <1>6 DEF AddLen
  <2>2. IsRR(rr) /\ o \in Nat /\ 0 \in Int  BY <1>6
  <2> HIDE DEF rr, o
  <2>3. IsLength(b) /\ b.c = NoMap  BY <2>2, RecordPlain
  <2> HIDE DEF b
  <2>4. g[k].l = u.l + b.len /\ g[k].c = b.c /\ b.len \in Nat  BY <2>1, <2>3 DEF IsLength
  <2> QED BY <1>6, <2>3, <2>4
<1> HIDE DEF n, loop
<1>7. PlainRun(g, n)  BY <1>3, <1>4, <1>6, PlainRuns
<1> QED BY <1>1, <1>2, <1>3, <1>7 DEF n

\* The records are covered by their lengths.
LEMMA RecordsSound ==
  ASSUME NEW rrs, IsSeq(rrs), \A i \in 1..Len(rrs) : IsRR(rrs[i]), NEW a0, a0.l \in Nat, a0.c = NoMap,
         NEW compress \in BOOLEAN, NEW p, NEW a, Sound(p, {}, a0.l, a.l, a.c),
         NEW cap \in Nat, p.cap = cap, p.valid = compress, RecordsLen(rrs, a0).l < cap, NEW q, q = packRRs(rrs, p, compress)
  PROVE  Sound(q, {}, RecordsLen(rrs, a0).l, RecordsLen(rrs, a).l, RecordsLen(rrs, a).c) /\ RecordsLen(rrs, a0).l \in Nat
<1> DEFINE n == Len(rrs)
           none == {}
           loop == [of |-> "RecordsLen", s |-> rrs]
           pack == [of |-> "packRRs", s |-> rrs, compress |-> compress]
<1>1. PICK g0 : /\ RecordsLen(rrs, a0) = g0[n] /\ PlainRun(g0, n) /\ g0[0] = a0
                /\ \A k \in 1..n : g0[k] = AddLen(g0[k - 1], rrLen(rrs[k], g0[k - 1].l, g0[k - 1].c))
  BY RecordsPlain
<1>2. PICK g : Steps(g, n, a, loop) /\ RecordsLen(rrs, a) = g[n]  BY RecordsLenLoop
<1>3. PICK h : Steps(h, n, p, pack) /\ q = h[n]  BY RecordsLoop
<1>4. n \in Nat  BY DEF IsSeq
<1>5. ASSUME NEW k \in 1..n
      PROVE  /\ g[k] = AddLen(g[k - 1], rrLen(rrs[k], g[k - 1].l, g[k - 1].c))
             /\ h[k] = packNext(rrs[k], h[k - 1], compress)
  BY <1>2, <1>3 DEF Steps, Turn
<1>6. g[0] = a /\ h[0] = p  BY <1>2, <1>3 DEF Steps
<1>7. ASSUME NEW k \in 1..n, Sound(h[k - 1], {}, g0[k - 1].l, g[k - 1].l, g[k - 1].c), h[k - 1].cap = cap, h[k - 1].valid = compress,
             g0[k].l < cap, g0[k - 1].c = NoMap
      PROVE  Sound(h[k], {}, g0[k].l, g[k].l, g[k].c) /\ Extends(h[k - 1], h[k])
  <2> DEFINE u == h[k - 1]
             x0 == g0[k - 1].l
             x == g[k - 1].l
             c == g[k - 1].c
             s == rrs[k]
             b0 == rrLen(s, x0, NoMap)
             b == rrLen(s, x, c)
             t == packRR(s, u, compress)
  <2>a. ~u.err  BY <1>7 DEF Sound, Covers
  <2>1. g0[k] = [l |-> x0 + b0.len, c |-> b0.c] /\ g[k] = [l |-> x + b.len, c |-> b.c] /\ h[k] = t
    BY <1>1, <1>5, <1>7, <2>a DEF AddLen, packNext
  <2>2. IsRR(s) /\ Sound(u, none, x0, x, c) /\ (u.valid => compress)  BY <1>7
  <2>3. x0 + b0.len < u.cap  BY <1>7, <2>1
  <2> HIDE DEF u, x0, x, c, s, none
  <2>4. Sound(t, none, x0 + b0.len, x + b.len, b.c) /\ Extends(u, t)  BY <2>2, <2>3, RecordSound DEF none
  <2> HIDE DEF b0, b, t
  <2>5. g0[k].l = x0 + b0.len /\ g[k].l = x + b.len /\ g[k].c = b.c  BY <2>1
  <2> QED BY <2>1, <2>4, <2>5 DEF u, none
<1>s. \A k \in 1..n : SoundStep(g0, g, h, cap, compress, k)  BY <1>7 DEF SoundStep
<1>8. Sound(h[0], {}, g0[0].l, g[0].l, g[0].c) /\ h[0].cap = cap /\ h[0].valid = compress /\ g0[n].l < cap
  BY <1>1, <1>6
<1> HIDE DEF n, loop, pack, none
<1>9. Sound(h[n], {}, g0[n].l, g[n].l, g[n].c)
  <2>1. PlainRun(g0, n)  BY <1>1
  <2> QED BY <2>1, <1>4, <1>s, <1>8, SoundRuns
<1>10. g0[n].l \in Nat
  <2>1. n \in 0..n  BY <1>4
  <2> QED BY <1>1, <2>1 DEF PlainRun
<1> QED BY <1>1, <1>2, <1>3, <1>9, <1>10

\* Records behind records.
LEMMA CatRecords ==
  ASSUME NEW s, IsSeq(s), NEW t, IsSeq(t), \A i \in 1..Len(s) : IsRR(s[i]), \A i \in 1..Len(t) : IsRR(t[i])
  PROVE  IsSeq(s \o t) /\ \A i \in 1..Len(s \o t) : IsRR((s \o t)[i])
<1> DEFINE a == s \o t
<1>1. /\ IsSeq(a) /\ Len(s) \in Nat /\ Len(t) \in Nat /\ Len(a) = Len(s) + Len(t)
      /\ \A i \in 1..Len(s) : a[i] = s[i]
      /\ \A i \in 1..Len(t) : a[Len(s) + i] = t[i]
  BY Cat
<1> HIDE DEF a
<1>2. ASSUME NEW i \in 1..Len(a) PROVE IsRR(a[i])
  <2>1. CASE i \in 1..Len(s)  BY <1>1, <2>1
  <2>2. CASE i \notin 1..Len(s)
    <3>1. i - Len(s) \in 1..Len(t) /\ Len(s) + (i - Len(s)) = i  BY <1>1, <2>2
    <3>2. a[Len(s) + (i - Len(s))] = t[i - Len(s)]  BY <1>1, <3>1
    <3>3. a[i] = t[i - Len(s)]  BY <3>1, <3>2
    <3> QED BY <3>1, <3>3
  <2> QED BY <2>1, <2>2
<1>3. IsSeq(a) /\ \A i \in 1..Len(a) : IsRR(a[i])  BY <1>1, <1>2
<1> QED BY <1>3 DEF a

\* The sections of a message.
LEMMA SectionsOf ==
  ASSUME NEW dns, IsMessage(dns)
  PROVE  /\ IsSeq(dns.answer) /\ IsSeq(dns.ns) /\ IsSeq(dns.extra) /\ IsSeq(dns.question)
         /\ \A i \in 1..Len(dns.answer) : IsRR(dns.answer[i])
         /\ \A i \in 1..Len(dns.ns) : IsRR(dns.ns[i])
         /\ \A i \in 1..Len(dns.extra) : IsRR(dns.extra[i])
         /\ \A i \in 1..Len(dns.question) : IsNameField(dns.question[i].name)
<1>1. "answer" \in Sections /\ "ns" \in Sections /\ "extra" \in Sections  BY DEF Sections
<1> QED BY <1>1 DEF IsMessage

\* Its records.
LEMMA RecordsOf ==
  ASSUME NEW dns, IsMessage(dns)
  PROVE  IsSeq(Records(dns)) /\ \A i \in 1..Len(Records(dns)) : IsRR(Records(dns)[i])
<1>1. IsSeq(dns.answer \o dns.ns) /\ \A i \in 1..Len(dns.answer \o dns.ns) : IsRR((dns.answer \o dns.ns)[i])
  BY SectionsOf, CatRecords
<1> DEFINE s == dns.answer \o dns.ns
<1> HIDE DEF s
<1>2. IsSeq(s \o dns.extra) /\ \A i \in 1..Len(s \o dns.extra) : IsRR((s \o dns.extra)[i])
  <2>1. IsSeq(s) /\ \A i \in 1..Len(s) : IsRR(s[i])  BY <1>1 DEF s
  <2> QED BY <2>1, SectionsOf, CatRecords
<1> QED BY <1>2 DEF Records, s

\* Records of the same length take the same length together.
LEMMA SameRecordsLen ==
  ASSUME NEW s, IsSeq(s), NEW t, IsSeq(t), EachSameLen(s, t), NEW a
  PROVE  RecordsLen(s, a) = RecordsLen(t, a)
<1> DEFINE n == Len(s)
<1>1. PICK g : Steps(g, n, a, [of |-> "RecordsLen", s |-> s]) /\ RecordsLen(s, a) = g[n]  BY RecordsLenLoop
<1>2. PICK h : Steps(h, Len(t), a, [of |-> "RecordsLen", s |-> t]) /\ RecordsLen(t, a) = h[Len(t)]
  BY RecordsLenLoop
<1>3. Len(t) = n /\ n \in Nat  BY DEF EachSameLen, IsSeq
<1>4. \A k \in 1..n : g[k] = AddLen(g[k - 1], rrLen(s[k], g[k - 1].l, g[k - 1].c))  BY <1>1 DEF Steps, Turn
<1>5. \A k \in 1..n : h[k] = AddLen(h[k - 1], rrLen(t[k], h[k - 1].l, h[k - 1].c))
  BY <1>2, <1>3 DEF Steps, Turn
<1> DEFINE S == {k \in 0..n : g[k] = h[k]}
<1>6. 0 \in S  BY <1>1, <1>2, <1>3 DEF Steps
<1>7. ASSUME NEW k \in 1..n, k - 1 \in S PROVE k \in S
  <2>1. g[k - 1] = h[k - 1] /\ k \in 0..n  BY <1>7
  <2>2. rrLen(s[k], g[k - 1].l, g[k - 1].c) = rrLen(t[k], g[k - 1].l, g[k - 1].c)  BY DEF EachSameLen, SameLen
  <2>3. g[k] = h[k]  BY <1>4, <1>5, <2>1, <2>2
  <2> QED BY <2>1, <2>3
<1>8. n \in S
  <2> HIDE DEF S
  <2>1. \A k \in 0..n : k \in S  BY <1>3, <1>6, <1>7, UpTo
  <2>2. n \in 0..n  BY <1>3
  <2> QED BY <2>1, <2>2
<1> QED BY <1>1, <1>2, <1>3, <1>8

\* So they do behind others.
LEMMA CatSameLen ==
  ASSUME NEW s, IsSeq(s), NEW t, IsSeq(t), NEW u, IsSeq(u), EachSameLen(t, u)
  PROVE  EachSameLen(s \o t, s \o u)
<1> DEFINE a == s \o t
           b == s \o u
<1>1. /\ Len(s) \in Nat /\ Len(t) \in Nat /\ Len(a) = Len(s) + Len(t)
      /\ \A i \in 1..Len(s) : a[i] = s[i]
      /\ \A i \in 1..Len(t) : a[Len(s) + i] = t[i]
  BY Cat
<1>2. /\ Len(b) = Len(s) + Len(u)
      /\ \A i \in 1..Len(s) : b[i] = s[i]
      /\ \A i \in 1..Len(u) : b[Len(s) + i] = u[i]
  BY Cat
<1>3. Len(u) = Len(t)  BY DEF EachSameLen
<1> HIDE DEF a, b
<1>4. ASSUME NEW i \in 1..Len(a) PROVE SameLen(a[i], b[i])
  <2>1. CASE i \in 1..Len(s)  BY <1>1, <1>2, <2>1 DEF SameLen
  <2>2. CASE i \notin 1..Len(s)
    <3> DEFINE j == i - Len(s)
    <3>1. j \in 1..Len(t) /\ Len(s) + j = i  BY <1>1, <2>2
    <3> HIDE DEF j
    <3>2. a[Len(s) + j] = t[j] /\ b[Len(s) + j] = u[j]  BY <1>1, <1>2, <1>3, <3>1
    <3>3. SameLen(t[j], u[j])  BY <3>1 DEF EachSameLen
    <3> QED BY <3>1, <3>2, <3>3
  <2> QED BY <2>1, <2>2
<1>5. EachSameLen(a, b)  BY <1>1, <1>2, <1>3, <1>4 DEF EachSameLen
<1> QED BY <1>5 DEF a, b

\* The octet of the TTL is not what a length or a type depends on.
LEMMA ExtendedRR ==
  ASSUME NEW rr, IsRR(rr), NEW v \in Int, NEW new, new = SetExtendedRcode(rr, v)
  PROVE  IsRR(new) /\ new.rrtype = rr.rrtype /\ SameLen(rr, new)
<1> DEFINE b == (v \div 16) % 256
           t == [rr.ttl EXCEPT ![1] = b]
<1>1. b \in Byte  BY DEF Byte
<1>2. rr.ttl \in [1..4 -> Byte]  BY DEF IsRR
<1> HIDE DEF b
<1>3. t \in [1..4 -> Byte]  BY <1>1, <1>2
<1>4. new = [rr EXCEPT !.ttl = t]  BY DEF SetExtendedRcode, b
<1> HIDE DEF t
<1>5. DOMAIN rr = {"name", "rrtype", "class", "ttl", "kind", "f"}  BY DEF IsRR
<1>6. /\ DOMAIN new = DOMAIN rr /\ new.name = rr.name /\ new.rrtype = rr.rrtype /\ new.kind = rr.kind
      /\ new.f = rr.f /\ new.ttl = t
  BY <1>4, <1>5
<1>7. SameLen(rr, new)  BY <1>6 DEF SameLen, rrLen
<1>8. RRLen(new) = RRLen(rr)  BY <1>7 DEF SameLen, RRLen
<1>9. IsRR(new)  BY <1>3, <1>5, <1>6, <1>8 DEF IsRR
<1> QED BY <1>6, <1>7, <1>9

\* IsEdns0 gives an OPT record of the message, or none.
LEMMA OptIndex ==
  ASSUME NEW dns, IsSeq(dns.extra)
  PROVE  IsEdns0(dns) \in 0..Len(dns.extra) /\ (IsEdns0(dns) # 0 => IsOPT(dns.extra[IsEdns0(dns)]))
<1> DEFINE n == Len(dns.extra)
           T == {0} \cup {i \in 1..n : IsOPT(dns.extra[i])}
<1>1. n \in Nat  BY DEF IsSeq
<1>2. T \subseteq 0..n /\ T # {} /\ \A i \in T : i # 0 => IsOPT(dns.extra[i])  BY <1>1
<1>3. IsEdns0(dns) = Max(T)  BY DEF IsEdns0
<1> HIDE DEF T
<1>4. Max(T) \in T /\ Max(T) \in 0..n  BY <1>1, <1>2, MaxIn
<1> QED BY <1>2, <1>3, <1>4

\* What stays when the additional section is replaced.
LEMMA SameSections ==
  ASSUME NEW dns, IsMessage(dns), NEW extra, NEW new, new = [dns EXCEPT !.extra = extra]
  PROVE  /\ DOMAIN new = DOMAIN dns /\ new.extra = extra /\ new.question = dns.question /\ new.answer = dns.answer
         /\ new.ns = dns.ns /\ new.Compress = dns.Compress /\ new.Rcode = dns.Rcode
<1>1. DOMAIN dns = {"Id", "flags", "Opcode", "Rcode", "Compress", "question", "answer", "ns", "extra"}
  BY DEF IsMessage
<1> QED BY <1>1

\* WithExtendedRcode leaves a message of the same shape and length.
LEMMA SentMessage ==
  ASSUME NEW dns, IsMessage(dns), NEW new, new = WithExtendedRcode(dns)
  PROVE  /\ IsMessage(new) /\ new.question = dns.question /\ new.answer = dns.answer /\ new.ns = dns.ns
         /\ new.Compress = dns.Compress /\ new.Rcode = dns.Rcode /\ EachSameLen(dns.extra, new.extra)
         /\ IsEdns0(new) = IsEdns0(dns)
<1> DEFINE e == dns.extra
           at == IsEdns0(dns)
           n == Len(e)
<1>1. IsSeq(e) /\ \A i \in 1..n : IsRR(e[i])  BY SectionsOf
<1>2. CASE new = dns
  <2>1. EachSameLen(e, e)  BY DEF EachSameLen, SameLen
  <2> QED BY <1>2, <2>1
<1>3. CASE new # dns
  <2> DEFINE opt == SetExtendedRcode(e[at], dns.Rcode)
             x == [e EXCEPT ![at] = opt]
  <2>1. at # 0 /\ new = [dns EXCEPT !.extra = x]
    <3> DEFINE y == [dns EXCEPT !.extra[at] = SetExtendedRcode(@, dns.Rcode)]
    <3>1. (dns.Rcode \notin 0..4095 \/ at = 0) => new = dns  BY DEF WithExtendedRcode
    <3>2. ~(dns.Rcode \notin 0..4095 \/ at = 0) => new = y
      <4>1. WithExtendedRcode(dns) = IF dns.Rcode \notin 0..4095 \/ at = 0 THEN dns ELSE y
        BY Zenon DEF WithExtendedRcode
      <4> HIDE DEF y, at
      <4> QED BY <4>1
    <3>3. y = [dns EXCEPT !.extra = x]  OBVIOUS
    <3> HIDE DEF at, y, x
    <3> QED BY SMTT(20), <1>3, <3>1, <3>2, <3>3
  <2>2. at \in 1..n /\ IsOPT(e[at]) /\ n \in Nat
    <3>1. at \in 0..n /\ IsOPT(e[at])  BY <1>1, <2>1, OptIndex
    <3>2. n \in Nat  BY <1>1 DEF IsSeq
    <3> HIDE DEF at, n
    <3> QED BY <2>1, <3>1, <3>2
  <2>3. IsRR(e[at]) /\ dns.Rcode \in Int  BY <1>1, <2>2 DEF IsMessage
  <2> HIDE DEF at
  <2>4. IsRR(opt) /\ opt.rrtype = e[at].rrtype /\ SameLen(e[at], opt)  BY <2>3, ExtendedRR
  <2> HIDE DEF opt, e
  <2>5. e = [i \in 1..n |-> e[i]]  BY <1>1 DEF IsSeq
  <2>6. x = [i \in 1..n |-> x[i]] /\ \A i \in 1..n : x[i] = IF i = at THEN opt ELSE e[i]
    <3> HIDE DEF n
    <3> QED BY <2>5
  <2> HIDE DEF x
  <2>7. IsSeq(x) /\ Len(x) = n
    <3> HIDE DEF n
    <3> QED BY <2>2, <2>6, FunctionIsSeq
  <2>8. \A i \in 1..n : IsRR(x[i]) /\ SameLen(e[i], x[i]) /\ x[i].rrtype = e[i].rrtype
    <3> SUFFICES ASSUME NEW i \in 1..n PROVE IsRR(x[i]) /\ SameLen(e[i], x[i]) /\ x[i].rrtype = e[i].rrtype
      OBVIOUS
    <3>1. CASE i = at  BY <2>4, <2>6, <3>1
    <3>2. CASE i # at
      <4>1. x[i] = e[i] /\ IsRR(e[i])  BY <1>1, <2>6, <3>2
      <4> QED BY <4>1 DEF SameLen
    <3> QED BY <3>1, <3>2
  <2>9. EachSameLen(e, x)  BY <2>7, <2>8 DEF EachSameLen
  <2>10. /\ DOMAIN new = DOMAIN dns /\ new.extra = x /\ new.question = dns.question /\ new.answer = dns.answer
         /\ new.ns = dns.ns /\ new.Compress = dns.Compress /\ new.Rcode = dns.Rcode
    BY <2>1, SameSections
  <2>11. IsMessage(new)
    <3>1. \A sec \in Sections : IsSeq(new[sec]) /\ \A i \in 1..Len(new[sec]) : IsRR(new[sec][i])
      <4> SUFFICES ASSUME NEW sec \in Sections PROVE IsSeq(new[sec]) /\ \A i \in 1..Len(new[sec]) : IsRR(new[sec][i])
        OBVIOUS
      <4>1. CASE sec = "extra"  BY <2>7, <2>8, <2>10, <4>1
      <4>2. CASE sec # "extra"
        <5>1. sec \in {"answer", "ns"}  BY <4>2 DEF Sections
        <5> QED BY <2>10, <5>1, SectionsOf
      <4> QED BY <4>1, <4>2
    <3> QED BY <2>10, <3>1 DEF IsMessage
  <2>12. IsEdns0(new) = IsEdns0(dns)
    <3>1. {i \in 1..Len(new.extra) : IsOPT(new.extra[i])} = {i \in 1..Len(dns.extra) : IsOPT(dns.extra[i])}
      BY <2>7, <2>8, <2>10 DEF IsOPT, e
    <3> QED BY <3>1 DEF IsEdns0
  <2> QED BY SMTT(20), <2>9, <2>10, <2>11, <2>12 DEF e
<1> QED BY <1>2, <1>3

\* What its length depends on is the same in the message as it is packed.
LEMMA SentLength ==
  ASSUME NEW dns, IsMessage(dns), NEW new, new = WithExtendedRcode(dns)
  PROVE  /\ isCompressible(new) = isCompressible(dns)
         /\ \A valid : QuestionsLen(new, valid) = QuestionsLen(dns, valid)
         /\ \A a : RecordsLen(Records(new), a) = RecordsLen(Records(dns), a)
<1>1. /\ IsMessage(new) /\ new.question = dns.question /\ new.answer = dns.answer /\ new.ns = dns.ns
      /\ EachSameLen(dns.extra, new.extra)
  BY SentMessage
<1>2. IsSeq(dns.extra) /\ IsSeq(new.extra) /\ IsSeq(dns.answer) /\ IsSeq(dns.ns) /\ IsSeq(Records(dns)) /\ IsSeq(Records(new))
  BY <1>1, SectionsOf, RecordsOf
<1>3. (new.extra = <<>>) <=> (dns.extra = <<>>)
  <2>1. Len(new.extra) = Len(dns.extra)  BY <1>1 DEF EachSameLen
  <2>2. ASSUME NEW s, IsSeq(s) PROVE (s = <<>>) <=> (Len(s) = 0)  BY <2>2 DEF IsSeq
  <2> QED BY <1>2, <2>1, <2>2
<1>4. isCompressible(new) = isCompressible(dns)  BY <1>1, <1>3 DEF isCompressible
<1>5. \A valid : QuestionsLen(new, valid) = QuestionsLen(dns, valid)  BY <1>1 DEF QuestionsLen
<1>6. EachSameLen(Records(dns), Records(new))
  <2> DEFINE s == dns.answer \o dns.ns
  <2>1. IsSeq(s)  BY <1>2, Cat
  <2> HIDE DEF s
  <2>2. EachSameLen(s \o dns.extra, s \o new.extra)  BY <1>1, <1>2, <2>1, CatSameLen
  <2> QED BY <1>1, <2>2 DEF Records, s
<1>7. \A a : RecordsLen(Records(new), a) = RecordsLen(Records(dns), a)  BY <1>2, <1>6, SameRecordsLen
<1> QED BY <1>4, <1>5, <1>7

\* A new buffer is sound.
LEMMA NewSound ==
  ASSUME NEW cap \in Nat, NEW valid \in BOOLEAN, NEW p, p = NewBuffer(cap, valid)
  PROVE  Sound(p, {}, 0, 0, FreshMap(valid)) /\ p.cap = cap /\ p.valid = valid
<1> DEFINE c == FreshMap(valid)
<1>1. /\ DOMAIN p = {"msg", "cap", "valid", "comp", "err"} /\ p.msg = <<>> /\ p.cap = cap /\ p.valid = valid
      /\ p.comp = <<>> /\ p.err = FALSE
  BY DEF NewBuffer
<1>2. IsSeq(p.msg) /\ Len(p.msg) = 0  BY <1>1 DEF IsSeq
<1>3. c.valid = valid /\ c.seen = {} /\ c = [valid |-> c.valid, seen |-> c.seen]  BY DEF FreshMap
<1>4. DOMAIN p.comp = {}  BY <1>1
<1>5. IsBuffer(p)  BY <1>1, <1>2 DEF IsBuffer
<1>6. TrueMap(p, {})  BY <1>4 DEF TrueMap
<1>7. Nested(p)  BY <1>4 DEF Nested
<1> HIDE DEF c
<1>8. Covers(p, 0, 0, c)
  <2>1. ~p.err  BY <1>1
  <2>2. c = [valid |-> p.valid, seen |-> c.seen]  BY <1>1, <1>3
  <2>3. c.seen \subseteq DOMAIN p.comp  BY <1>3
  <2> QED BY <1>2, <1>5, <1>7, <2>1, <2>2, <2>3 DEF Covers
<1> QED BY <1>1, <1>6, <1>8 DEF Sound, c

\* Two more octets.
LEMMA TwoMore ==
  ASSUME NEW s, IsSeq(s), NEW t, IsSeq(t), Len(t) = 2
  PROVE  IsSeq(s \o t) /\ Len(s \o t) = Len(s) + 2
<1>1. IsSeq(s \o t) /\ Len(s \o t) = Len(s) + Len(t)  BY Cat
<1> QED BY <1>1

\* The header of a message has twelve octets.
LEMMA SixCounts ==
  ASSUME NEW a, NEW b, NEW c, NEW d, NEW e, NEW f
  PROVE  LET o == BE(a, 2) \o BE(b, 2) \o BE(c, 2) \o BE(d, 2) \o BE(e, 2) \o BE(f, 2) IN IsSeq(o) /\ Len(o) = 12
<1> DEFINE b1 == BE(a, 2)
           b2 == BE(b, 2)
           b3 == BE(c, 2)
           b4 == BE(d, 2)
           b5 == BE(e, 2)
           b6 == BE(f, 2)
           o1 == b1 \o b2
           o2 == o1 \o b3
           o3 == o2 \o b4
           o4 == o3 \o b5
           o5 == o4 \o b6
<1>2. /\ IsSeq(b1) /\ IsSeq(b2) /\ IsSeq(b3) /\ IsSeq(b4) /\ IsSeq(b5) /\ IsSeq(b6)
      /\ Len(b1) = 2 /\ Len(b2) = 2 /\ Len(b3) = 2 /\ Len(b4) = 2 /\ Len(b5) = 2 /\ Len(b6) = 2
  BY BEFacts
<1> HIDE DEF b1, b2, b3, b4, b5, b6
<1>3. IsSeq(o1) /\ Len(o1) = Len(b1) + 2  BY <1>2, TwoMore
<1> HIDE DEF o1
<1>4. IsSeq(o2) /\ Len(o2) = Len(o1) + 2  BY <1>2, <1>3, TwoMore
<1> HIDE DEF o2
<1>5. IsSeq(o3) /\ Len(o3) = Len(o2) + 2  BY <1>2, <1>4, TwoMore
<1> HIDE DEF o3
<1>6. IsSeq(o4) /\ Len(o4) = Len(o3) + 2  BY <1>2, <1>5, TwoMore
<1> HIDE DEF o4
<1>7. IsSeq(o5) /\ Len(o5) = Len(o4) + 2  BY <1>2, <1>6, TwoMore
<1> HIDE DEF o5
<1>8. IsSeq(o5) /\ Len(o5) = 12  BY <1>2, <1>3, <1>4, <1>5, <1>6, <1>7
<1> QED BY <1>8 DEF o5, o4, o3, o2, o1, b1, b2, b3, b4, b5, b6

\* packMsgHdr leaves a sound buffer of the length of the header.
LEMMA MessageHeader ==
  ASSUME NEW dns, IsMessage(dns), NEW cap \in Nat, headerSize <= cap, NEW valid \in BOOLEAN,
         NEW q, q = packMsgHdr(dns, NewBuffer(cap, valid))
  PROVE  Sound(q, {}, headerSize, headerSize, FreshMap(valid)) /\ q.cap = cap /\ q.valid = valid
<1> DEFINE p == NewBuffer(cap, valid)
           c == FreshMap(valid)
           o5 == BE(dns.Id, 2) \o BE(HeaderBits(dns), 2) \o BE(Len(dns.question), 2)
                   \o BE(Len(dns.answer), 2) \o BE(Len(dns.ns), 2) \o BE(Len(dns.extra), 2)
           none == {}
<1>1. Sound(p, none, 0, 0, c) /\ p.cap = cap /\ p.valid = valid  BY NewSound
<1>7. IsSeq(o5) /\ Len(o5) = 12  BY SMTT(20), SixCounts
<1>8. q = Put(p, o5)  BY DEF packMsgHdr
<1> HIDE DEF p, c, o5, none
<1>9. headerSize = 12 /\ 12 \in Nat  BY DEF headerSize
<1>10. 0 + 12 <= p.cap /\ Len(o5) <= 12  BY <1>1, <1>7, <1>9
<1>11. Sound(q, none, 0 + 12, 0 + 12, c) /\ Extends(p, q)  BY <1>1, <1>7, <1>8, <1>9, <1>10, PutSound
<1>12. 0 + 12 = headerSize  BY <1>9
<1>13. Sound(q, none, headerSize, headerSize, c)  BY <1>11, <1>12
<1> QED BY <1>1, <1>11, <1>13 DEF Extends, none, c

\* PackBuffer is PackAll, but for the codes it refuses.
LEMMA PackIs ==
  ASSUME NEW dns, IsMessage(dns)
  PROVE  (Refused(dns) => PackBuffer(dns) = Failed(NewBuffer(Capacity(dns), Compressed(dns)))) /\ (~Refused(dns) => PackBuffer(dns) = PackAll(dns))
<1>1. WithExtendedRcode(dns).answer = dns.answer /\ WithExtendedRcode(dns).ns = dns.ns  BY SentMessage
<1>2. Records(WithExtendedRcode(dns)) = dns.answer \o dns.ns \o WithExtendedRcode(dns).extra
  BY <1>1 DEF Records
<1> DEFINE valid == Compressed(dns)
           first == packQuestions(dns.question, packMsgHdr(dns, NewBuffer(Capacity(dns), valid)), valid)
           all == dns.answer \o dns.ns \o WithExtendedRcode(dns).extra
           new == NewBuffer(Capacity(dns), valid)
           failed == Failed(new)
           packed == packRRs(all, first, valid)
<1>3. PackBuffer(dns) = IF Refused(dns) THEN failed ELSE packed
  BY Zenon DEF PackBuffer, packBufferWithCompressionMap, Compressed, Refused, Capacity
<1>4. PackAll(dns) = packRRs(Records(WithExtendedRcode(dns)), first, valid)  BY Zenon DEF PackAll
<1>6. failed = Failed(NewBuffer(Capacity(dns), Compressed(dns)))  OBVIOUS
<1> HIDE DEF valid, first, failed
<1>5. PackAll(dns) = packed  BY <1>2, <1>4
<1> HIDE DEF packed
<1> QED BY <1>3, <1>5, <1>6

\* A message that Pack accepts fits the buffer of its length without compression, and
\* the length with compression covers it.
LEMMA PackAllSound ==
  ASSUME NEW dns, IsMessage(dns), NEW q, q = PackAll(dns), NEW new, new = WithExtendedRcode(dns)
  PROVE  \E l0, c : Sound(q, {}, l0, MsgLen(new), c)
<1> DEFINE valid == Compressed(dns)
           none == {}
           plain == msgLenWithCompressionMap(dns, FALSE)
           cap == plain + 1
           rrs == Records(new)
           p1 == packMsgHdr(dns, NewBuffer(cap, valid))
           p2 == packQuestions(dns.question, p1, valid)
           a0 == PlainQuestions(dns)
           a == QuestionsLen(dns, valid)
<1>1. /\ IsMessage(new) /\ new.question = dns.question /\ new.Compress = dns.Compress /\ isCompressible(new) = isCompressible(dns)
  BY SentMessage, SentLength
<1>2. valid \in BOOLEAN  BY DEF Compressed, IsMessage, isCompressible
<1>3. IsSeq(dns.question) /\ \A i \in 1..Len(dns.question) : IsNameField(dns.question[i].name)  BY SectionsOf
<1>4. IsSeq(rrs) /\ \A i \in 1..Len(rrs) : IsRR(rrs[i])  BY <1>1, RecordsOf
<1>5. plain = RecordsLen(Records(dns), a0).l  BY DEF msgLenWithCompressionMap, Records, PlainQuestions
<1>6. RecordsLen(rrs, a0) = RecordsLen(Records(dns), a0)  BY SentLength
<1>7. MsgLen(new) = RecordsLen(rrs, a).l
  <2>1. Compressed(new) = valid  BY <1>1 DEF Compressed
  <2>2. QuestionsLen(new, valid) = a  BY SentLength
  <2>3. MsgLen(new) = RecordsLen(Records(new), QuestionsLen(new, Compressed(new))).l
    BY Zenon DEF MsgLen, msgLenWithCompressionMap, Records, Compressed
  <2> QED BY <2>1, <2>2, <2>3
<1>8. q = packRRs(rrs, p2, valid)  BY DEF PackAll, Capacity
<1>9. PICK g0 : /\ a0 = g0[Len(dns.question)] /\ PlainRun(g0, Len(dns.question)) /\ g0[0].l = headerSize
  BY <1>3, QuestionsPlain
<1>10. a0.l \in Nat /\ a0.c = NoMap /\ headerSize <= a0.l /\ headerSize \in Nat
  <2> DEFINE n == Len(dns.question)
  <2>1. n \in Nat  BY <1>3 DEF IsSeq
  <2> HIDE DEF n
  <2>2. 0 \in 0..n /\ n \in 0..n  BY <2>1
  <2>3. g0[n].l \in Nat /\ g0[n].c = NoMap /\ g0[0].l \in Nat /\ g0[0].l <= g0[n].l
    BY <1>9, <2>2 DEF PlainRun, n
  <2> QED BY <1>9, <2>3 DEF n
<1>11. PICK g1 : /\ RecordsLen(rrs, a0) = g1[Len(rrs)] /\ PlainRun(g1, Len(rrs)) /\ g1[0] = a0
  <2> HIDE DEF a0, rrs
  <2> QED BY <1>4, <1>10, RecordsPlain
<1>12. plain \in Nat /\ a0.l <= plain
  <2> DEFINE n == Len(rrs)
  <2>1. n \in Nat  BY <1>4 DEF IsSeq
  <2> HIDE DEF n
  <2>2. 0 \in 0..n /\ n \in 0..n  BY <2>1
  <2>3. g1[n].l \in Nat /\ g1[0].l <= g1[n].l  BY <1>11, <2>2 DEF PlainRun, n
  <2> QED BY <1>5, <1>6, <1>11, <2>3 DEF n
<1> HIDE DEF plain
<1>13. cap \in Nat /\ headerSize <= cap /\ a0.l < cap /\ plain < cap
  <2> HIDE DEF a0
  <2> QED BY <1>10, <1>12
<1> HIDE DEF valid, cap
<1>14. Sound(p1, none, headerSize, headerSize, FreshMap(valid)) /\ p1.cap = cap /\ p1.valid = valid
  BY <1>2, <1>13, MessageHeader
<1> HIDE DEF p1
<1>15. Sound(p2, none, a0.l, a.l, a.c) /\ p2.cap = cap /\ p2.valid = valid
  <2>1. PlainQuestions(dns).l < cap  BY <1>13
  <2> HIDE DEF a0
  <2>2. Sound(p2, none, PlainQuestions(dns).l, a.l, a.c) /\ p2.cap = cap /\ p2.valid = valid
    BY <1>2, <1>3, <1>13, <1>14, <2>1, QuestionsSound
  <2> QED BY <2>2 DEF a0
<1> HIDE DEF p2, a0, a, rrs, none
<1>16. RecordsLen(rrs, a0).l < cap  BY <1>5, <1>6, <1>13
<1>17. Sound(q, none, RecordsLen(rrs, a0).l, RecordsLen(rrs, a).l, RecordsLen(rrs, a).c)
  BY <1>2, <1>4, <1>8, <1>10, <1>13, <1>15, <1>16, RecordsSound DEF none
<1>18. Sound(q, none, RecordsLen(rrs, a0).l, MsgLen(new), RecordsLen(rrs, a).c)  BY <1>7, <1>17
<1> QED BY <1>18 DEF none

\* What Pack makes of a message: it fails exactly for a response code that it refuses,
\* and otherwise the length covers it and the compression map is true.
LEMMA PackHolds ==
  ASSUME NEW dns, IsMessage(dns), NEW q, q = PackBuffer(dns)
  PROVE  /\ Refused(dns) => q.err = TRUE
         /\ ~Refused(dns) => /\ q.err = FALSE /\ Len(q.msg) <= MsgLen(WithExtendedRcode(dns))
                             /\ IsSeq(q.msg) /\ TrueMap(q, {})
<1>1. ASSUME Refused(dns) PROVE q.err = TRUE
  <2> DEFINE p == NewBuffer(Capacity(dns), Compressed(dns))
  <2>1. q = Failed(p)  BY <1>1, PackIs
  <2>2. DOMAIN p = {"msg", "cap", "valid", "comp", "err"}  BY DEF NewBuffer
  <2> HIDE DEF p
  <2> QED BY <2>1, <2>2 DEF Failed
<1>2. ASSUME ~Refused(dns)
      PROVE  /\ q.err = FALSE /\ Len(q.msg) <= MsgLen(WithExtendedRcode(dns))
             /\ IsSeq(q.msg) /\ TrueMap(q, {})
  <2>1. q = PackAll(dns)  BY <1>2, PackIs
  <2>2. PICK l0, c : Sound(q, {}, l0, MsgLen(WithExtendedRcode(dns)), c)  BY <2>1, PackAllSound
  <2> QED BY <2>2 DEF Sound, Covers, IsBuffer
<1> QED BY <1>1, <1>2

\* It refuses those that the message cannot carry.
LEMMA RefusedCodes ==
  ASSUME NEW dns, IsMessage(dns)
  PROVE  Refused(dns) <=> dns.Rcode \notin Codes(IsEdns0(dns))
<1>1. dns.Rcode \in Int  BY DEF IsMessage
<1> DEFINE r == dns.Rcode
           at == IsEdns0(dns)
           top == 4095
<1>2. top \in Int /\ top >= 15  OBVIOUS
<1>3. Refused(dns) <=> r \notin 0..top \/ (r > 15 /\ at = 0)  BY Zenon DEF Refused
<1>4. CASE at = 0
  <2> DEFINE last == IF at = 0 THEN 15 ELSE 4095
  <2>a. last = 15  BY <1>4
  <2>b. Codes(at) = 0..last  BY DEF Codes
  <2> HIDE DEF last
  <2>1. Codes(at) = 0..15  BY <2>a, <2>b
  <2> HIDE DEF r, at, top
  <2> QED BY <1>1, <1>2, <1>3, <1>4, <2>1 DEF r, at
<1>5. CASE at # 0
  <2> DEFINE last == IF at = 0 THEN 15 ELSE 4095
  <2>a. last = top  BY <1>5
  <2>b. Codes(at) = 0..last  BY Zenon DEF Codes
  <2> HIDE DEF last, top
  <2>1. Codes(at) = 0..top  BY <2>a, <2>b
  <2> HIDE DEF r, at, top
  <2>2. Refused(dns) <=> r \notin 0..top  BY <1>3, <1>5
  <2> QED BY <2>1, <2>2 DEF r, at
<1> QED BY <1>4, <1>5

\* WithExtendedRcode stores the high bits of the code.
LEMMA StoredIs ==
  ASSUME NEW dns
  PROVE  WithExtendedRcode(dns) = StoredCode(dns, dns.Rcode, IsEdns0(dns))
BY Zenon DEF WithExtendedRcode, StoredCode

\* The octet of the response code has been stored once and for all.
LEMMA StoredOnce ==
  ASSUME NEW dns, IsMessage(dns), NEW new, new = WithExtendedRcode(dns)
  PROVE  WithExtendedRcode(new).extra = new.extra
<1> DEFINE at == IsEdns0(dns)
           r == dns.Rcode
           b == (r \div 16) % 256
           e == dns.extra
           n == Len(e)
           t == [e[at].ttl EXCEPT ![1] = b]
           opt == [e[at] EXCEPT !.ttl = t]
           x == [e EXCEPT ![at] = opt]
           y == new.extra
           t2 == [y[at].ttl EXCEPT ![1] = b]
           opt2 == [y[at] EXCEPT !.ttl = t2]
           z == [y EXCEPT ![at] = opt2]
<1>1. new.Rcode = r /\ IsEdns0(new) = at /\ IsMessage(new)  BY SentMessage
<1>2. CASE r \notin 0..4095 \/ at = 0
  <2> DEFINE w == [new EXCEPT !.extra[at] = SetExtendedRcode(@, r)]
  <2>1. WithExtendedRcode(new) = StoredCode(new, r, at)
    <3> HIDE DEF r, at
    <3> QED BY <1>1, StoredIs
  <2>2. WithExtendedRcode(new) = IF r \notin 0..4095 \/ at = 0 THEN new ELSE w
    <3> HIDE DEF r, at
    <3> QED BY <2>1, Zenon DEF StoredCode
  <2> HIDE DEF w, r, at
  <2> QED BY <1>2, <2>2
<1>3. CASE ~(r \notin 0..4095 \/ at = 0)
  <2>1. new = [dns EXCEPT !.extra = x]
    <3> DEFINE w == [dns EXCEPT !.extra[at] = SetExtendedRcode(@, r)]
    <3>1. new = IF r \notin 0..4095 \/ at = 0 THEN dns ELSE w  BY Zenon DEF WithExtendedRcode
    <3>2. w = [dns EXCEPT !.extra = x]  BY DEF SetExtendedRcode
    <3> HIDE DEF w, at, x, r
    <3> QED BY <1>3, <3>1, <3>2
  <2>2. WithExtendedRcode(new) = [new EXCEPT !.extra = z]
    <3> DEFINE w == [new EXCEPT !.extra[at] = SetExtendedRcode(@, r)]
    <3>1. WithExtendedRcode(new) = StoredCode(new, r, at)
      <4> HIDE DEF r, at
      <4> QED BY <1>1, StoredIs
    <3>2. WithExtendedRcode(new) = IF r \notin 0..4095 \/ at = 0 THEN new ELSE w
      <4> HIDE DEF r, at
      <4> QED BY <3>1, Zenon DEF StoredCode
    <3>3. w = [new EXCEPT !.extra = z]  BY DEF SetExtendedRcode
    <3> HIDE DEF w, at, z, r
    <3> QED BY <1>3, <3>2, <3>3
  <2>3. y = x  BY <2>1, SameSections
  <2>4. WithExtendedRcode(new).extra = z  BY <1>1, <2>2, SameSections
  <2>5. IsSeq(e) /\ at \in 1..n /\ IsRR(e[at])
    <3>1. IsSeq(e) /\ \A i \in 1..n : IsRR(e[i])  BY SectionsOf
    <3>2. at \in 0..n  BY <3>1, OptIndex
    <3>3. n \in Nat  BY <3>1 DEF IsSeq
    <3>4. at \in 1..n
      <4> HIDE DEF at, n
      <4> QED BY <1>3, <3>2, <3>3
    <3> QED BY <3>1, <3>4
  <2>6. e[at].ttl \in [1..4 -> Byte] /\ DOMAIN e[at] = {"name", "rrtype", "class", "ttl", "kind", "f"}
    BY <2>5 DEF IsRR
  <2> HIDE DEF b
  <2>7. t[1] = b  BY <2>6
  <2> HIDE DEF t
  <2>8. opt.ttl = t  BY <2>6
  <2> HIDE DEF opt
  <2>9. y[at] = opt
    <3>1. e = [i \in 1..n |-> e[i]]  BY <2>5 DEF IsSeq
    <3> HIDE DEF e, at, n
    <3> QED BY <2>3, <2>5, <3>1
  <2>10. t2 = t
    <3>1. DOMAIN t = 1..4 /\ t = [i \in 1..4 |-> t[i]]  BY <2>6 DEF t
    <3>2. t2 = [t EXCEPT ![1] = b]  BY <2>8, <2>9
    <3> HIDE DEF t2
    <3> QED BY <2>7, <3>1, <3>2
  <2>11. opt2 = opt
    <3>1. opt2 = [opt EXCEPT !.ttl = t]  BY <2>9, <2>10
    <3>2. DOMAIN opt = {"name", "rrtype", "class", "ttl", "kind", "f"} /\ opt = [i \in DOMAIN opt |-> opt[i]]
      BY <2>6 DEF opt
    <3> HIDE DEF opt2
    <3> QED BY <2>8, <3>1, <3>2
  <2>12. z = y
    <3>1. y = [i \in DOMAIN e |-> y[i]]  BY <2>3
    <3>2. z = [y EXCEPT ![at] = opt]  BY <2>11
    <3> HIDE DEF z, y, at
    <3> QED BY <2>9, <3>1, <3>2
  <2> QED BY <2>4, <2>12
<1> QED BY <1>2, <1>3

\* The fields that WithExtendedRcode leaves alone.
LEMMA SameHeader ==
  ASSUME NEW dns, IsMessage(dns), NEW new, new = WithExtendedRcode(dns)
  PROVE  new.Id = dns.Id /\ HeaderBits(new) = HeaderBits(dns)
<1> DEFINE r == dns.Rcode
           at == IsEdns0(dns)
           w == [dns EXCEPT !.extra[at] = SetExtendedRcode(@, r)]
<1>1. new = IF r \notin 0..4095 \/ at = 0 THEN dns ELSE w  BY Zenon DEF WithExtendedRcode
<1>2. DOMAIN dns = {"Id", "flags", "Opcode", "Rcode", "Compress", "question", "answer", "ns", "extra"}
  BY DEF IsMessage
<1>3. w.Id = dns.Id /\ w.Opcode = dns.Opcode /\ w.flags = dns.flags /\ w.Rcode = dns.Rcode  BY <1>2
<1> HIDE DEF w, r, at
<1>4. new.Id = dns.Id /\ new.Opcode = dns.Opcode /\ new.flags = dns.flags /\ new.Rcode = dns.Rcode
  BY <1>1, <1>3
<1> QED BY <1>4 DEF HeaderBits

\* Packing the message again, with the response code stored in it, gives the same octets.
LEMMA Repacked ==
  ASSUME NEW dns, IsMessage(dns), NEW new, new = WithExtendedRcode(dns)
  PROVE  PackBuffer(new) = PackBuffer(dns) /\ MsgLen(WithExtendedRcode(new)) = MsgLen(new)
<1>1. /\ IsMessage(new) /\ new.question = dns.question /\ new.answer = dns.answer /\ new.ns = dns.ns
      /\ new.Compress = dns.Compress /\ new.Rcode = dns.Rcode /\ IsEdns0(new) = IsEdns0(dns)
      /\ Len(new.extra) = Len(dns.extra)
  BY SentMessage DEF EachSameLen
<1>2. /\ isCompressible(new) = isCompressible(dns)
      /\ \A valid : QuestionsLen(new, valid) = QuestionsLen(dns, valid)
      /\ \A a : RecordsLen(Records(new), a) = RecordsLen(Records(dns), a)
  BY SentLength
<1>3. Compressed(new) = Compressed(dns)  BY <1>1, <1>2 DEF Compressed
<1>4. \A valid : msgLenWithCompressionMap(new, valid) = msgLenWithCompressionMap(dns, valid)
  BY <1>2, Zenon DEF msgLenWithCompressionMap, Records
<1>5. Capacity(new) = Capacity(dns)  BY <1>4 DEF Capacity
<1>6. \A p : packMsgHdr(new, p) = packMsgHdr(dns, p)  BY <1>1, SameHeader DEF packMsgHdr
<1>7. WithExtendedRcode(new).extra = new.extra /\ WithExtendedRcode(new).answer = new.answer /\ WithExtendedRcode(new).ns = new.ns
  BY <1>1, SentMessage, StoredOnce
<1>8. Records(WithExtendedRcode(new)) = Records(new)  BY <1>7 DEF Records
<1>9. PackAll(new) = PackAll(dns)  BY <1>1, <1>3, <1>5, <1>6, <1>8, Zenon DEF PackAll
<1>10. Refused(new) <=> Refused(dns)  BY <1>1, RefusedCodes
<1>11. PackBuffer(new) = PackBuffer(dns)
  <2>1. CASE Refused(dns)  BY <1>1, <1>3, <1>5, <1>10, <2>1, PackIs
  <2>2. CASE ~Refused(dns)  BY <1>1, <1>9, <1>10, <2>2, PackIs
  <2> QED BY <2>1, <2>2
<1>12. MsgLen(WithExtendedRcode(new)) = MsgLen(new)
  <2> DEFINE again == WithExtendedRcode(new)
  <2>1. /\ again.Compress = new.Compress /\ isCompressible(again) = isCompressible(new)
        /\ \A valid : QuestionsLen(again, valid) = QuestionsLen(new, valid)
        /\ \A a : RecordsLen(Records(again), a) = RecordsLen(Records(new), a)
    BY <1>1, SentMessage, SentLength
  <2> HIDE DEF again
  <2>2. \A valid : msgLenWithCompressionMap(again, valid) = msgLenWithCompressionMap(new, valid)
    BY <2>1, Zenon DEF msgLenWithCompressionMap, Records
  <2>3. MsgLen(again) = MsgLen(new)  BY <2>1, <2>2, Zenon DEF MsgLen
  <2> QED BY <2>3 DEF again
<1> QED BY <1>11, <1>12

\* Whatever has been seen before, a field adds to the length.
LEMMA NameLonger ==
  ASSUME NEW a, IsLength(a), NEW s, IsNameField(s), NEW off \in Nat, NEW allowed, NEW b, b = NameLen(a, s, off, allowed)
  PROVE  IsLength(b) /\ a.len <= b.len
<1> DEFINE o == off + a.len
           c == a.c
           r == domainNameLen(s, o, c, allowed)
<1>1. b = [len |-> a.len + r.len, c |-> r.c]  BY DEF NameLen, AddName
<1>2. a.len \in Nat /\ o \in Nat  BY DEF IsLength
<1> HIDE DEF o, c
<1>3. r.len \in Nat  BY <1>2, NameLenNat
<1> HIDE DEF r
<1>4. b.len = a.len + r.len /\ b.c = r.c  BY <1>1
<1> QED BY <1>1, <1>2, <1>3, <1>4 DEF IsLength

-----------------------------------------------------------------------------
(* Truncation: one section.                                                *)

\* Octets add to a length.
LEMMA OctetsLonger ==
  ASSUME NEW a, IsLength(a), NEW n \in Nat, NEW b, b = AddOctets(a, n)
  PROVE  IsLength(b) /\ a.len <= b.len
<1>1. b = [len |-> a.len + n, c |-> a.c] /\ a.len \in Nat  BY DEF IsLength, AddOctets
<1>2. b.len = a.len + n /\ b.c = a.c  BY <1>1
<1> QED BY <1>1, <1>2 DEF IsLength

\* The lengths g of n elements grow, when each element makes them longer.
LEMMA LongerRun ==
  ASSUME NEW n \in Nat, NEW g, IsLength(g[0]),
         \A k \in 1..n : IsLength(g[k - 1]) => IsLength(g[k]) /\ g[k - 1].len <= g[k].len
  PROVE  IsLength(g[n]) /\ g[0].len <= g[n].len
<1> DEFINE S == {k \in 0..n : IsLength(g[k]) /\ g[0].len <= g[k].len}
<1>1. 0 \in S  BY DEF IsLength
<1>2. ASSUME NEW k \in 1..n, k - 1 \in S PROVE k \in S
  <2>1. k \in 0..n /\ IsLength(g[k - 1]) /\ g[0].len <= g[k - 1].len  BY <1>2
  <2>2. IsLength(g[k]) /\ g[k - 1].len <= g[k].len  BY <2>1
  <2>3. g[0].len \in Nat /\ g[k - 1].len \in Nat /\ g[k].len \in Nat  BY <2>1, <2>2 DEF IsLength
  <2>4. g[0].len <= g[k].len  BY <2>1, <2>2, <2>3
  <2> QED BY <2>1, <2>2, <2>4
<1>3. \A k \in 0..n : k \in S
  <2> HIDE DEF S
  <2> QED BY <1>1, <1>2, UpTo
<1>4. n \in 0..n  OBVIOUS
<1> QED BY <1>3, <1>4

\* So does a field.
LEMMA EntryLonger ==
  ASSUME NEW e, e[1] \in FieldKinds, NEW f, IsEncodable(e, f), NEW a, IsLength(a), NEW off \in Nat,
         NEW b, b = EntryLen(a, LenEntry(e), f, off)
  PROVE  IsLength(b) /\ a.len <= b.len
<1> DEFINE k == e[1]
           v == f[e[2]]
           d == LenEntry(e)
<1>0. d[1] = LenKind(k) /\ d[2] = e[2]  BY DEF LenEntry
<1> HIDE DEF d
<1>1. CASE k \in Names /\ LenKind(k) = k
  <2> DEFINE yes == d[1] = "CDomainName"
  <2>1. b = NameLen(a, v, off, yes) /\ IsNameField(v)  BY <1>0, <1>1 DEF EntryLen, IsEncodable, d, Names
  <2> HIDE DEF v, yes
  <2> QED BY <2>1, NameLonger
<1>2. CASE k = "DataDomainNames" /\ LenKind(k) = k
  <2> DEFINE n == Len(v)
  <2>1. b = NamesLen(a, v, off) /\ IsSeq(v) /\ \A i \in 1..Len(v) : IsNameField(v[i])
    BY <1>0, <1>2 DEF EntryLen, IsEncodable, d, Names
  <2>2. PICK g : Steps(g, Len(v), a, [of |-> "NamesLen", s |-> v, off |-> off]) /\ NamesLen(a, v, off) = g[Len(v)]
    BY <2>1, NamesLenLoop
  <2>3. n \in Nat  BY <2>1 DEF IsSeq
  <2>4. ASSUME NEW i \in 1..n, IsLength(g[i - 1]) PROVE IsLength(g[i]) /\ g[i - 1].len <= g[i].len
    <3> DEFINE no == FALSE
               u == g[i - 1]
               s == v[i]
    <3>1. g[i] = NameLen(u, s, off, no) /\ IsNameField(s) /\ IsLength(u)  BY <2>1, <2>2, <2>4 DEF Steps, Turn
    <3> HIDE DEF no, u, s
    <3>2. IsLength(g[i]) /\ u.len <= g[i].len  BY <3>1, NameLonger
    <3> QED BY <3>2 DEF u
  <2>5. g[0] = a  BY <2>2 DEF Steps
  <2> HIDE DEF n
  <2>6. IsLength(g[n]) /\ g[0].len <= g[n].len  BY <2>3, <2>4, <2>5, LongerRun
  <2> QED BY <2>1, <2>2, <2>5, <2>6 DEF n
<1>3. CASE k = "IPSECGateway" /\ LenKind(k) = k
  <2>1. b = AddOctets(a, GatewayLen(f)) /\ IsGateway(f)  BY <1>0, <1>3 DEF EntryLen, IsEncodable, d, Names
  <2>2. GatewayLen(f) \in Nat  BY <2>1, GatewayLenNat
  <2> QED BY <2>1, <2>2, OctetsLonger
<1>4. CASE k \in PlainKinds /\ LenKind(k) \notin Names \cup {"DataDomainNames", "IPSECGateway"}
            /\ k \notin Names \cup {"DataDomainNames", "IPSECGateway"}
  <2> DEFINE n == FieldLen(LenKind(k), v)
  <2>1. b = AddOctets(a, n)  BY <1>0, <1>4 DEF EntryLen, d
  <2>2. IsValue(k, v)  BY <1>4 DEF IsEncodable
  <2>3. n \in Nat  BY <1>4, <2>2, FieldFits DEF Fits
  <2> HIDE DEF n
  <2> QED BY <2>1, <2>3, OctetsLonger
<1> QED BY <1>1, <1>2, <1>3, <1>4, KindSplit

\* So does the rdata.
LEMMA RdataLonger ==
  ASSUME NEW kind \in DOMAIN PackTable, NEW f, \A i \in 1..Len(PackTable[kind]) : IsEncodable(PackTable[kind][i], f),
         NEW a, IsLength(a), NEW off \in Nat, NEW b, b = EntriesLen(a, LenRow(kind), f, off)
  PROVE  IsLength(b) /\ a.len <= b.len
<1>1. CASE kind = "NSEC3"
  <2> DEFINE n == NSEC3Len(f)
  <2>1. \A i \in 1..Len(NSEC3Row) : IsEncodable(NSEC3Row[i], f)  BY <1>1 DEF NSEC3Row
  <2>2. n \in Nat /\ b = AddOctets(a, n)  BY <1>1, <2>1, NSEC3Plain
  <2> HIDE DEF n
  <2> QED BY <2>2, OctetsLonger
<1>2. CASE kind # "NSEC3"
  <2> DEFINE row == PackTable[kind]
             lens == LenRow(kind)
             n == Len(row)
  <2>1. IsRow(row, lens, f)  BY <1>2, RowsOf
  <2>2. b = EntriesLen(a, lens, f, off)  OBVIOUS
  <2> HIDE DEF row, lens
  <2>3. IsSeq(lens) /\ Len(lens) = n /\ n \in Nat  BY <2>1 DEF IsRow, IsSeq
  <2>4. PICK g : Steps(g, n, a, [of |-> "EntriesLen", s |-> lens, f |-> f, off |-> off]) /\ EntriesLen(a, lens, f, off) = g[n]
    BY <2>3, EntriesLenLoop
  <2>5. ASSUME NEW i \in 1..n, IsLength(g[i - 1]) PROVE IsLength(g[i]) /\ g[i - 1].len <= g[i].len
    <3> DEFINE u == g[i - 1]
               e == row[i]
    <3>1. g[i] = EntryLen(u, LenEntry(e), f, off) /\ e[1] \in FieldKinds /\ IsEncodable(e, f) /\ IsLength(u)
      BY <2>1, <2>4, <2>5 DEF Steps, Turn, IsRow
    <3> HIDE DEF u, e
    <3>2. IsLength(g[i]) /\ u.len <= g[i].len  BY <3>1, EntryLonger
    <3> QED BY <3>2 DEF u
  <2>6. g[0] = a  BY <2>4 DEF Steps
  <2> HIDE DEF n
  <2>7. IsLength(g[n]) /\ g[0].len <= g[n].len  BY <2>3, <2>5, <2>6, LongerRun
  <2> QED BY <2>2, <2>4, <2>6, <2>7
<1> QED BY <1>1, <1>2

\* A record has more than no octets.
LEMMA RecordLonger ==
  ASSUME NEW rr, IsRR(rr), NEW off \in Nat, NEW c, NEW b, b = rrLen(rr, off, c)
  PROVE  IsLength(b) /\ b.len > 0
<1> DEFINE a == HeaderLen(rr, off, c)
           kind == rr.kind
           f == rr.f
           d == HeaderName(rr, off, c)
<1>1. IsNameField(rr.name) /\ kind \in DOMAIN PackTable /\ \A i \in 1..Len(PackTable[kind]) : IsEncodable(PackTable[kind][i], f)
  BY DEF IsRR
<1>2. a = [len |-> d.len + 10, c |-> d.c] /\ d.len \in Nat /\ IsLength(a)  BY <1>1, HeaderLenIs
<1>3. b = EntriesLen(a, LenRow(kind), f, off)  BY DEF rrLen, HeaderLen
<1> HIDE DEF a, kind, f, d
<1>4. IsLength(b) /\ a.len <= b.len  BY <1>1, <1>2, <1>3, RdataLonger
<1>5. a.len = d.len + 10  BY <1>2
<1>6. b.len \in Nat  BY <1>4 DEF IsLength
<1> QED BY <1>2, <1>4, <1>5, <1>6

\* An OPT record has its length wherever it is packed.
LEMMA OPTLen ==
  ASSUME NEW rr, IsRR(rr), rr.name = Root, rr.kind = "OPT", NEW off \in Nat, NEW c
  PROVE  rrLen(rr, off, c).len = RRLen(rr)
<1> DEFINE f == rr.f
           v == f["Option"]
           n == FieldLen("DataOpt", v)
           yes == TRUE
<1>1. LenRow("OPT") = <<<<"DataOpt", "Option">>>>  BY DEF LenRow, Embeds, Len_OPT
<1>2. ASSUME NEW o \in Nat, NEW k PROVE rrLen(rr, o, k).len = 11 + n
  <2> DEFINE d == HeaderName(rr, o, k)
             a == HeaderLen(rr, o, k)
             row == LenRow("OPT")
             loop == [of |-> "EntriesLen", s |-> row, f |-> f, off |-> o]
  <2>1. d.len = 1  BY DEF HeaderName, domainNameLen
  <2>2. a.len = 11
    <3>1. IsNameField(rr.name)  BY DEF IsRR
    <3> HIDE DEF d
    <3>2. a = [len |-> d.len + 10, c |-> d.c]  BY <3>1, HeaderLenIs DEF d
    <3> QED BY <2>1, <3>2
  <2>3. rrLen(rr, o, k) = EntriesLen(a, row, f, o)  BY DEF rrLen, HeaderLen
  <2>4. IsSeq(row) /\ Len(row) = 1 /\ row[1] = <<"DataOpt", "Option">>  BY <1>1 DEF IsSeq
  <2> HIDE DEF row, a
  <2>5. PICK g : Steps(g, Len(row), a, loop) /\ EntriesLen(a, row, f, o) = g[Len(row)]
    BY <2>4, EntriesLenLoop
  <2>6. g[1] = EntryLen(a, row[1], f, o)
    <3>1. 1 \in 1..Len(row) /\ 1 - 1 = 0  BY <2>4
    <3>2. g[1] = Turn(loop, 1, g[0]) /\ g[0] = a  BY <2>5, <3>1 DEF Steps
    <3> QED BY <3>2 DEF Turn
  <2>7. EntryLen(a, row[1], f, o) = AddOctets(a, n)  BY <2>4 DEF EntryLen, Names
  <2> HIDE DEF n
  <2>8. AddOctets(a, n).len = 11 + n
    <3>1. IsLength(a)
      <4>1. IsNameField(rr.name)  BY DEF IsRR
      <4> QED BY <4>1, HeaderLenIs DEF a
    <3> QED BY <2>2, <3>1 DEF AddOctets, IsLength
  <2> QED BY <2>3, <2>4, <2>5, <2>6, <2>7, <2>8
<1> HIDE DEF n
<1>3. rrLen(rr, off, c).len = 11 + n /\ rrLen(rr, 0, NoMap).len = 11 + n  BY <1>2
<1> QED BY <1>3 DEF RRLen

\* The lengths behind each record.
LEMMA RecordsRun ==
  ASSUME NEW rrs, IsSeq(rrs), \A i \in 1..Len(rrs) : IsRR(rrs[i]), NEW a, IsTotal(a),
         NEW g, Steps(g, Len(rrs), a, [of |-> "RecordsLen", s |-> rrs])
  PROVE  /\ \A k \in 0..Len(rrs) : IsTotal(g[k])
         /\ \A k \in 1..Len(rrs) : LET b == rrLen(rrs[k], g[k - 1].l, g[k - 1].c)
                                   IN  g[k] = [l |-> g[k - 1].l + b.len, c |-> b.c] /\ b.len \in Nat /\ b.len > 0
<1> DEFINE n == Len(rrs)
           B(k) == rrLen(rrs[k], g[k - 1].l, g[k - 1].c)
           S == {k \in 0..n : IsTotal(g[k])}
<1>1. n \in Nat  BY DEF IsSeq
<1>2. 0 \in S  BY <1>1 DEF Steps
<1>3. ASSUME NEW k \in 1..n, IsTotal(g[k - 1])
      PROVE  g[k] = [l |-> g[k - 1].l + B(k).len, c |-> B(k).c] /\ B(k).len \in Nat /\ B(k).len > 0 /\ IsTotal(g[k])
  <2> DEFINE u == g[k - 1]
             o == u.l
             x == u.c
             rr == rrs[k]
             b == rrLen(rr, o, x)
  <2>1. g[k] = [l |-> o + b.len, c |-> b.c]  BY DEF Steps, Turn, AddLen
  <2>2. IsRR(rr) /\ o \in Nat  BY <1>3 DEF IsTotal
  <2> HIDE DEF o, x, rr
  <2>3. IsLength(b) /\ b.len > 0  BY <2>2, RecordLonger
  <2> HIDE DEF b
  <2>4. b.len \in Nat  BY <2>3 DEF IsLength
  <2>5. IsTotal(g[k])  BY <2>1, <2>2, <2>4 DEF IsTotal
  <2> QED BY <2>1, <2>3, <2>4, <2>5 DEF b, o, x, rr
<1>4. ASSUME NEW k \in 1..n, k - 1 \in S PROVE k \in S
  <2>1. k \in 0..n /\ IsTotal(g[k - 1])  BY <1>1, <1>4
  <2> QED BY <1>3, <2>1
<1>5. \A k \in 0..n : k \in S
  <2> HIDE DEF S, n
  <2> QED BY <1>1, <1>2, <1>4, UpTo
<1>6. \A k \in 0..n : IsTotal(g[k])  BY <1>5
<1>7. \A k \in 1..n : k - 1 \in 0..n  BY <1>1
<1> HIDE DEF B, S, n
<1>8. \A k \in 1..n : g[k] = [l |-> g[k - 1].l + B(k).len, c |-> B(k).c] /\ B(k).len \in Nat /\ B(k).len > 0
  BY <1>3, <1>6, <1>7
<1> QED BY <1>6, <1>8 DEF B, n

\* The length of a part t of the records, behind the first j.
LEMMA RunFrom ==
  ASSUME NEW rrs, IsSeq(rrs), NEW a, NEW g, Steps(g, Len(rrs), a, [of |-> "RecordsLen", s |-> rrs]),
         NEW t, IsSeq(t), NEW j \in Nat, j + Len(t) <= Len(rrs), \A i \in 1..Len(t) : t[i] = rrs[j + i]
  PROVE  RecordsLen(t, g[j]) = g[j + Len(t)]
<1> DEFINE n == Len(t)
           z == g[j]
<1>1. PICK h : Steps(h, n, z, [of |-> "RecordsLen", s |-> t]) /\ RecordsLen(t, z) = h[n]  BY RecordsLenLoop
<1>2. n \in Nat /\ Len(rrs) \in Nat  BY DEF IsSeq
<1> DEFINE S == {k \in 0..n : h[k] = g[j + k]}
<1>3. 0 \in S  BY <1>1, <1>2 DEF Steps
<1>4. ASSUME NEW k \in 1..n, k - 1 \in S PROVE k \in S
  <2>1. k \in 0..n /\ j + k \in 1..Len(rrs) /\ j + k - 1 = j + (k - 1)  BY <1>2
  <2>2. h[k - 1] = g[j + (k - 1)]  BY <1>4
  <2>3. h[k] = AddLen(h[k - 1], rrLen(t[k], h[k - 1].l, h[k - 1].c))  BY <1>1 DEF Steps, Turn
  <2>4. g[j + k] = AddLen(g[j + k - 1], rrLen(rrs[j + k], g[j + k - 1].l, g[j + k - 1].c))
    BY <2>1 DEF Steps, Turn
  <2>5. h[k] = g[j + k]  BY <2>1, <2>2, <2>3, <2>4
  <2> QED BY <2>1, <2>5
<1>5. \A k \in 0..n : k \in S
  <2> HIDE DEF S, n
  <2> QED BY <1>2, <1>3, <1>4, UpTo
<1>6. n \in 0..n  BY <1>2
<1>7. h[n] = g[j + n]  BY <1>5, <1>6
<1> QED BY <1>1, <1>7

\* The length of the records s and then t.
LEMMA RecordsLenCat ==
  ASSUME NEW s, IsSeq(s), NEW t, IsSeq(t), NEW a
  PROVE  RecordsLen(s \o t, a) = RecordsLen(t, RecordsLen(s, a))
<1> DEFINE u == s \o t
<1>1. /\ IsSeq(u) /\ Len(s) \in Nat /\ Len(t) \in Nat /\ Len(u) = Len(s) + Len(t)
      /\ \A i \in 1..Len(s) : u[i] = s[i]
      /\ \A i \in 1..Len(t) : u[Len(s) + i] = t[i]
  BY Cat
<1> HIDE DEF u
<1>2. PICK g : Steps(g, Len(u), a, [of |-> "RecordsLen", s |-> u]) /\ RecordsLen(u, a) = g[Len(u)]
  BY <1>1, RecordsLenLoop
<1>3. RecordsLen(s, g[0]) = g[Len(s)]
  <2> DEFINE j == 0
  <2>1. IsSeq(u) /\ j \in Nat /\ j + Len(s) <= Len(u) /\ \A i \in 1..Len(s) : s[i] = u[j + i]  BY <1>1
  <2>2. Steps(g, Len(u), a, [of |-> "RecordsLen", s |-> u]) /\ j + Len(s) = Len(s)  BY <1>1, <1>2
  <2> HIDE DEF j
  <2>3. RecordsLen(s, g[j]) = g[j + Len(s)]  BY <2>1, <2>2, RunFrom
  <2> QED BY <2>2, <2>3 DEF j
<1>4. g[0] = a  BY <1>2 DEF Steps
<1>5. RecordsLen(t, g[Len(s)]) = g[Len(s) + Len(t)]
  <2> DEFINE j == Len(s)
  <2>1. IsSeq(u) /\ j \in Nat /\ j + Len(t) <= Len(u) /\ \A i \in 1..Len(t) : t[i] = u[j + i]  BY <1>1
  <2>2. Steps(g, Len(u), a, [of |-> "RecordsLen", s |-> u])  BY <1>2
  <2> HIDE DEF j
  <2>3. RecordsLen(t, g[j]) = g[j + Len(t)]  BY <2>1, <2>2, RunFrom
  <2> QED BY <2>3 DEF j
<1> QED BY <1>1, <1>2, <1>3, <1>4, <1>5 DEF u

\* The first k records, and their length.
LEMMA FirstRecords ==
  ASSUME NEW rrs, IsSeq(rrs), NEW a, NEW g, Steps(g, Len(rrs), a, [of |-> "RecordsLen", s |-> rrs]),
         NEW k \in 0..Len(rrs)
  PROVE  /\ IsSeq(SubSeq(rrs, 1, k)) /\ Len(SubSeq(rrs, 1, k)) = k
         /\ \A i \in 1..k : SubSeq(rrs, 1, k)[i] = rrs[i]
         /\ RecordsLen(SubSeq(rrs, 1, k), a) = g[k]
<1> DEFINE t == SubSeq(rrs, 1, k)
<1>1. Len(rrs) \in Nat /\ k \in Nat /\ 1 \in Nat /\ 1 <= k + 1 /\ k <= Len(rrs) /\ k - 1 + 1 = k  BY DEF IsSeq
<1>2. IsSeq(t) /\ Len(t) = k - 1 + 1 /\ \A i \in 1..(k - 1 + 1) : t[i] = rrs[1 + i - 1]  BY <1>1, Piece
<1> HIDE DEF t
<1>3. Len(t) = k /\ \A i \in 1..k : t[i] = rrs[i]  BY <1>1, <1>2
<1>4. RecordsLen(t, g[0]) = g[0 + Len(t)]
  <2>1. 0 \in Nat /\ 0 + Len(t) <= Len(rrs) /\ \A i \in 1..Len(t) : t[i] = rrs[0 + i]  BY <1>1, <1>3
  <2> QED BY <1>2, <2>1, RunFrom
<1>5. g[0] = a /\ 0 + Len(t) = k  BY <1>1, <1>3 DEF Steps
<1> QED BY <1>2, <1>3, <1>4, <1>5 DEF t

\* A turn of truncateLoop keeps the record or stops.
LEMMA CutTurn ==
  ASSUME NEW k \in Nat, k >= 1, NEW g, NEW rrs, NEW room \in Int, NEW u, CutRun(u, g, rrs, room, k - 1),
         IsTotal(g[k - 1]), IsTotal(g[k]), NEW b, b = rrLen(rrs[k], g[k - 1].l, g[k - 1].c),
         g[k] = [l |-> g[k - 1].l + b.len, c |-> b.c], b.len \in Nat, b.len > 0,
         NEW v, v = IF u.stop THEN u ELSE truncateTurn(u, rrLen(rrs[k], u.l, u.c), room)
  PROVE  CutRun(v, g, rrs, room, k)
<1> DEFINE x == g[k - 1].l
<1>1. x \in Nat /\ g[k].l = x + b.len /\ g[k].c = b.c /\ k - 1 + 1 = k /\ k - 1 < k /\ k - 1 \in Nat
  BY DEF IsTotal
<1>2. CASE u.stop
  <2>1. v = u  BY <1>2
  <2>2. u.n \in 0..(k - 1) /\ u.l = room /\ g[u.n].l <= room  BY <1>2 DEF CutRun
  <2>3. u.n \in 0..k /\ u.n < k /\ u.n # k  BY <2>2
  <2>4. g[u.n].l + rrLen(rrs[u.n + 1], g[u.n].l, g[u.n].c).len > room
    <3>1. CASE u.n = k - 1
      <4>1. g[k - 1].l = room  BY <1>2, <3>1 DEF CutRun
      <4>2. x + b.len > room  BY <1>1, <4>1
      <4>3. rrs[u.n + 1] = rrs[k] /\ g[u.n] = g[k - 1]  BY <1>1, <3>1
      <4> QED BY <4>2, <4>3
    <3>2. CASE u.n # k - 1
      <4>1. u.n < k - 1  BY <2>2, <3>2
      <4> QED BY <1>2, <4>1 DEF CutRun
    <3> QED BY <3>1, <3>2
  <2> QED BY <1>2, <2>1, <2>2, <2>3, <2>4 DEF CutRun
<1>3. CASE ~u.stop
  <2>1. u.n = k - 1 /\ u.l = x /\ u.c = g[k - 1].c /\ x < room /\ u = [l |-> u.l, c |-> u.c, n |-> u.n, stop |-> u.stop]
    BY <1>3 DEF CutRun
  <2>2. v = truncateTurn(u, b, room)  BY SMTT(20), <1>3, <2>1
  <2>3. CASE x + b.len > room
    <3>1. v = [u EXCEPT !.l = room, !.c = b.c, !.stop = TRUE]  BY <2>1, <2>2, <2>3 DEF truncateTurn
    <3>2. v.l = room /\ v.n = k - 1 /\ v.stop = TRUE /\ v = [l |-> v.l, c |-> v.c, n |-> v.n, stop |-> v.stop]
      BY <2>1, <3>1
    <3>3. v.n \in 0..k /\ v.n < k /\ v.n # k /\ v.n + 1 = k  BY <1>1, <3>2
    <3>4. g[v.n].l <= room /\ g[v.n].l + rrLen(rrs[v.n + 1], g[v.n].l, g[v.n].c).len > room
      <4>1. g[v.n] = g[k - 1] /\ rrs[v.n + 1] = rrs[k]  BY <3>2, <3>3
      <4>2. x <= room /\ x + b.len > room  BY SMTT(20), <1>1, <2>1, <2>3
      <4> QED BY <4>1, <4>2
    <3> QED BY <3>2, <3>3, <3>4 DEF CutRun
  <2>4. CASE ~(x + b.len > room)
    <3> DEFINE full == x + b.len = room
    <3>1. v = [l |-> x + b.len, c |-> b.c, n |-> u.n + 1, stop |-> full]  BY <2>1, <2>2, <2>4 DEF truncateTurn
    <3>a. full \in BOOLEAN /\ (full <=> x + b.len = room)  OBVIOUS
    <3> HIDE DEF full
    <3>b. v.l = x + b.len /\ v.c = b.c /\ v.n = u.n + 1 /\ v.stop = full /\ v = [l |-> v.l, c |-> v.c, n |-> v.n, stop |-> v.stop]
      BY <3>1
    <3>2. v.l = x + b.len /\ v.c = b.c /\ v.n = k /\ v.stop \in BOOLEAN /\ (v.stop <=> x + b.len = room)
          /\ v = [l |-> v.l, c |-> v.c, n |-> v.n, stop |-> v.stop]
      BY <1>1, <2>1, <3>a, <3>b
    <3>3. x + b.len <= room /\ v.n \in 0..k  BY <1>1, <2>4, <3>2
    <3>4. ~v.stop => x + b.len < room  BY <1>1, <3>2, <3>3
    <3> HIDE DEF x
    <3> QED BY <1>1, <3>2, <3>3, <3>4 DEF CutRun
  <2> QED BY <2>3, <2>4
<1> QED BY <1>2, <1>3

\* truncateLoop keeps all of a section or the records before the first without room.
LEMMA TruncateFills ==
  ASSUME NEW rrs, IsSeq(rrs), \A i \in 1..Len(rrs) : IsRR(rrs[i]), NEW a, IsTotal(a), NEW room \in Int, a.l < room,
         NEW b, b = truncateLoop(rrs, room, a.l, a.c), NEW K, K = RecordsLen(SubSeq(rrs, 1, b.n), a)
  PROVE  Filled(b, rrs, room, K) /\ IsTotal(K) /\ K.l <= room
<1> DEFINE n == Len(rrs)
           start == [l |-> a.l, c |-> a.c, n |-> 0, stop |-> FALSE]
           loop == [of |-> "truncateLoop", s |-> rrs, size |-> room]
<1>1. PICK t : Steps(t, n, start, loop) /\ b = t[n]  BY TruncateLoop
<1>2. PICK g : Steps(g, n, a, [of |-> "RecordsLen", s |-> rrs]) /\ RecordsLen(rrs, a) = g[n]
  BY RecordsLenLoop
<1>3. n \in Nat  BY DEF IsSeq
<1>4. /\ \A k \in 0..n : IsTotal(g[k])
      /\ \A k \in 1..n : LET d == rrLen(rrs[k], g[k - 1].l, g[k - 1].c)
                         IN  g[k] = [l |-> g[k - 1].l + d.len, c |-> d.c] /\ d.len \in Nat /\ d.len > 0
  BY <1>2, RecordsRun
<1> DEFINE S == {k \in 0..n : CutRun(t[k], g, rrs, room, k)}
<1>5. 0 \in S
  <2>1. t[0] = start /\ g[0] = a  BY <1>1, <1>2 DEF Steps
  <2>2. CutRun(start, g, rrs, room, 0)  BY <2>1 DEF CutRun
  <2> QED BY <1>3, <2>1, <2>2
<1>6. ASSUME NEW k \in 1..n, k - 1 \in S PROVE k \in S
  <2> DEFINE d == rrLen(rrs[k], g[k - 1].l, g[k - 1].c)
             u == t[k - 1]
             v == t[k]
  <2>1. k \in Nat /\ k >= 1 /\ k \in 0..n /\ k - 1 \in 0..n  BY <1>3
  <2>2. CutRun(u, g, rrs, room, k - 1)  BY <1>6
  <2>3. IsTotal(g[k - 1]) /\ IsTotal(g[k]) /\ g[k] = [l |-> g[k - 1].l + d.len, c |-> d.c] /\ d.len \in Nat /\ d.len > 0
    BY <1>4, <2>1
  <2>4. v = IF u.stop THEN u ELSE truncateTurn(u, rrLen(rrs[k], u.l, u.c), room)  BY <1>1 DEF Steps, Turn
  <2> HIDE DEF d, u, v
  <2>5. CutRun(v, g, rrs, room, k)  BY <2>1, <2>2, <2>3, <2>4, CutTurn DEF d
  <2> QED BY <2>1, <2>5 DEF v
<1>7. CutRun(b, g, rrs, room, n)
  <2> HIDE DEF S, n
  <2>1. \A k \in 0..n : k \in S  BY <1>3, <1>5, <1>6, UpTo
  <2>2. n \in S /\ n \in 0..n  BY <1>3, <2>1
  <2> QED BY <1>1, <2>2 DEF S
<1> HIDE DEF S, start, loop
<1>8. b.n \in 0..n  BY <1>3, <1>7 DEF CutRun
<1>9. K = g[b.n] /\ IsTotal(K)  BY <1>2, <1>4, <1>8, FirstRecords
<1>10. K.l \in Nat /\ K.l <= room  BY <1>7, <1>9 DEF CutRun, IsTotal
<1>11. Filled(b, rrs, room, K)
  <2>1. b.n = n => b.l = K.l /\ b.c = K.c  BY <1>7, <1>9 DEF CutRun
  <2>2. b.n < n => b.l \in Int /\ b.l >= room /\ K.l + rrLen(rrs[b.n + 1], K.l, K.c).len > room
    BY <1>3, <1>7, <1>8, <1>9 DEF CutRun
  <2> QED BY <1>8, <2>1, <2>2 DEF Filled
<1> QED BY <1>9, <1>10, <1>11

\* Fill does, while there is room.
LEMMA FillOpen ==
  ASSUME NEW rrs, IsSeq(rrs), \A i \in 1..Len(rrs) : IsRR(rrs[i]), NEW a, NEW K, IsTotal(K), a.l = K.l, a.c = K.c, NEW room \in Int,
         NEW b, b = Fill(a, rrs, room), NEW L, L = RecordsLen(SubSeq(rrs, 1, b.n), K)
  PROVE  Filled(b, rrs, room, L) /\ IsTotal(L) /\ (K.l <= room \/ L # K => L.l <= room)
<1>0. K.l \in Nat /\ Len(rrs) \in Nat  BY DEF IsTotal, IsSeq
<1>1. CASE K.l < room
  <2>1. b = truncateLoop(rrs, room, K.l, K.c)  BY <1>1 DEF Fill
  <2>2. Filled(b, rrs, room, L) /\ IsTotal(L) /\ L.l <= room  BY <1>1, <2>1, TruncateFills
  <2> QED BY <2>2
<1>2. CASE ~(K.l < room)
  <2>1. b = [l |-> K.l, c |-> K.c, n |-> 0]  BY <1>2 DEF Fill
  <2>2. b.l = K.l /\ b.c = K.c /\ b.n = 0 /\ 0 \in 0..Len(rrs)  BY <1>0, <2>1
  <2>3. L = K
    <3>1. PICK g : Steps(g, Len(rrs), K, [of |-> "RecordsLen", s |-> rrs]) /\ RecordsLen(rrs, K) = g[Len(rrs)]
      BY RecordsLenLoop
    <3>2. RecordsLen(SubSeq(rrs, 1, 0), K) = g[0]  BY <2>2, <3>1, FirstRecords
    <3> QED BY <2>2, <3>1, <3>2 DEF Steps
  <2>4. ASSUME 0 < Len(rrs) PROVE K.l + rrLen(rrs[0 + 1], K.l, K.c).len > room
    <3> DEFINE rr == rrs[1]
               off == K.l
               c == K.c
    <3>1. IsRR(rr) /\ off \in Nat  BY <1>0, <2>4
    <3> HIDE DEF rr, off, c
    <3>2. rrLen(rr, off, c).len \in Nat /\ rrLen(rr, off, c).len > 0  BY <3>1, RecordLonger DEF IsLength
    <3>3. off >= room  BY <1>0, <1>2 DEF off
    <3>4. off + rrLen(rr, off, c).len > room  BY <3>1, <3>2, <3>3
    <3> QED BY <3>4 DEF off, c, rr
  <2>5. Filled(b, rrs, room, L)  BY <1>0, <1>2, <2>2, <2>3, <2>4 DEF Filled
  <2> QED BY <2>3, <2>5
<1> QED BY <1>1, <1>2

\* Without room it keeps nothing.
LEMMA FillShut ==
  ASSUME NEW a, NEW room \in Int, a.l \in Int, a.l >= room, NEW rrs, NEW b, b = Fill(a, rrs, room)
  PROVE  b.n = 0 /\ b.l = a.l
<1>1. ~(a.l < room)  OBVIOUS
<1> QED BY <1>1 DEF Fill

\* No records, no length.
LEMMA NoRecords ==
  ASSUME NEW rrs, IsSeq(rrs), NEW a
  PROVE  RecordsLen(SubSeq(rrs, 1, 0), a) = a
<1>1. PICK g : Steps(g, Len(rrs), a, [of |-> "RecordsLen", s |-> rrs]) /\ RecordsLen(rrs, a) = g[Len(rrs)]
  BY RecordsLenLoop
<1>2. 0 \in 0..Len(rrs)  BY DEF IsSeq
<1>3. RecordsLen(SubSeq(rrs, 1, 0), a) = g[0]  BY <1>1, <1>2, FirstRecords
<1> QED BY <1>1, <1>3 DEF Steps

-----------------------------------------------------------------------------
(* Truncation: three sections.                                             *)

\* The first elements are a prefix.
LEMMA BeginsIsPrefix ==
  ASSUME NEW s, NEW t, Begins(s, t)
  PROVE  IsPrefix(s, t) /\ (Len(s) = Len(t) => s = t)
<1> DEFINE n == Len(s)
           u == SubSeq(s, 1, n)
           v == SubSeq(t, 1, n)
<1>1. n \in Nat /\ Len(t) \in Nat /\ 1 \in Nat /\ 1 <= n + 1 /\ n <= Len(t) /\ n <= Len(s) /\ IsSeq(s) /\ IsSeq(t) /\ n - 1 + 1 = n
  BY DEF Begins, IsSeq
<1>2. IsSeq(u) /\ Len(u) = n - 1 + 1 /\ \A k \in 1..(n - 1 + 1) : u[k] = s[1 + k - 1]
  <2> HIDE DEF n
  <2> QED BY <1>1, Piece
<1>3. IsSeq(v) /\ Len(v) = n - 1 + 1 /\ \A k \in 1..(n - 1 + 1) : v[k] = t[1 + k - 1]
  <2> HIDE DEF n
  <2> QED BY <1>1, Piece
<1>4. \A k \in 1..n : s[k] = t[k]  BY DEF Begins
<1> HIDE DEF u, v, n
<1>5. \A k \in 1..n : u[k] = v[k]  BY <1>1, <1>2, <1>3, <1>4
<1>6. u = v  BY <1>1, <1>2, <1>3, <1>5, SameSeq
<1>7. IsPrefix(s, t)  BY <1>1, <1>6 DEF IsPrefix, u, v, n
<1>8. n = Len(t) => s = t  BY <1>1, <1>4, SameSeq DEF n
<1> QED BY <1>7, <1>8 DEF n

\* The first elements of three sections are the first ones of all three together.
LEMMA ThreeParts ==
  ASSUME NEW A, NEW B, NEW C, NEW s, NEW t, NEW u, Behind(A, B, C, s, t, u)
  PROVE  JoinedSections(A, B, C, s, t, u, s \o t \o u, A \o B \o C)
<1>0. /\ Begins(s, A) /\ Begins(t, B) /\ Begins(u, C)
      /\ Len(s) < Len(A) => Len(t) = 0
      /\ Len(s) < Len(A) \/ Len(t) < Len(B) => Len(u) = 0
  BY DEF Behind
<1> DEFINE kept == s \o t \o u
           all == A \o B \o C
<1> DEFINE x == Len(s)
           y == Len(t)
           z == Len(u)
           X == Len(A)
           Y == Len(B)
           Z == Len(C)
           st == s \o t
           AB == A \o B
<1>1. /\ IsSeq(s) /\ IsSeq(t) /\ IsSeq(u) /\ IsSeq(A) /\ IsSeq(B) /\ IsSeq(C)
      /\ x \in Nat /\ y \in Nat /\ z \in Nat /\ X \in Nat /\ Y \in Nat /\ Z \in Nat /\ x <= X /\ y <= Y /\ z <= Z
  BY <1>0 DEF Begins, IsSeq
<1>2. /\ IsSeq(st) /\ Len(st) = x + y /\ \A i \in 1..x : st[i] = s[i]
      /\ \A i \in 1..y : st[x + i] = t[i]
  BY <1>1, Cat
<1>3. /\ IsSeq(AB) /\ Len(AB) = X + Y /\ \A i \in 1..X : AB[i] = A[i]
      /\ \A i \in 1..Y : AB[X + i] = B[i]
  BY <1>1, Cat
<1>4. kept = st \o u /\ all = AB \o C  OBVIOUS
<1> HIDE DEF st, AB, kept, all
<1>5. /\ IsSeq(kept) /\ Len(kept) = x + y + z /\ \A i \in 1..(x + y) : kept[i] = st[i]
      /\ \A i \in 1..z : kept[x + y + i] = u[i]
  <2>1. /\ IsSeq(st \o u) /\ Len(st \o u) = Len(st) + Len(u) /\ \A i \in 1..Len(st) : (st \o u)[i] = st[i]
        /\ \A i \in 1..Len(u) : (st \o u)[Len(st) + i] = u[i]
    <3>1. IsSeq(st) /\ IsSeq(u)  BY <1>1, <1>2
    <3> QED BY <3>1, Cat
  <2> HIDE DEF x, y
  <2> QED BY <1>2, <1>4, <2>1
<1>6. /\ IsSeq(all) /\ Len(all) = X + Y + Z /\ \A i \in 1..(X + Y) : all[i] = AB[i]
      /\ \A i \in 1..Z : all[X + Y + i] = C[i]
  <2>1. /\ IsSeq(AB \o C) /\ Len(AB \o C) = Len(AB) + Len(C) /\ \A i \in 1..Len(AB) : (AB \o C)[i] = AB[i]
        /\ \A i \in 1..Len(C) : (AB \o C)[Len(AB) + i] = C[i]
    <3>1. IsSeq(AB) /\ IsSeq(C)  BY <1>1, <1>3
    <3> QED BY <3>1, Cat
  <2> HIDE DEF X, Y
  <2> QED BY <1>3, <1>4, <2>1
<1>7. /\ \A i \in 1..x : s[i] = A[i]
      /\ \A i \in 1..y : t[i] = B[i]
      /\ \A i \in 1..z : u[i] = C[i]
  BY <1>0 DEF Begins
<1>8. (x < X => y = 0 /\ z = 0) /\ (y < Y => z = 0)  BY <1>0
<1> HIDE DEF x, y, z, X, Y, Z
<1>9. ASSUME NEW i \in 1..Len(kept) PROVE kept[i] = all[i]
  <2>1. CASE i \in 1..x
    <3>1. kept[i] = s[i]  BY <1>1, <1>2, <1>5, <2>1
    <3>2. all[i] = A[i]
      <4>1. i \in 1..X /\ i \in 1..(X + Y)  BY <1>1, <2>1
      <4> QED BY <1>3, <1>6, <4>1
    <3> QED BY <1>7, <2>1, <3>1, <3>2
  <2>2. CASE i \in (x + 1)..(x + y)
    <3> DEFINE j == i - x
    <3>1. j \in 1..y /\ x + j = i /\ x = X /\ j \in 1..Y /\ X + j = i /\ i \in 1..(x + y) /\ i \in 1..(X + Y)
      BY <1>1, <1>8, <2>2
    <3> HIDE DEF j
    <3>2. kept[i] = t[j]
      <4>1. st[x + j] = t[j] /\ kept[i] = st[i]  BY <1>2, <1>5, <3>1
      <4> QED BY <3>1, <4>1
    <3>3. all[i] = B[j]
      <4>1. AB[X + j] = B[j] /\ all[i] = AB[i]  BY <1>3, <1>6, <3>1
      <4> QED BY <3>1, <4>1
    <3> QED BY <1>7, <3>1, <3>2, <3>3
  <2>3. CASE i \notin 1..x /\ i \notin (x + 1)..(x + y)
    <3> DEFINE j == i - (x + y)
    <3>1. i \in 1..(x + y + z) /\ i > x + y  BY <1>1, <1>5, <2>3
    <3>2. j \in 1..z /\ x + y + j = i  BY <1>1, <3>1
    <3>3. x = X /\ y = Y /\ j \in 1..Z /\ X + Y + j = i  BY <1>1, <1>8, <3>2
    <3> HIDE DEF j
    <3>4. kept[x + y + j] = u[j] /\ all[X + Y + j] = C[j]  BY <1>5, <1>6, <3>2, <3>3
    <3> QED BY <1>7, <3>2, <3>3, <3>4
  <2> QED BY <2>1, <2>2, <2>3
<1>10. Len(kept) <= Len(all)  BY <1>1, <1>5, <1>6
<1>11. Begins(kept, all)  BY <1>5, <1>6, <1>9, <1>10 DEF Begins
<1>12. Len(kept) = Len(all) <=> x = X /\ y = Y /\ z = Z  BY <1>1, <1>5, <1>6
<1>13. ASSUME x < X PROVE all[Len(kept) + 1] = A[x + 1]
  <2>1. Len(kept) + 1 = x + 1 /\ x + 1 \in 1..X /\ x + 1 \in 1..(X + Y)  BY <1>1, <1>5, <1>8, <1>13
  <2> QED BY <1>3, <1>6, <2>1
<1>14. ASSUME x = X, y < Y PROVE all[Len(kept) + 1] = B[y + 1]
  <2>1. Len(kept) + 1 = X + (y + 1) /\ y + 1 \in 1..Y /\ X + (y + 1) \in 1..(X + Y)
    BY <1>1, <1>5, <1>8, <1>14
  <2> DEFINE j == y + 1
  <2> HIDE DEF j
  <2>2. all[X + j] = AB[X + j] /\ AB[X + j] = B[j]  BY <1>3, <1>6, <2>1 DEF j
  <2> QED BY <2>1, <2>2 DEF j
<1>15. ASSUME x = X, y = Y, z < Z PROVE all[Len(kept) + 1] = C[z + 1]
  <2> DEFINE j == z + 1
  <2>1. Len(kept) + 1 = X + Y + j /\ j \in 1..Z  BY <1>1, <1>5, <1>15
  <2> HIDE DEF j
  <2>2. all[X + Y + j] = C[j]  BY <1>6, <2>1
  <2> QED BY <2>1, <2>2 DEF j
<1>16. JoinedSections(A, B, C, s, t, u, kept, all)
  BY <1>11, <1>12, <1>13, <1>14, <1>15 DEF x, y, z, X, Y, Z, JoinedSections
<1> QED BY <1>16 DEF kept, all

\* The empty sequence.
LEMMA EmptyIs ==
  ASSUME NEW s, IsSeq(s)
  PROVE  (s = <<>>) <=> (Len(s) = 0)
BY DEF IsSeq

\* It adds nothing.
LEMMA CatEmpty ==
  ASSUME NEW s, IsSeq(s), NEW t, IsSeq(t)
  PROVE  (Len(t) = 0 => s \o t = s) /\ (Len(s) = 0 => s \o t = t)
<1> DEFINE a == s \o t
<1>1. /\ IsSeq(a) /\ Len(s) \in Nat /\ Len(t) \in Nat /\ Len(a) = Len(s) + Len(t)
      /\ \A i \in 1..Len(s) : a[i] = s[i]
      /\ \A i \in 1..Len(t) : a[Len(s) + i] = t[i]
  BY Cat
<1> HIDE DEF a
<1>2. ASSUME Len(t) = 0 PROVE a = s
  <2>1. Len(a) = Len(s)  BY <1>1, <1>2
  <2> QED BY <1>1, <2>1, SameSeq
<1>3. ASSUME Len(s) = 0 PROVE a = t
  <2>1. Len(a) = Len(t) /\ \A i \in 1..Len(t) : 0 + i = i  BY <1>1, <1>3
  <2>2. \A i \in 1..Len(t) : a[i] = t[i]  BY <1>1, <1>3, <2>1
  <2> QED BY <1>1, <2>1, <2>2, SameSeq
<1> QED BY <1>2, <1>3 DEF a

\* The first k elements begin a sequence.
LEMMA FirstBegin ==
  ASSUME NEW s, IsSeq(s), NEW k \in 0..Len(s)
  PROVE  Begins(SubSeq(s, 1, k), s) /\ Len(SubSeq(s, 1, k)) = k
<1> DEFINE t == SubSeq(s, 1, k)
<1>1. Len(s) \in Nat /\ k \in Nat /\ 1 \in Nat /\ 1 <= k + 1 /\ k <= Len(s) /\ k - 1 + 1 = k  BY DEF IsSeq
<1>2. IsSeq(t) /\ Len(t) = k - 1 + 1 /\ \A i \in 1..(k - 1 + 1) : t[i] = s[1 + i - 1]  BY <1>1, Piece
<1> HIDE DEF t
<1>3. Len(t) = k /\ \A i \in 1..k : t[i] = s[i]  BY <1>1, <1>2
<1>4. Begins(t, s)  BY <1>1, <1>2, <1>3 DEF Begins
<1> QED BY <1>3, <1>4 DEF t

\* The first of the records are records.
LEMMA BeginRecords ==
  ASSUME NEW s, NEW t, Begins(s, t), \A i \in 1..Len(t) : IsRR(t[i])
  PROVE  \A i \in 1..Len(s) : IsRR(s[i])
<1>1. \A i \in 1..Len(s) : i \in 1..Len(t) /\ s[i] = t[i]  BY DEF Begins, IsSeq
<1> QED BY <1>1

\* The additional section without the OPT record, and that record.
LEMMA PopFacts ==
  ASSUME NEW dns, IsMessage(dns), OPTAtRoot(dns)
  PROVE  /\ IsSeq(popEdns0(dns)) /\ \A i \in 1..Len(popEdns0(dns)) : IsRR(popEdns0(dns)[i])
         /\ IsSeq(OPTOf(dns)) /\ \A i \in 1..Len(OPTOf(dns)) : IsRR(OPTOf(dns)[i])
         /\ IsEdns0(dns) = 0 => /\ OPTOf(dns) = <<>> /\ popEdns0(dns) = dns.extra
                                /\ \A i \in 1..Len(dns.extra) : ~IsOPT(dns.extra[i])
         /\ IsEdns0(dns) # 0 => \E opt : /\ opt = dns.extra[IsEdns0(dns)] /\ OPTOf(dns) = <<opt>> /\ IsOPT(opt) /\ IsRR(opt)
                                         /\ opt.name = Root /\ opt.kind = "OPT"
<1> DEFINE e == dns.extra
           n == Len(e)
           at == IsEdns0(dns)
<1>1. IsSeq(e) /\ n \in Nat /\ \A i \in 1..n : IsRR(e[i])  BY SectionsOf DEF IsSeq
<1>2. CASE at = 0
  <2>1. OPTOf(dns) = <<>> /\ popEdns0(dns) = e  BY <1>2 DEF OPTOf, popEdns0
  <2>2. IsSeq(<<>>) /\ Len(<<>>) = 0  BY DEF IsSeq
  <2>3. ASSUME NEW i \in 1..n, IsOPT(e[i]) PROVE FALSE
    <3> DEFINE T == {0} \cup {j \in 1..n : IsOPT(e[j])}
    <3>1. T \subseteq 0..n /\ T # {} /\ i \in T  BY <1>1, <2>3
    <3>2. at = Max(T)  BY DEF IsEdns0
    <3> HIDE DEF T
    <3>3. i <= Max(T)  BY <1>1, <3>1, MaxIn
    <3> QED BY <1>2, <3>2, <3>3
  <2> QED BY <1>1, <1>2, <2>1, <2>2, <2>3
<1>3. CASE at # 0
  <2> DEFINE opt == e[at]
             u == SubSeq(e, 1, at - 1)
             v == SubSeq(e, at + 1, n)
  <2>1. at \in 1..n /\ IsOPT(opt)
    <3>1. at \in 0..n /\ IsOPT(opt)  BY <1>1, <1>3, OptIndex
    <3> HIDE DEF at, n
    <3> QED BY <1>1, <1>3, <3>1
  <2>2. IsRR(opt) /\ opt.name = Root /\ opt.kind = "OPT"  BY <1>1, <2>1 DEF OPTAtRoot
  <2>3. OPTOf(dns) = <<opt>> /\ popEdns0(dns) = u \o v  BY <1>3, Zenon DEF OPTOf, popEdns0, RemoveAt
  <2> HIDE DEF at, opt, n, e
  <2>4. IsSeq(u) /\ Len(u) = at - 1 /\ \A i \in 1..Len(u) : u[i] = e[i]
    <3> DEFINE j == at - 1
    <3>1. 1 \in Nat /\ j \in Nat /\ 1 <= j + 1 /\ j <= Len(e) /\ j - 1 + 1 = j /\ \A i \in 1..j : 1 + i - 1 = i
      BY <1>1, <2>1 DEF n
    <3> HIDE DEF j
    <3>2. IsSeq(SubSeq(e, 1, j)) /\ Len(SubSeq(e, 1, j)) = j - 1 + 1 /\ \A i \in 1..(j - 1 + 1) : SubSeq(e, 1, j)[i] = e[1 + i - 1]
      BY <1>1, <3>1, Piece
    <3>3. IsSeq(SubSeq(e, 1, j)) /\ Len(SubSeq(e, 1, j)) = j /\ \A i \in 1..j : SubSeq(e, 1, j)[i] = e[i]
      BY <3>1, <3>2
    <3> QED BY <3>3 DEF j
  <2>5. IsSeq(v) /\ Len(v) = n - at /\ \A i \in 1..Len(v) : v[i] = e[at + i]
    <3> DEFINE j == at + 1
    <3>1. j \in Nat /\ n \in Nat /\ 1 <= j /\ j <= n + 1 /\ n <= Len(e) /\ n - j + 1 = n - at /\ \A i \in 1..(n - at) : j + i - 1 = at + i
      BY <1>1, <2>1 DEF n
    <3> HIDE DEF j
    <3>2. IsSeq(SubSeq(e, j, n)) /\ Len(SubSeq(e, j, n)) = n - j + 1 /\ \A i \in 1..(n - j + 1) : SubSeq(e, j, n)[i] = e[j + i - 1]
      BY <1>1, <3>1, Piece
    <3>3. IsSeq(SubSeq(e, j, n)) /\ Len(SubSeq(e, j, n)) = n - at /\ \A i \in 1..(n - at) : SubSeq(e, j, n)[i] = e[at + i]
      BY <3>1, <3>2
    <3> QED BY <3>3 DEF j
  <2>6. \A i \in 1..Len(u) : IsRR(u[i])  BY <1>1, <2>1, <2>4
  <2>7. \A i \in 1..Len(v) : IsRR(v[i])
    <3>1. \A i \in 1..Len(v) : at + i \in 1..n  BY <1>1, <2>1, <2>5
    <3> QED BY <1>1, <2>5, <3>1
  <2> HIDE DEF u, v
  <2>8. IsSeq(u \o v) /\ \A i \in 1..Len(u \o v) : IsRR((u \o v)[i])  BY <2>4, <2>5, <2>6, <2>7, CatRecords
  <2>9. IsSeq(<<opt>>) /\ \A i \in 1..Len(<<opt>>) : IsRR(<<opt>>[i])
    <3>1. IsSeq(<<opt>>) /\ Len(<<opt>>) = 1 /\ <<opt>>[1] = opt  BY One
    <3> QED BY <2>2, <3>1
  <2> QED BY <1>3, <2>1, <2>2, <2>3, <2>8, <2>9 DEF at, opt, e
<1> QED BY <1>2, <1>3

\* RemoveAt joins what is before and behind.
LEMMA Dropped ==
  ASSUME NEW s, NEW i, NEW j, j = i - 1, NEW k, k = i + 1
  PROVE  RemoveAt(s, i) = SubSeq(s, 1, j) \o SubSeq(s, k, Len(s))
BY Zenon DEF RemoveAt

\* The OPT record at the end of the additional section is the one that is found.
LEMMA OPTAtEnd ==
  ASSUME NEW p, IsSeq(p), NEW opt, IsOPT(opt), NEW dns, dns.extra = p \o <<opt>>
  PROVE  OPTOf(dns) = <<opt>> /\ popEdns0(dns) = p
<1> DEFINE e == dns.extra
           n == Len(p)
           T == {0} \cup {i \in 1..Len(e) : IsOPT(e[i])}
           u == SubSeq(e, 1, n)
           v == SubSeq(e, n + 1 + 1, Len(e))
<1>1. n \in Nat /\ IsSeq(<<opt>>) /\ Len(<<opt>>) = 1 /\ <<opt>>[1] = opt  BY One DEF IsSeq
<1>2. /\ IsSeq(e) /\ Len(e) = n + 1 /\ \A i \in 1..n : e[i] = p[i]
      /\ e[n + 1] = opt
  <2>1. /\ IsSeq(e) /\ Len(e) = n + Len(<<opt>>) /\ \A i \in 1..n : e[i] = p[i]
        /\ \A i \in 1..Len(<<opt>>) : e[n + i] = <<opt>>[i]
    BY <1>1, Cat
  <2> HIDE DEF e
  <2> QED BY <1>1, <2>1
<1> HIDE DEF e
<1>3. IsEdns0(dns) = n + 1
  <2>1. T \subseteq 0..(n + 1) /\ n + 1 \in T /\ T # {} /\ n + 1 \in Nat  BY <1>1, <1>2
  <2>2. IsEdns0(dns) = Max(T)  BY DEF IsEdns0, e
  <2> HIDE DEF T
  <2> DEFINE k == n + 1
  <2>3. k \in Nat /\ T \subseteq 0..k /\ T # {} /\ k \in T  BY <2>1
  <2> HIDE DEF k, n
  <2>4. Max(T) \in 0..k /\ k <= Max(T)  BY <2>3, MaxIn
  <2>5. Max(T) = k  BY <2>3, <2>4
  <2> QED BY <2>2, <2>5 DEF k
<1>4. IsEdns0(dns) # 0  BY <1>1, <1>3
<1>5. OPTOf(dns) = <<opt>>  BY <1>2, <1>3, <1>4 DEF OPTOf, e
<1>6. popEdns0(dns) = u \o v
  <2> DEFINE i == n + 1
             k == i + 1
  <2>1. popEdns0(dns) = RemoveAt(e, i)  BY <1>3, <1>4 DEF popEdns0, e
  <2>2. n = i - 1 /\ k = i + 1  BY <1>1
  <2> HIDE DEF n, i, k
  <2>3. RemoveAt(e, i) = SubSeq(e, 1, n) \o SubSeq(e, k, Len(e))  BY <2>2, Dropped
  <2>4. popEdns0(dns) = SubSeq(e, 1, n) \o SubSeq(e, k, Len(e))  BY <2>1, <2>3
  <2> QED BY <2>4, Zenon DEF k, i
<1>7. u = p
  <2>1. n \in 0..Len(e)  BY <1>1, <1>2
  <2>2. Begins(SubSeq(e, 1, n), e) /\ Len(SubSeq(e, 1, n)) = n  BY <1>2, <2>1, FirstBegin
  <2>3. \A i \in 1..n : SubSeq(e, 1, n)[i] = p[i]  BY <1>2, <2>2 DEF Begins
  <2>4. SubSeq(e, 1, n) = p  BY <2>2, <2>3, SameSeq DEF Begins
  <2> QED BY <2>1, <2>4
<1>8. IsSeq(v) /\ Len(v) = 0
  <2> DEFINE j == n + 1 + 1
             k == Len(e)
  <2>1. j \in Nat /\ k \in Nat /\ 1 <= j /\ j <= k + 1 /\ k <= Len(e) /\ k - j + 1 = 0  BY <1>1, <1>2
  <2> HIDE DEF j, k
  <2>2. IsSeq(SubSeq(e, j, k)) /\ Len(SubSeq(e, j, k)) = k - j + 1  BY <1>2, <2>1, Piece
  <2> QED BY <2>1, <2>2 DEF j, k
<1> HIDE DEF u, v
<1>9. u \o v = p  BY <1>7, <1>8, CatEmpty
<1> QED BY <1>5, <1>6, <1>9

\* A section for which there is no room left keeps no record.
LEMMA ShutPart ==
  ASSUME NEW a, NEW room \in Int, NoRoom(a, room), NEW rrs, IsRecords(rrs), NEW b, NEW s, Part(a, rrs, room, b, s)
  PROVE  NoRoom(b, room) /\ Begins(s, rrs) /\ b.n = 0 /\ Len(s) = 0 /\ \A K : RecordsLen(s, K) = K
<1>1. b.n = 0 /\ b.l = a.l  BY FillShut DEF NoRoom, Part
<1>2. 0 \in 0..Len(rrs) /\ s = SubSeq(rrs, 1, 0) /\ IsSeq(rrs)  BY <1>1 DEF IsSeq, IsRecords, Part
<1>3. Begins(s, rrs) /\ Len(s) = 0  BY <1>2, FirstBegin
<1>4. \A K : RecordsLen(s, K) = K  BY <1>2, NoRecords
<1> QED BY <1>1, <1>3, <1>4 DEF NoRoom

\* One section, while there has been room.
LEMMA OpenPart ==
  ASSUME NEW rrs, IsRecords(rrs), NEW room \in Int, NEW a, NEW K, Arrived(a, K, room),
         NEW b, NEW s, Part(a, rrs, room, b, s), NEW L, L = RecordsLen(s, K)
  PROVE  /\ Begins(s, rrs) /\ Len(s) = b.n /\ IsTotal(L) /\ L.l <= room
         /\ Len(s) < Len(rrs) => NoRoom(b, room) /\ Over(L, rrs[Len(s) + 1], room)
         /\ Len(s) = Len(rrs) => Arrived(b, L, room)
<1>1. Filled(b, rrs, room, L) /\ IsTotal(L) /\ L.l <= room
  <2>1. /\ IsSeq(rrs) /\ (\A i \in 1..Len(rrs) : IsRR(rrs[i])) /\ IsTotal(K) /\ a.l = K.l /\ a.c = K.c
        /\ b = Fill(a, rrs, room) /\ L = RecordsLen(SubSeq(rrs, 1, b.n), K) /\ K.l <= room
    BY DEF IsRecords, Arrived, Part
  <2> QED BY <2>1, FillOpen
<1>2. b.n \in 0..Len(rrs)  BY <1>1 DEF Filled
<1>3. Begins(s, rrs) /\ Len(s) = b.n  BY <1>2, FirstBegin DEF Part, IsRecords
<1> QED BY <1>1, <1>3 DEF Filled, Over, NoRoom, Arrived

\* The three sections as FillSections fills them.
LEMMA FillThree ==
  ASSUME NEW A, IsRecords(A), NEW B, IsRecords(B), NEW C, IsRecords(C), NEW q, IsTotal(q), NEW room \in Int,
         NEW a1, NEW s, Part(q, A, room, a1, s), NEW a2, NEW t, Part(a1, B, room, a2, t), NEW a3, NEW u, Part(a2, C, room, a3, u)
  PROVE  Three(A, B, C, q, room, s, t, u) /\ Len(s) = a1.n /\ Len(t) = a2.n /\ Len(u) = a3.n
<1> DEFINE L1 == RecordsLen(s, q)
           L2 == RecordsLen(t, L1)
           L == RecordsLen(u, L2)
<1>0. Len(A) \in Nat /\ Len(B) \in Nat /\ Len(C) \in Nat /\ q.l \in Nat  BY DEF IsSeq, IsTotal, IsRecords
<1>1. CASE ~(q.l < room)
  <2>1. NoRoom(q, room)  BY <1>0, <1>1 DEF NoRoom
  <2>2. NoRoom(a1, room) /\ Begins(s, A) /\ a1.n = 0 /\ Len(s) = 0 /\ L1 = q  BY <2>1, ShutPart
  <2>3. NoRoom(a2, room) /\ Begins(t, B) /\ a2.n = 0 /\ Len(t) = 0 /\ L2 = L1  BY <2>2, ShutPart
  <2>4. Begins(u, C) /\ a3.n = 0 /\ Len(u) = 0 /\ L = L2  BY <2>3, ShutPart
  <2>5. ASSUME NEW rr, IsRR(rr) PROVE Over(q, rr, room)
    <3> DEFINE off == q.l
               c == q.c
               d == rrLen(rr, off, c)
    <3>1. off \in Nat  BY <1>0
    <3> HIDE DEF off, c
    <3>2. IsLength(d) /\ d.len > 0  BY <2>5, <3>1, RecordLonger
    <3> HIDE DEF d
    <3>3. d.len \in Nat /\ off >= room  BY <2>1, <3>2 DEF IsLength, off, NoRoom
    <3>4. off + d.len > room  BY <3>1, <3>2, <3>3
    <3> QED BY <3>4 DEF Over, off, c, d
  <2>6. /\ Len(A) > 0 => IsRR(A[0 + 1])
        /\ Len(B) > 0 => IsRR(B[0 + 1])
        /\ Len(C) > 0 => IsRR(C[0 + 1])
    BY <1>0 DEF IsRecords
  <2> HIDE DEF L1, L2, L
  <2>7. L1 = q /\ L2 = q /\ L = q  BY <2>2, <2>3, <2>4
  <2>8. /\ Len(s) < Len(A) => Over(q, A[Len(s) + 1], room)
        /\ Len(t) < Len(B) => Over(q, B[Len(t) + 1], room)
        /\ Len(u) < Len(C) => Over(q, C[Len(u) + 1], room)
    BY <2>2, <2>3, <2>4, <2>5, <2>6
  <2> HIDE DEF L1, L2, L
  <2> QED BY <2>2, <2>3, <2>4, <2>7, <2>8 DEF Three, L1, L2, L
<1>2. CASE q.l < room
  <2>1. Arrived(q, q, room)  BY <1>0, <1>2 DEF Arrived
  <2>2. /\ Begins(s, A) /\ Len(s) = a1.n /\ IsTotal(L1) /\ L1.l <= room
        /\ Len(s) < Len(A) => NoRoom(a1, room) /\ Over(L1, A[Len(s) + 1], room)
        /\ Len(s) = Len(A) => Arrived(a1, L1, room)
    BY <2>1, OpenPart
  <2> HIDE DEF L1
  <2>3. Len(s) \in Nat /\ Len(s) <= Len(A)  BY <2>2 DEF Begins, IsSeq
  <2>4. CASE Len(s) < Len(A)
    <3>1. NoRoom(a2, room) /\ Begins(t, B) /\ a2.n = 0 /\ Len(t) = 0 /\ L2 = L1  BY <2>2, <2>4, ShutPart
    <3> HIDE DEF L2
    <3>2. a3.n = 0 /\ Begins(u, C) /\ Len(u) = 0 /\ L = L2  BY <3>1, ShutPart
    <3> HIDE DEF L
    <3>3. Len(s) # Len(A) /\ L = L1  BY <1>0, <2>3, <2>4, <3>1, <3>2
    <3> QED BY <2>2, <2>4, <3>1, <3>2, <3>3 DEF Three, L1, L2, L
  <2>5. CASE Len(s) = Len(A)
    <3>1. /\ Begins(t, B) /\ Len(t) = a2.n /\ IsTotal(L2) /\ L2.l <= room
          /\ Len(t) < Len(B) => NoRoom(a2, room) /\ Over(L2, B[Len(t) + 1], room)
          /\ Len(t) = Len(B) => Arrived(a2, L2, room)
      BY <2>2, <2>5, OpenPart
    <3> HIDE DEF L2
    <3>2. Len(t) \in Nat /\ Len(t) <= Len(B)  BY <3>1 DEF Begins, IsSeq
    <3>3. CASE Len(t) < Len(B)
      <4>1. a3.n = 0 /\ Begins(u, C) /\ Len(u) = 0 /\ L = L2  BY <3>1, <3>3, ShutPart
      <4> HIDE DEF L
      <4>2. Len(t) # Len(B) /\ ~(Len(s) < Len(A))  BY <1>0, <2>5, <3>2, <3>3
      <4> QED BY <2>2, <2>5, <3>1, <3>3, <4>1, <4>2 DEF Three, L1, L2, L
    <3>4. CASE Len(t) = Len(B)
      <4>1. /\ Begins(u, C) /\ Len(u) = a3.n /\ IsTotal(L) /\ L.l <= room
            /\ Len(u) < Len(C) => Over(L, C[Len(u) + 1], room)
        BY <3>1, <3>4, OpenPart
      <4> HIDE DEF L
      <4>2. ~(Len(t) < Len(B)) /\ ~(Len(s) < Len(A))  BY <1>0, <2>5, <3>4
      <4> QED BY <2>2, <2>5, <3>1, <3>4, <4>1, <4>2 DEF Three, L1, L2, L
    <3> QED BY <1>0, <3>2, <3>3, <3>4
  <2> QED BY <1>0, <2>3, <2>4, <2>5
<1> QED BY <1>0, <1>1, <1>2

\* Together they are the first records, up to the first without room.
LEMMA ThreeCut ==
  ASSUME NEW A, IsRecords(A), NEW B, IsRecords(B), NEW C, IsRecords(C), NEW q, NEW room \in Int,
         NEW s, NEW t, NEW u, Three(A, B, C, q, room, s, t, u)
  PROVE  LET kept == s \o t \o u
             all == A \o B \o C
         IN  /\ Begins(s, A) /\ Begins(t, B) /\ Begins(u, C) /\ Len(kept) = Len(s) + Len(t) + Len(u)
             /\ (Len(kept) = Len(all) <=> Len(s) = Len(A) /\ Len(t) = Len(B) /\ Len(u) = Len(C))
             /\ Cut(RecordsLen(kept, q), kept, all, room)
<1> DEFINE kept == s \o t \o u
           all == A \o B \o C
           L1 == RecordsLen(s, q)
           L2 == RecordsLen(t, L1)
           L == RecordsLen(u, L2)
<1>0. Len(A) \in Nat /\ Len(B) \in Nat /\ Len(C) \in Nat  BY DEF IsSeq, IsRecords
<1>3. /\ Begins(s, A) /\ Begins(t, B) /\ Begins(u, C) /\ IsTotal(L)
      /\ Len(s) < Len(A) => Len(t) = 0 /\ L2 = L1
      /\ Len(s) < Len(A) \/ Len(t) < Len(B) => Len(u) = 0 /\ L = L2
      /\ (Len(s) = 0 /\ Len(t) = 0 /\ Len(u) = 0) \/ L.l <= room
      /\ Len(s) < Len(A) => Over(L1, A[Len(s) + 1], room)
      /\ Len(s) = Len(A) /\ Len(t) < Len(B) => Over(L2, B[Len(t) + 1], room)
      /\ Len(s) = Len(A) /\ Len(t) = Len(B) /\ Len(u) < Len(C) => Over(L, C[Len(u) + 1], room)
  BY Zenon DEF Three
<1>a. L = RecordsLen(kept, q)
  <2>1. IsSeq(s) /\ IsSeq(t) /\ IsSeq(u)  BY <1>3 DEF Begins
  <2> DEFINE st == s \o t
  <2>2. RecordsLen(st, q) = L2 /\ IsSeq(st)  BY <2>1, RecordsLenCat, Cat
  <2> HIDE DEF st, L2
  <2>3. RecordsLen(st \o u, q) = RecordsLen(u, RecordsLen(st, q))  BY <2>1, <2>2, RecordsLenCat
  <2> QED BY <2>2, <2>3 DEF st
<1> HIDE DEF L1, L2, L
<1>5. /\ Begins(kept, all) /\ (Len(kept) = Len(all) <=> Len(s) = Len(A) /\ Len(t) = Len(B) /\ Len(u) = Len(C))
      /\ Len(s) < Len(A) => all[Len(kept) + 1] = A[Len(s) + 1]
      /\ Len(s) = Len(A) /\ Len(t) < Len(B) => all[Len(kept) + 1] = B[Len(t) + 1]
      /\ Len(s) = Len(A) /\ Len(t) = Len(B) /\ Len(u) < Len(C) => all[Len(kept) + 1] = C[Len(u) + 1]
  <2>1. Behind(A, B, C, s, t, u)  BY <1>3 DEF Behind
  <2>2. JoinedSections(A, B, C, s, t, u, kept, all)  BY <2>1, ThreeParts
  <2> HIDE DEF kept, all
  <2> QED BY <2>2 DEF JoinedSections
<1>6. /\ Len(s) \in Nat /\ Len(t) \in Nat /\ Len(u) \in Nat
      /\ Len(s) <= Len(A) /\ Len(t) <= Len(B) /\ Len(u) <= Len(C)
      /\ Len(kept) = Len(s) + Len(t) + Len(u)
  <2>1. IsSeq(s) /\ IsSeq(t) /\ IsSeq(u)  BY <1>3 DEF Begins
  <2>2. IsSeq(s \o t) /\ Len(s \o t) = Len(s) + Len(t) /\ Len(s) \in Nat /\ Len(t) \in Nat  BY <2>1, Cat
  <2>3. Len((s \o t) \o u) = Len(s \o t) + Len(u) /\ Len(u) \in Nat
    <3> DEFINE st == s \o t
    <3>1. IsSeq(st)  BY <2>2
    <3> HIDE DEF st
    <3>2. Len(st \o u) = Len(st) + Len(u) /\ Len(u) \in Nat  BY <2>1, <3>1, Cat
    <3> QED BY <3>2 DEF st
  <2>4. Len(s) <= Len(A) /\ Len(t) <= Len(B) /\ Len(u) <= Len(C)  BY <1>3 DEF Begins
  <2> QED BY <2>2, <2>3, <2>4
<1> HIDE DEF kept, all
<1>7. Len(kept) = 0 \/ L.l <= room  BY <1>3, <1>6
<1>8. ASSUME Len(kept) < Len(all) PROVE Over(L, all[Len(kept) + 1], room)
  <2> DEFINE x == all[Len(kept) + 1]
  <2>a. /\ Len(s) < Len(A) => x = A[Len(s) + 1]
        /\ Len(s) = Len(A) /\ Len(t) < Len(B) => x = B[Len(t) + 1]
        /\ Len(s) = Len(A) /\ Len(t) = Len(B) /\ Len(u) < Len(C) => x = C[Len(u) + 1]
    BY <1>5
  <2>1. ~(Len(s) = Len(A) /\ Len(t) = Len(B) /\ Len(u) = Len(C))
    <3>1. Len(kept) # Len(all)
      <4>1. Len(kept) \in Nat  BY <1>6
      <4> QED BY <1>8, <4>1
    <3> QED BY <1>5, <3>1
  <2> HIDE DEF x
  <2>2. ASSUME Len(s) < Len(A) PROVE Over(L, x, room)  BY <1>3, <2>2, <2>a
  <2>3. ASSUME Len(s) = Len(A), Len(t) < Len(B) PROVE Over(L, x, room)  BY <1>3, <2>3, <2>a
  <2>4. ASSUME Len(s) = Len(A), Len(t) = Len(B), Len(u) < Len(C) PROVE Over(L, x, room)  BY <1>3, <2>4, <2>a
  <2>5. Over(L, x, room)  BY <1>0, <1>6, <2>1, <2>2, <2>3, <2>4 DEF x
  <2> QED BY <2>5 DEF x
<1>9. Cut(L, kept, all, room)  BY <1>3, <1>5, <1>7, <1>8 DEF Cut
<1> QED BY <1>3, <1>5, <1>6, <1>9, <1>a DEF kept, all

\* The fields of a cut message.
LEMMA CutFields ==
  ASSUME NEW dns, IsMessage(dns), NEW s, NEW t, NEW u, NEW new, IsCut(new, dns, s, t, u)
  PROVE  /\ CutHas(new, dns, s, t, u)
         /\ new.flags = CutFlags(dns, s, t, u)
<1> DEFINE e == u \o OPTOf(dns)
           fl == CutFlags(dns, s, t, u)
           yes == TRUE
<1>1. DOMAIN dns = {"Id", "flags", "Opcode", "Rcode", "Compress", "question", "answer", "ns", "extra"}
  BY DEF IsMessage
<1>2. new = [dns EXCEPT !.Compress = yes, !.flags = fl, !.answer = s, !.ns = t, !.extra = e]  BY DEF IsCut
<1> HIDE DEF e, fl, yes
<1>3. /\ DOMAIN new = DOMAIN dns /\ new.answer = s /\ new.ns = t /\ new.extra = e
      /\ new.question = dns.question /\ new.Compress = yes /\ new.Rcode = dns.Rcode
      /\ new.flags = fl
  BY <1>1, <1>2
<1> QED BY <1>3 DEF e, fl, yes, CutHas

\* What is left of it is a message, and its OPT record the one that it had.
LEMMA CutMessage ==
  ASSUME NEW dns, IsMessage(dns), OPTAtRoot(dns), NEW s, NEW t, NEW u, NEW new, IsCut(new, dns, s, t, u),
         Begins(s, dns.answer), Begins(t, dns.ns), Begins(u, popEdns0(dns))
  PROVE  IsMessage(new) /\ OPTOf(new) = OPTOf(dns) /\ popEdns0(new) = u
<1> DEFINE e == u \o OPTOf(dns)
<1>1. /\ DOMAIN new = DOMAIN dns /\ new.answer = s /\ new.ns = t /\ new.extra = e
      /\ new.question = dns.question /\ new.Compress = TRUE /\ new.Rcode = dns.Rcode
  <2>1. CutHas(new, dns, s, t, u)  BY CutFields
  <2> QED BY <2>1 DEF CutHas
<1>2. IsRecords(s) /\ IsRecords(t) /\ IsRecords(u)
  <2>1. IsSeq(s) /\ IsSeq(t) /\ IsSeq(u)  BY DEF Begins
  <2>2. /\ \A i \in 1..Len(dns.answer) : IsRR(dns.answer[i])
        /\ \A i \in 1..Len(dns.ns) : IsRR(dns.ns[i])
        /\ \A i \in 1..Len(popEdns0(dns)) : IsRR(popEdns0(dns)[i])
    BY SectionsOf, PopFacts
  <2> QED BY <2>1, <2>2, BeginRecords DEF IsRecords
<1>3. IsRecords(OPTOf(dns))  BY PopFacts DEF IsRecords
<1>4. IsRecords(e)
  <2> DEFINE o == OPTOf(dns)
  <2>1. IsSeq(u) /\ IsSeq(o) /\ (\A i \in 1..Len(u) : IsRR(u[i])) /\ \A i \in 1..Len(o) : IsRR(o[i])
    BY <1>2, <1>3 DEF IsRecords
  <2> HIDE DEF o
  <2>2. IsRecords(u \o o)  BY <2>1, CatRecords DEF IsRecords
  <2> QED BY <2>2 DEF o
<1> HIDE DEF e
<1>5. IsMessage(new)
  <2>1. \A sec \in Sections : IsRecords(new[sec])
    <3>1. ASSUME NEW sec \in Sections PROVE IsRecords(new[sec])
      <4>1. sec = "answer" \/ sec = "ns" \/ sec = "extra"  BY DEF Sections
      <4> QED BY <1>1, <1>2, <1>4, <4>1
    <3> QED BY <3>1
  <2>2. \A sec \in Sections : IsSeq(new[sec]) /\ \A i \in 1..Len(new[sec]) : IsRR(new[sec][i])
    BY <2>1 DEF IsRecords
  <2>3. /\ DOMAIN new = {"Id", "flags", "Opcode", "Rcode", "Compress", "question", "answer", "ns", "extra"}
        /\ new.Compress \in BOOLEAN /\ new.Rcode \in Int
        /\ IsSeq(new.question) /\ \A i \in 1..Len(new.question) : IsNameField(new.question[i].name)
    BY <1>1 DEF IsMessage
  <2> QED BY <2>2, <2>3 DEF IsMessage
<1>6. CASE IsEdns0(dns) = 0
  <2>1. OPTOf(dns) = <<>> /\ popEdns0(dns) = dns.extra /\ \A i \in 1..Len(dns.extra) : ~IsOPT(dns.extra[i])
    BY <1>6, PopFacts
  <2>2. e = u
    <3>1. IsSeq(<<>>) /\ Len(<<>>) = 0 /\ IsSeq(u)  BY <1>2 DEF IsSeq, IsRecords
    <3>2. u \o <<>> = u  BY <3>1, CatEmpty
    <3> QED BY <2>1, <3>2 DEF e
  <2>3. \A i \in 1..Len(u) : ~IsOPT(u[i])
    <3>1. \A i \in 1..Len(u) : i \in 1..Len(dns.extra) /\ u[i] = dns.extra[i]  BY <2>1 DEF Begins, IsSeq
    <3> QED BY <2>1, <3>1
  <2>4. IsEdns0(new) = 0
    <3>1. IsSeq(new.extra) /\ \A i \in 1..Len(new.extra) : ~IsOPT(new.extra[i])
      BY <1>1, <1>2, <2>2, <2>3 DEF IsRecords
    <3>2. IsEdns0(new) \in 0..Len(new.extra) /\ (IsEdns0(new) # 0 => IsOPT(new.extra[IsEdns0(new)]))
      BY <3>1, OptIndex
    <3> DEFINE at == IsEdns0(new)
               n == Len(new.extra)
    <3>3. n \in Nat  BY <3>1 DEF IsSeq
    <3>4. at \in 0..n /\ (at # 0 => IsOPT(new.extra[at])) /\ \A i \in 1..n : ~IsOPT(new.extra[i])
      BY <3>1, <3>2
    <3> HIDE DEF at, n
    <3>5. at = 0  BY <3>3, <3>4
    <3> QED BY <3>5 DEF at
  <2>5. OPTOf(new) = <<>> /\ popEdns0(new) = new.extra  BY <2>4 DEF OPTOf, popEdns0
  <2> QED BY <1>1, <1>5, <2>1, <2>2, <2>5
<1>7. CASE IsEdns0(dns) # 0
  <2>1. PICK opt : OPTOf(dns) = <<opt>> /\ IsOPT(opt)  BY <1>7, PopFacts
  <2>2. new.extra = u \o <<opt>> /\ IsSeq(u)  BY <1>1, <1>2, <2>1 DEF e, IsRecords
  <2>3. OPTOf(new) = <<opt>> /\ popEdns0(new) = u  BY <2>1, <2>2, OPTAtEnd
  <2> QED BY <1>5, <2>1, <2>3
<1> QED BY <1>6, <1>7

\* How FillSections cuts a message.
LEMMA FillIs ==
  ASSUME NEW dns, IsMessage(dns), OPTAtRoot(dns), NEW q, IsTotal(q), NEW room \in Int, NEW new, new = FillSections(dns, q, room)
  PROVE  \E s, t, u : IsCut(new, dns, s, t, u) /\ Three(dns.answer, dns.ns, popEdns0(dns), q, room, s, t, u)
<1> DEFINE A == dns.answer
           B == dns.ns
           C == popEdns0(dns)
           a1 == Fill(q, A, room)
           a2 == Fill(a1, B, room)
           a3 == Fill(a2, C, room)
           s == SubSeq(A, 1, a1.n)
           t == SubSeq(B, 1, a2.n)
           u == SubSeq(C, 1, a3.n)
           dropped == Len(A) > a1.n \/ Len(B) > a2.n \/ Len(C) > a3.n
<1>1. new = KeepRecords(dns, a1, a2, a3)  BY DEF FillSections, FillNs, FillExtra
<1>2. Part(q, A, room, a1, s) /\ Part(a1, B, room, a2, t) /\ Part(a2, C, room, a3, u)  BY DEF Part
<1>3. IsRecords(A) /\ IsRecords(B) /\ IsRecords(C)  BY SectionsOf, PopFacts DEF IsRecords
<1> HIDE DEF a1, a2, a3, A, B, C, s, t, u
<1>4. Three(A, B, C, q, room, s, t, u) /\ Len(s) = a1.n /\ Len(t) = a2.n /\ Len(u) = a3.n
  BY <1>2, <1>3, FillThree
<1>5. Dropped3(dns, s, t, u) <=> dropped  BY <1>4 DEF Dropped3, A, B, C
<1>6. CutFlags(dns, s, t, u) = IF dropped THEN dns.flags \cup {"Truncated"} ELSE dns.flags
  BY <1>5 DEF CutFlags
<1> HIDE DEF dropped
<1>7. IsCut(new, dns, s, t, u)
  <2> DEFINE fl == IF dropped THEN dns.flags \cup {"Truncated"} ELSE dns.flags
             e == u \o OPTOf(dns)
  <2>1. new = [dns EXCEPT !.Compress = TRUE, !.flags = fl, !.answer = s, !.ns = t, !.extra = e]
    <3> HIDE DEF fl
    <3>1. KeepRecords(dns, a1, a2, a3) = [dns EXCEPT !.Compress = TRUE, !.flags = fl, !.answer = s, !.ns = t, !.extra = e]
      BY DEF KeepRecords, s, t, u, A, B, C, dropped, fl
    <3> QED BY <1>1, <3>1
  <2>2. fl = CutFlags(dns, s, t, u)  BY <1>6
  <2> HIDE DEF fl
  <2> QED BY <2>1, <2>2 DEF IsCut
<1> QED BY <1>4, <1>7 DEF A, B, C

-----------------------------------------------------------------------------
(* Truncation: the whole message.                                          *)

\* The greater of two numbers.
LEMMA MaxOfTwo ==
  ASSUME NEW x \in Int, NEW y \in Int
  PROVE  Max({x, y}) \in Int /\ x <= Max({x, y}) /\ y <= Max({x, y})
<1>1. \E k \in {x, y} : \A j \in {x, y} : k >= j
  <2>1. CASE x >= y  BY <2>1
  <2>2. CASE ~(x >= y)
    <3>1. y >= x /\ y >= y  BY <2>2
    <3> QED BY <3>1
  <2> QED BY <2>1, <2>2
<1>2. Max({x, y}) \in {x, y} /\ \A j \in {x, y} : Max({x, y}) >= j
  <2> DEFINE T == {x, y}
             B(k) == k \in T /\ \A j \in T : k >= j
  <2>1. Max(T) = CHOOSE k : B(k)  BY Zenon DEF Max
  <2>2. \E k : B(k)  BY <1>1
  <2>3. B(CHOOSE k : B(k))
    <3> HIDE DEF B
    <3> QED BY <2>2
  <2> HIDE DEF T
  <2>4. Max(T) \in T /\ \A j \in T : Max(T) >= j  BY <2>1, <2>3
  <2> QED BY <2>4 DEF T
<1> DEFINE z == Max({x, y})
<1>3. z \in {x, y} /\ z >= x /\ z >= y  BY <1>2
<1> HIDE DEF z
<1>4. z \in Int /\ x <= z /\ y <= z  BY <1>3
<1> QED BY <1>4 DEF z

\* The questions have a length.
LEMMA QuestionsTotal ==
  ASSUME NEW dns, IsMessage(dns), NEW valid
  PROVE  IsTotal(QuestionsLen(dns, valid))
<1> DEFINE n == Len(dns.question)
           start == [l |-> headerSize, c |-> [valid |-> valid, seen |-> {}]]
           loop == [of |-> "QuestionsLen", s |-> dns.question]
<1>1. IsSeq(dns.question) /\ n \in Nat /\ \A i \in 1..n : IsNameField(dns.question[i].name)
  BY SectionsOf DEF IsSeq
<1>2. PICK g : Steps(g, n, start, loop) /\ QuestionsLen(dns, valid) = g[n]  BY <1>1, QuestionsLenLoop
<1> DEFINE S == {k \in 0..n : IsTotal(g[k])}
<1>3. 0 \in S
  <2> DEFINE c == [valid |-> valid, seen |-> {}]
  <2>1. g[0] = [l |-> headerSize, c |-> c] /\ headerSize \in Nat  BY <1>2 DEF Steps, headerSize
  <2> HIDE DEF c
  <2>2. IsTotal(g[0])  BY <2>1 DEF IsTotal
  <2> QED BY <1>1, <2>2
<1>4. ASSUME NEW k \in 1..n, k - 1 \in S PROVE k \in S
  <2> DEFINE u == g[k - 1]
             o == u.l
             s == dns.question[k].name
             r == domainNameLen(s, o, u.c, TRUE)
  <2>1. k \in 0..n /\ IsTotal(u) /\ o \in Nat /\ IsNameField(s)  BY <1>1, <1>4 DEF IsTotal
  <2>2. g[k] = AddLen(u, questionLen(dns.question[k], o, u.c))  BY <1>2 DEF Steps, Turn
  <2>3. questionLen(dns.question[k], o, u.c) = [len |-> r.len + 4, c |-> r.c]  BY DEF questionLen
  <2> HIDE DEF o, s
  <2>4. r.len \in Nat
    <3> DEFINE yes == TRUE
               c == u.c
    <3> HIDE DEF yes, c
    <3>1. domainNameLen(s, o, c, yes).len \in Nat  BY <2>1, NameLenNat
    <3> QED BY <3>1 DEF yes, c
  <2> HIDE DEF r
  <2>5. g[k] = [l |-> o + (r.len + 4), c |-> r.c]  BY <2>2, <2>3 DEF AddLen, o
  <2>6. IsTotal(g[k])  BY <2>1, <2>4, <2>5 DEF IsTotal
  <2> QED BY <2>1, <2>6
<1>5. n \in S
  <2> HIDE DEF S, n
  <2>1. \A k \in 0..n : k \in S  BY <1>1, <1>3, <1>4, UpTo
  <2> QED BY <1>1, <2>1
<1> QED BY <1>2, <1>5

\* No records have no length.
LEMMA NoneLen ==
  ASSUME NEW a
  PROVE  RecordsLen(<<>>, a) = a
<1>1. IsSeq(<<>>) /\ Len(<<>>) = 0  BY DEF IsSeq
<1>2. PICK g : Steps(g, Len(<<>>), a, [of |-> "RecordsLen", s |-> <<>>]) /\ RecordsLen(<<>>, a) = g[Len(<<>>)]
  BY <1>1, RecordsLenLoop
<1> QED BY <1>1, <1>2 DEF Steps

\* The length of one record.
LEMMA OneLen ==
  ASSUME NEW x, NEW a
  PROVE  RecordsLen(<<x>>, a) = [l |-> a.l + rrLen(x, a.l, a.c).len, c |-> rrLen(x, a.l, a.c).c]
<1> DEFINE s == <<x>>
<1>1. IsSeq(s) /\ Len(s) = 1 /\ s[1] = x  BY One
<1> HIDE DEF s
<1>2. PICK g : Steps(g, Len(s), a, [of |-> "RecordsLen", s |-> s]) /\ RecordsLen(s, a) = g[Len(s)]
  BY <1>1, RecordsLenLoop
<1>3. g[1] = AddLen(g[0], rrLen(s[1], g[0].l, g[0].c)) /\ g[0] = a
  <2>1. 1 \in 1..Len(s) /\ 1 - 1 = 0  BY <1>1
  <2>2. g[1] = Turn([of |-> "RecordsLen", s |-> s], 1, g[1 - 1])  BY <1>2, <2>1 DEF Steps
  <2>3. g[1 - 1] = g[0]  BY <2>1
  <2> QED BY <1>2, <2>2, <2>3 DEF Steps, Turn
<1> QED BY <1>1, <1>2, <1>3 DEF AddLen, s

\* The length of a compressed message that has records.
LEMMA LenOf ==
  ASSUME NEW dns, NEW d, NEW s, IsSeq(s), NEW t, IsSeq(t), NEW e, IsSeq(e), Holds(d, dns.question, s, t, e),
         s # <<>> \/ t # <<>> \/ e # <<>>
  PROVE  MsgLen(d) = RecordsLen(e, RecordsLen(t, RecordsLen(s, QuestionsLen(dns, TRUE)))).l
<1> DEFINE st == s \o t
           q == QuestionsLen(dns, TRUE)
           yes == TRUE
<1>1. d.question = dns.question /\ d.answer = s /\ d.ns = t /\ d.extra = e /\ d.Compress  BY DEF Holds
<1>2. isCompressible(d) = TRUE  BY <1>1 DEF isCompressible
<1>3. (d.Compress /\ isCompressible(d)) = TRUE  BY <1>2 DEF Holds, isCompressible
<1>4. MsgLen(d) = msgLenWithCompressionMap(d, TRUE)  BY <1>3 DEF MsgLen
<1>5. QuestionsLen(d, TRUE) = q  BY <1>1 DEF QuestionsLen
<1>6. msgLenWithCompressionMap(d, TRUE) = RecordsLen(s \o t \o e, q).l
  BY <1>1, <1>5 DEF msgLenWithCompressionMap
<1> HIDE DEF q
<1>7. IsSeq(st) /\ RecordsLen(st, q) = RecordsLen(t, RecordsLen(s, q))  BY Cat, RecordsLenCat
<1> HIDE DEF st
<1>8. RecordsLen(st \o e, q) = RecordsLen(e, RecordsLen(st, q))  BY <1>7, RecordsLenCat
<1> QED BY <1>4, <1>6, <1>7, <1>8 DEF st, q

\* The OPT record adds its length, wherever it is, and RoomFor has left it the room.
LEMMA RoomForOPT ==
  ASSUME NEW dns, IsMessage(dns), OPTAtRoot(dns), NEW size \in Int
  PROVE  /\ RoomFor(dns, size) \in Int
         /\ \A K : IsTotal(K) => /\ IsTotal(RecordsLen(OPTOf(dns), K))
                                 /\ RecordsLen(OPTOf(dns), K).l = K.l + (size - RoomFor(dns, size))
<1>1. CASE IsEdns0(dns) = 0
  <2>1. OPTOf(dns) = <<>> /\ RoomFor(dns, size) = size  BY <1>1 DEF OPTOf, RoomFor
  <2>2. ASSUME NEW K, IsTotal(K) PROVE RecordsLen(OPTOf(dns), K) = K /\ K.l = K.l + (size - size)
    <3>1. RecordsLen(OPTOf(dns), K) = K  BY <2>1, NoneLen
    <3> QED BY <2>2, <3>1 DEF IsTotal
  <2> QED BY <2>1, <2>2
<1>2. CASE IsEdns0(dns) # 0
  <2>1. PICK opt : /\ opt = dns.extra[IsEdns0(dns)] /\ OPTOf(dns) = <<opt>> /\ IsRR(opt)
                   /\ opt.name = Root /\ opt.kind = "OPT"
    BY <1>2, PopFacts
  <2> DEFINE n == RRLen(opt)
  <2>2. RoomFor(dns, size) = size - n  BY <1>2, <2>1 DEF RoomFor
  <2>3. ASSUME NEW off \in Nat, NEW c PROVE rrLen(opt, off, c).len = n /\ n \in Nat
    <3>1. rrLen(opt, off, c).len = n  BY <2>1, OPTLen
    <3> DEFINE d == rrLen(opt, off, c)
    <3>2. IsLength(d)  BY <2>1, RecordLonger
    <3> QED BY <3>1, <3>2 DEF IsLength
  <2> HIDE DEF n
  <2>4. n \in Nat
    <3>1. 0 \in Nat  OBVIOUS
    <3> QED BY <2>3, <3>1
  <2>5. ASSUME NEW K, IsTotal(K) PROVE RecordsLen(OPTOf(dns), K).l = K.l + n /\ IsTotal(RecordsLen(OPTOf(dns), K))
    <3> DEFINE d == rrLen(opt, K.l, K.c)
    <3>1. RecordsLen(OPTOf(dns), K) = [l |-> K.l + d.len, c |-> d.c]  BY <2>1, OneLen
    <3>2. K.l \in Nat /\ d.len = n  BY <2>3, <2>5 DEF IsTotal
    <3> HIDE DEF d
    <3>3. K.l + n \in Nat  BY <2>4, <3>2
    <3> QED BY <3>1, <3>2, <3>3 DEF IsTotal
  <2>6. ASSUME NEW k \in Nat PROVE k + n = k + (size - (size - n))  BY <2>4, <2>6
  <2> QED BY <2>2, <2>4, <2>5, <2>6 DEF IsTotal
<1> QED BY <1>1, <1>2

\* A message of a compressed length of size octets at most packs to no more.
LEMMA PackedFits ==
  ASSUME NEW d, IsMessage(d), NEW size \in Int, 0 <= size, MsgLen(d) <= size, MsgLen(d) \in Int
  PROVE  Len(PackBuffer(d).msg) <= size
<1> DEFINE q == PackBuffer(d)
           new == WithExtendedRcode(d)
<1>1. MsgLen(new) = MsgLen(d)
  <2>1. /\ isCompressible(new) = isCompressible(d)
        /\ \A valid : QuestionsLen(new, valid) = QuestionsLen(d, valid)
        /\ \A a : RecordsLen(Records(new), a) = RecordsLen(Records(d), a)
    BY SentLength
  <2>2. new.Compress = d.Compress  BY SentMessage
  <2> HIDE DEF new
  <2>3. (new.Compress /\ isCompressible(new)) = (d.Compress /\ isCompressible(d))  BY <2>1, <2>2
  <2> DEFINE valid == d.Compress /\ isCompressible(d)
  <2>4. MsgLen(new) = msgLenWithCompressionMap(new, valid) /\ MsgLen(d) = msgLenWithCompressionMap(d, valid)
    BY <2>3, Zenon DEF MsgLen
  <2> HIDE DEF valid
  <2>5. msgLenWithCompressionMap(new, valid) = RecordsLen(Records(new), QuestionsLen(new, valid)).l
        /\ msgLenWithCompressionMap(d, valid) = RecordsLen(Records(d), QuestionsLen(d, valid)).l
    BY DEF msgLenWithCompressionMap, Records
  <2> QED BY <2>1, <2>4, <2>5
<1>2. CASE Refused(d)
  <2>1. q = Failed(NewBuffer(Capacity(d), Compressed(d)))  BY <1>2, PackIs
  <2>2. q.msg = <<>>  BY <2>1 DEF Failed, NewBuffer
  <2>3. Len(q.msg) = 0  BY <2>2
  <2> QED BY <2>3
<1>3. CASE ~Refused(d)
  <2>1. Len(q.msg) <= MsgLen(new) /\ IsSeq(q.msg)  BY <1>3, PackHolds
  <2>2. Len(q.msg) \in Nat  BY <2>1 DEF IsSeq
  <2> HIDE DEF q, new
  <2>3. Len(q.msg) <= size  BY <1>1, <2>1, <2>2
  <2> QED BY <2>3 DEF q
<1> QED BY <1>2, <1>3

\* To append is to add a sequence of one.
LEMMA AppendIs ==
  ASSUME NEW s, IsSeq(s), NEW x
  PROVE  Append(s, x) = s \o <<x>> /\ Append(s, x) # <<>> /\ IsSeq(Append(s, x))
<1> DEFINE o == <<x>>
           a == s \o o
           b == Append(s, x)
           n == Len(s)
<1>1. IsSeq(o) /\ Len(o) = 1 /\ o[1] = x  BY One
<1>2. IsSeq(b) /\ n \in Nat /\ Len(b) = n + 1 /\ (\A i \in 1..n : b[i] = s[i]) /\ b[n + 1] = x  BY Added
<1> HIDE DEF o, b
<1>3. /\ IsSeq(a) /\ Len(a) = n + Len(o) /\ \A i \in 1..n : a[i] = s[i]
      /\ \A i \in 1..Len(o) : a[n + i] = o[i]
  <2>1. /\ IsSeq(s \o o) /\ Len(s \o o) = Len(s) + Len(o) /\ \A i \in 1..Len(s) : (s \o o)[i] = s[i]
        /\ \A i \in 1..Len(o) : (s \o o)[Len(s) + i] = o[i]
    <3>1. IsSeq(o)  BY <1>1
    <3> QED BY <3>1, Cat
  <2> HIDE DEF n
  <2> QED BY <2>1 DEF a, n
<1> HIDE DEF a
<1>4. Len(a) = n + 1 /\ a[n + 1] = x  BY <1>1, <1>3
<1> HIDE DEF n
<1>5. \A i \in 1..Len(b) : b[i] = a[i]  BY <1>2, <1>3, <1>4
<1>6. b = a  BY <1>2, <1>3, <1>4, <1>5, SameSeq
<1>7. b # <<>>  BY <1>2
<1> QED BY <1>2, <1>6, <1>7 DEF a, b, o

\* The length of the records rrs and the OPT record of a message that was cut.
LEMMA CostOf ==
  ASSUME NEW dns, IsMessage(dns), OPTAtRoot(dns), NEW new, CutHas(new, dns, new.answer, new.ns, popEdns0(new)), OPTOf(new) = OPTOf(dns),
         NEW rrs, IsSeq(rrs), rrs # <<>>, NEW d, d = [new EXCEPT !.answer = rrs, !.ns = <<>>, !.extra = OPTOf(new)]
  PROVE  MsgLen(d) = RecordsLen(OPTOf(dns), RecordsLen(rrs, QuestionsLen(dns, TRUE))).l
<1> DEFINE O == OPTOf(dns)
           none == <<>>
<1>1. DOMAIN new = {"Id", "flags", "Opcode", "Rcode", "Compress", "question", "answer", "ns", "extra"}
      /\ new.question = dns.question /\ new.Compress = TRUE
  BY DEF IsMessage, CutHas
<1>2. d = [new EXCEPT !.answer = rrs, !.ns = none, !.extra = O]  OBVIOUS
<1>3. IsSeq(O) /\ IsSeq(none)  BY PopFacts DEF IsSeq
<1> HIDE DEF O, none
<1>4. d.question = dns.question /\ d.answer = rrs /\ d.ns = none /\ d.extra = O /\ d.Compress = new.Compress
  BY <1>1, <1>2
<1>5. Holds(d, dns.question, rrs, none, O)  BY <1>1, <1>4 DEF Holds
<1>6. MsgLen(d) = RecordsLen(O, RecordsLen(none, RecordsLen(rrs, QuestionsLen(dns, TRUE)))).l
  BY <1>3, <1>5, LenOf
<1> QED BY <1>6, NoneLen DEF O, none

\* The length of the cut message, compressed, when it has records.
LEMMA KeptLen ==
  ASSUME NEW dns, IsMessage(dns), OPTAtRoot(dns), NEW new, NEW s, NEW t, NEW u, CutHas(new, dns, s, t, u),
         IsSeq(s), IsSeq(t), IsSeq(u), s \o t \o u # <<>>
  PROVE  IsLengthOf(MsgLen(new), dns, s \o t \o u)
<1> DEFINE O == OPTOf(dns)
           e == u \o O
           st == s \o t
           kept == st \o u
           q == QuestionsLen(dns, TRUE)
<1>1. IsSeq(O)  BY PopFacts
<1> HIDE DEF O
<1>2. IsSeq(e) /\ Len(e) = Len(u) + Len(O) /\ Len(u) \in Nat /\ Len(O) \in Nat  BY <1>1, Cat
<1>3. IsSeq(st) /\ Len(st) = Len(s) + Len(t) /\ Len(s) \in Nat /\ Len(t) \in Nat  BY Cat
<1>4. kept = st \o u  OBVIOUS
<1>a. kept # <<>>  OBVIOUS
<1> HIDE DEF e, st, kept
<1>5. IsSeq(kept) /\ Len(kept) = Len(st) + Len(u)  BY <1>3, <1>4, Cat
<1>6. s # <<>> \/ t # <<>> \/ e # <<>>
  <2>1. Len(kept) # 0  BY <1>5, <1>a, EmptyIs
  <2>2. Len(s) # 0 \/ Len(t) # 0 \/ Len(e) # 0  BY <1>2, <1>3, <1>5, <2>1
  <2>3. (s = <<>> => Len(s) = 0) /\ (t = <<>> => Len(t) = 0) /\ (e = <<>> => Len(e) = 0)  BY <1>2, EmptyIs
  <2> QED BY <2>2, <2>3
<1>7. Holds(new, dns.question, s, t, e)  BY DEF CutHas, Holds, e, O
<1>8. MsgLen(new) = RecordsLen(e, RecordsLen(t, RecordsLen(s, q))).l  BY <1>2, <1>6, <1>7, LenOf
<1> HIDE DEF q
<1>9. RecordsLen(st, q) = RecordsLen(t, RecordsLen(s, q))  BY RecordsLenCat DEF st
<1>10. RecordsLen(kept, q) = RecordsLen(u, RecordsLen(st, q))  BY <1>3, <1>4, RecordsLenCat
<1>11. RecordsLen(e, RecordsLen(st, q)) = RecordsLen(O, RecordsLen(u, RecordsLen(st, q)))
  BY <1>1, RecordsLenCat DEF e
<1> QED BY <1>8, <1>9, <1>10, <1>11 DEF q, O, kept, st, IsLengthOf

\* A message cut to s, t and u keeps the promise.
LEMMA CutFits ==
  ASSUME NEW dns, IsMessage(dns), OPTAtRoot(dns), NEW size \in Int, 0 <= size, NEW new, NEW s, NEW t, NEW u, IsCut(new, dns, s, t, u),
         Three(dns.answer, dns.ns, popEdns0(dns), QuestionsLen(dns, TRUE), RoomFor(dns, size), s, t, u)
  PROVE  IsMessage(new) /\ CutStands(dns, new, size)
<1> DEFINE A == dns.answer
           B == dns.ns
           C == popEdns0(dns)
           O == OPTOf(dns)
           q == QuestionsLen(dns, TRUE)
           room == RoomFor(dns, size)
           all == A \o B \o C
<1>1. IsTotal(q) /\ room \in Int  BY QuestionsTotal, RoomForOPT
<1>2. /\ IsRecords(A) /\ IsRecords(B) /\ IsRecords(C) /\ IsSeq(O)  BY SectionsOf, PopFacts DEF IsRecords
<1>3. Three(A, B, C, q, room, s, t, u)  OBVIOUS
<1> DEFINE kept == s \o t \o u
           K == RecordsLen(kept, q)
<1>4. /\ CutHas(new, dns, s, t, u)
      /\ new.flags = CutFlags(dns, s, t, u)
  BY CutFields
<1> HIDE DEF room, q
<1>5. /\ Begins(s, A) /\ Begins(t, B) /\ Begins(u, C) /\ Len(kept) = Len(s) + Len(t) + Len(u)
      /\ (Len(kept) = Len(all) <=> Len(s) = Len(A) /\ Len(t) = Len(B) /\ Len(u) = Len(C))
      /\ Cut(K, kept, all, room)
  <2> HIDE DEF A, B, C
  <2> QED BY <1>1, <1>2, <1>3, ThreeCut
<1>6. IsMessage(new) /\ OPTOf(new) = O /\ popEdns0(new) = u
  <2>1. Begins(s, dns.answer) /\ Begins(t, dns.ns) /\ Begins(u, popEdns0(dns))  BY <1>5
  <2> QED BY <2>1, CutMessage
<1>7. new.answer = s /\ new.ns = t  BY <1>4 DEF CutHas
<1> HIDE DEF A, B, C, O, all, kept, K
<1>8. /\ IsSeq(s) /\ IsSeq(t) /\ IsSeq(u) /\ Begins(kept, all)
      /\ Len(s) \in Nat /\ Len(t) \in Nat /\ Len(u) \in Nat /\ Len(A) \in Nat /\ Len(B) \in Nat /\ Len(C) \in Nat
      /\ Len(s) <= Len(A) /\ Len(t) <= Len(B) /\ Len(u) <= Len(C)
  BY <1>2, <1>5 DEF Begins, Cut, IsSeq, IsRecords
<1>9. IsSeq(kept) /\ Len(kept) \in Nat /\ Len(all) \in Nat /\ Len(kept) <= Len(all) /\ IsTotal(K)
  BY <1>5, <1>8 DEF Begins, IsSeq, Cut
<1>10. kept # all <=> Len(kept) < Len(all)
  <2>1. Len(kept) = Len(all) => kept = all  BY <1>8, BeginsIsPrefix
  <2> QED BY <1>9, <2>1
<1>11. kept # all <=> Dropped3(dns, s, t, u)  BY <1>5, <1>8, <1>9, <1>10 DEF Dropped3, A, B, C
<1>12. IsPrefix(kept, all) /\ IsPrefix(s, A) /\ IsPrefix(t, B)  BY <1>5, <1>8, BeginsIsPrefix
<1>13. ("Truncated" \in new.flags) = ("Truncated" \in dns.flags \/ kept # all)
  <2>1. CASE kept # all  BY <1>4, <1>11, <2>1 DEF CutFlags
  <2>2. CASE kept = all
    <3>1. new.flags = dns.flags /\ kept = all  BY <1>4, <1>11, <2>2 DEF CutFlags
    <3>2. CASE "Truncated" \in dns.flags  BY <3>1, <3>2
    <3>3. CASE "Truncated" \notin dns.flags  BY <3>1, <3>3
    <3> QED BY <3>2, <3>3
  <2> QED BY <2>1, <2>2
<1>14. \A L : IsTotal(L) => IsTotal(RecordsLen(O, L)) /\ RecordsLen(O, L).l = L.l + (size - room)
  BY RoomForOPT DEF O, room
<1>15. kept = <<>> \/ Len(PackBuffer(new).msg) <= size
  <2> SUFFICES ASSUME kept # <<>> PROVE Len(PackBuffer(new).msg) <= size  OBVIOUS
  <2>1. K.l <= room
    <3>1. Len(kept) # 0  BY <1>9, EmptyIs
    <3> QED BY <1>5, <3>1 DEF Cut
  <2>2. MsgLen(new) = RecordsLen(O, K).l
    <3>1. s \o t \o u # <<>>  BY DEF kept
    <3>2. CutHas(new, dns, s, t, u) /\ IsSeq(s) /\ IsSeq(t) /\ IsSeq(u)  BY <1>4, <1>8
    <3>3. IsLengthOf(MsgLen(new), dns, s \o t \o u)  BY <3>1, <3>2, KeptLen
    <3> QED BY <3>3 DEF K, q, O, kept, IsLengthOf
  <2>3. MsgLen(new) = K.l + (size - room)  BY <1>9, <1>14, <2>2
  <2>4. K.l \in Nat  BY <1>9 DEF IsTotal
  <2>5. MsgLen(new) \in Int /\ MsgLen(new) <= size
    <3> DEFINE l == MsgLen(new)
               k == K.l
    <3>1. l = k + (size - room) /\ k <= room /\ k \in Nat  BY <2>1, <2>3, <2>4
    <3> HIDE DEF l, k
    <3>2. l \in Int /\ l <= size  BY <1>1, <3>1
    <3> QED BY <3>2 DEF l
  <2> QED BY <1>6, <2>5, PackedFits
<1>16. ASSUME kept # all
       PROVE  MsgLen([new EXCEPT !.answer = Append(kept, all[Len(kept) + 1]), !.ns = <<>>, !.extra = OPTOf(new)]) > size
  <2> DEFINE x == all[Len(kept) + 1]
             rrs == Append(kept, x)
             d == [new EXCEPT !.answer = rrs, !.ns = <<>>, !.extra = OPTOf(new)]
             r == rrLen(x, K.l, K.c)
             L == RecordsLen(rrs, q)
  <2>1. Over(K, x, room)  BY <1>5, <1>10, <1>16 DEF Cut
  <2>2. IsRR(x)
    <3> DEFINE AB == A \o B
    <3>1. IsRecords(AB)  BY <1>2, CatRecords DEF IsRecords
    <3> HIDE DEF AB
    <3>2. IsRecords(AB \o C)  BY <1>2, <3>1, CatRecords DEF IsRecords
    <3>3. IsRecords(all)  BY <3>2 DEF all, AB
    <3>4. Len(kept) + 1 \in 1..Len(all)  BY <1>9, <1>10, <1>16
    <3> QED BY <3>3, <3>4 DEF IsRecords
  <2> HIDE DEF x
  <2>3. IsSeq(rrs) /\ rrs # <<>> /\ rrs = kept \o <<x>>  BY <1>9, AppendIs
  <2>4. L = RecordsLen(<<x>>, K)
    <3>1. IsSeq(<<x>>)  BY One
    <3> DEFINE o == <<x>>
    <3> HIDE DEF o
    <3>2. RecordsLen(kept \o o, q) = RecordsLen(o, RecordsLen(kept, q))  BY <1>9, <3>1, RecordsLenCat DEF o
    <3> HIDE DEF rrs
    <3> QED BY <2>3, <3>2 DEF o, K
  <2> HIDE DEF rrs
  <2>5. L = [l |-> K.l + r.len, c |-> r.c]  BY <2>4, OneLen
  <2>6. K.l \in Nat /\ r.len \in Nat
    <3>1. K.l \in Nat  BY <1>9 DEF IsTotal
    <3> DEFINE off == K.l
               c == K.c
    <3>2. off \in Nat  BY <3>1
    <3> HIDE DEF off, c
    <3>3. IsLength(rrLen(x, off, c))  BY <2>2, <3>2, RecordLonger
    <3> QED BY <3>1, <3>3 DEF IsLength, off, c
  <2> HIDE DEF r, L
  <2>7. IsTotal(L) /\ L.l = K.l + r.len  BY <2>5, <2>6 DEF IsTotal
  <2>8. K.l + r.len > room  BY <2>1 DEF Over, r
  <2>9. MsgLen(d) = RecordsLen(O, L).l
    <3>1. CutHas(new, dns, new.answer, new.ns, popEdns0(new)) /\ OPTOf(new) = OPTOf(dns)
      BY <1>4, <1>6, <1>7 DEF O
    <3>2. MsgLen(d) = RecordsLen(OPTOf(dns), RecordsLen(rrs, QuestionsLen(dns, TRUE))).l
      BY <2>3, <3>1, CostOf
    <3> QED BY <3>2 DEF O, L, q
  <2> HIDE DEF d
  <2>10. MsgLen(d) = K.l + r.len + (size - room)  BY <1>14, <2>7, <2>9
  <2>11. MsgLen(d) > size  BY <1>1, <2>6, <2>8, <2>10
  <2> QED BY <2>11 DEF d, rrs, x
<1>17. CutStands(dns, new, size)
  <2> DEFINE lead == new.answer \o new.ns \o popEdns0(new)
  <2>1. lead = kept /\ all = dns.answer \o dns.ns \o popEdns0(dns)  BY <1>6, <1>7 DEF kept, all, A, B, C
  <2> HIDE DEF lead
  <2>2. /\ lead = <<>> \/ Len(PackBuffer(new).msg) <= size
        /\ IsPrefix(lead, all) /\ IsPrefix(new.answer, dns.answer) /\ IsPrefix(new.ns, dns.ns)
        /\ OPTOf(new) = OPTOf(dns)
        /\ ("Truncated" \in new.flags) = ("Truncated" \in dns.flags \/ lead # all)
        /\ lead # all => MsgLen([new EXCEPT !.answer = Append(lead, all[Len(lead) + 1]), !.ns = <<>>, !.extra = OPTOf(new)]) > size
    BY <1>6, <1>7, <1>12, <1>13, <1>15, <1>16, <2>1 DEF A, B, O
  <2> QED BY <2>1, <2>2, Zenon DEF CutStands, lead
<1> QED BY <1>6, <1>17

\* A message that fits without compression is only told not to use it.
LEMMA WholeFits ==
  ASSUME NEW dns, IsMessage(dns), OPTAtRoot(dns), NEW size \in Int, 0 <= size, msgLenWithCompressionMap(dns, FALSE) <= size,
         NEW new, new = [dns EXCEPT !.Compress = FALSE]
  PROVE  IsMessage(new) /\ CutStands(dns, new, size)
<1> DEFINE no == FALSE
           all == dns.answer \o dns.ns \o popEdns0(dns)
           lead == new.answer \o new.ns \o popEdns0(new)
<1>1. DOMAIN dns = {"Id", "flags", "Opcode", "Rcode", "Compress", "question", "answer", "ns", "extra"}
  BY DEF IsMessage
<1>2. new = [dns EXCEPT !.Compress = no]  OBVIOUS
<1> HIDE DEF no
<1>3. /\ DOMAIN new = DOMAIN dns /\ new.question = dns.question /\ new.answer = dns.answer /\ new.ns = dns.ns
      /\ new.extra = dns.extra /\ new.flags = dns.flags /\ new.Rcode = dns.Rcode /\ new.Compress = no
  BY <1>1, <1>2
<1>4. IsMessage(new)
  <2>1. \A sec \in Sections : new[sec] = dns[sec]  BY <1>3 DEF Sections
  <2>2. \A sec \in Sections : IsSeq(new[sec]) /\ \A i \in 1..Len(new[sec]) : IsRR(new[sec][i])
    BY <2>1 DEF IsMessage
  <2>3. new.Compress \in BOOLEAN  BY <1>3 DEF no
  <2> QED BY <1>1, <1>3, <2>2, <2>3 DEF IsMessage
<1>5. IsEdns0(new) = IsEdns0(dns)  BY <1>3 DEF IsEdns0
<1>6. OPTOf(new) = OPTOf(dns) /\ popEdns0(new) = popEdns0(dns)  BY <1>3, <1>5 DEF OPTOf, popEdns0
<1>7. MsgLen(new) = msgLenWithCompressionMap(dns, no)
  <2>1. ~(new.Compress /\ isCompressible(new))  BY <1>3 DEF no
  <2>2. MsgLen(new) = msgLenWithCompressionMap(new, no)
    <3>1. (new.Compress /\ isCompressible(new)) = no  BY <2>1 DEF no
    <3> QED BY <3>1 DEF MsgLen
  <2>3. QuestionsLen(new, no) = QuestionsLen(dns, no)  BY <1>3 DEF QuestionsLen
  <2> QED BY <1>3, <2>2, <2>3 DEF msgLenWithCompressionMap
<1>8. MsgLen(new) \in Int /\ MsgLen(new) <= size
  <2>1. MsgLen(new) <= size  BY <1>7 DEF no
  <2>2. MsgLen(new) = RecordsLen(Records(dns), QuestionsLen(dns, no)).l
    BY <1>7 DEF msgLenWithCompressionMap, Records
  <2>3. IsSeq(Records(dns)) /\ (\A i \in 1..Len(Records(dns)) : IsRR(Records(dns)[i])) /\ IsTotal(QuestionsLen(dns, no))
    BY RecordsOf, QuestionsTotal
  <2> DEFINE rrs == Records(dns)
             q == QuestionsLen(dns, no)
  <2> HIDE DEF rrs, q
  <2>4. PICK g : Steps(g, Len(rrs), q, [of |-> "RecordsLen", s |-> rrs]) /\ RecordsLen(rrs, q) = g[Len(rrs)]
    BY <2>3, RecordsLenLoop DEF rrs
  <2>5. \A k \in 0..Len(rrs) : IsTotal(g[k])  BY <2>3, <2>4, RecordsRun DEF rrs, q
  <2>6. Len(rrs) \in 0..Len(rrs)  BY <2>3 DEF IsSeq, rrs
  <2>7. IsTotal(RecordsLen(rrs, q))  BY <2>4, <2>5, <2>6
  <2> QED BY <2>1, <2>2, <2>7 DEF IsTotal, rrs, q
<1>9. Len(PackBuffer(new).msg) <= size  BY <1>4, <1>8, PackedFits
<1>10. lead = all  BY <1>3, <1>6
<1>11. ASSUME NEW s, IsSeq(s) PROVE IsPrefix(s, s)
  <2>1. Begins(s, s)  BY <1>11 DEF Begins, IsSeq
  <2> QED BY <2>1, BeginsIsPrefix
<1>12. IsSeq(all) /\ IsSeq(dns.answer) /\ IsSeq(dns.ns)
  <2> DEFINE C == popEdns0(dns)
             AB == dns.answer \o dns.ns
  <2>1. IsSeq(C) /\ IsSeq(dns.answer) /\ IsSeq(dns.ns)  BY PopFacts, SectionsOf
  <2>2. IsSeq(AB)  BY <2>1, Cat
  <2> HIDE DEF AB, C
  <2>3. IsSeq(AB \o C)  BY <2>1, <2>2, Cat
  <2> QED BY <2>1, <2>3 DEF AB, C
<1> HIDE DEF lead, all
<1>13. IsPrefix(lead, all) /\ IsPrefix(new.answer, dns.answer) /\ IsPrefix(new.ns, dns.ns)
  BY <1>3, <1>10, <1>11, <1>12
<1>14. ("Truncated" \in new.flags) = ("Truncated" \in dns.flags \/ lead # all)
  <2>1. CASE "Truncated" \in dns.flags  BY <1>3, <1>10, <2>1
  <2>2. CASE "Truncated" \notin dns.flags  BY <1>3, <1>10, <2>2
  <2> QED BY <2>1, <2>2
<1>15. lead # all => MsgLen([new EXCEPT !.answer = Append(lead, all[Len(lead) + 1]), !.ns = <<>>, !.extra = OPTOf(new)]) > size
  BY <1>10
<1>16. CutStands(dns, new, size)  BY <1>6, <1>9, <1>13, <1>14, <1>15, Zenon DEF CutStands, lead, all
<1> QED BY <1>4, <1>16

\* Truncate keeps its promise, of every message and for every size.
LEMMA TruncatedFits ==
  ASSUME NEW dns, IsMessage(dns), OPTAtRoot(dns), NEW want \in Int, NEW new, new = truncated(dns, want)
  PROVE  IsMessage(new) /\ (IsTsig(dns) \/ CutStands(dns, new, Max({want, MinMsgSize})))
<1> DEFINE size == Max({want, MinMsgSize})
<1>1. size \in Int /\ 0 <= size
  <2> DEFINE min == MinMsgSize
  <2>1. min \in Int /\ 0 <= min  BY SizeAssumption
  <2>2. size \in Int /\ min <= size  BY <2>1, MaxOfTwo
  <2> HIDE DEF size, min
  <2> QED BY <2>1, <2>2
<1> HIDE DEF size
<1>2. CASE IsTsig(dns)
  <2>1. new = dns  BY <1>2 DEF truncated
  <2> QED BY <1>2, <2>1
<1>3. CASE ~IsTsig(dns) /\ msgLenWithCompressionMap(dns, FALSE) <= size
  <2>1. new = [dns EXCEPT !.Compress = FALSE]  BY <1>3 DEF truncated, size
  <2>2. IsMessage(new) /\ CutStands(dns, new, size)  BY <1>1, <1>3, <2>1, WholeFits
  <2> QED BY <2>2 DEF size
<1>4. CASE ~IsTsig(dns) /\ ~(msgLenWithCompressionMap(dns, FALSE) <= size)
  <2> DEFINE q == QuestionsLen(dns, TRUE)
             room == RoomFor(dns, size)
  <2>1. new = FillSections(dns, q, room)  BY <1>4 DEF truncated, size
  <2>2. IsTotal(q) /\ room \in Int  BY <1>1, QuestionsTotal, RoomForOPT
  <2> HIDE DEF q, room
  <2>3. PICK s, t, u : IsCut(new, dns, s, t, u) /\ Three(dns.answer, dns.ns, popEdns0(dns), q, room, s, t, u)
    BY <2>1, <2>2, FillIs
  <2>4. IsMessage(new) /\ CutStands(dns, new, size)  BY <1>1, <2>3, CutFits DEF q, room
  <2> QED BY <2>4 DEF size
<1> QED BY <1>2, <1>3, <1>4

-----------------------------------------------------------------------------
(* The specification.                                                      *)

\* Storing the response code does not change the length of the message.
LEMMA SentMsgLen ==
  ASSUME NEW d, IsMessage(d), NEW new, new = WithExtendedRcode(d)
  PROVE  MsgLen(new) = MsgLen(d)
<1>1. /\ isCompressible(new) = isCompressible(d)
      /\ \A valid : QuestionsLen(new, valid) = QuestionsLen(d, valid)
      /\ \A a : RecordsLen(Records(new), a) = RecordsLen(Records(d), a)
  BY SentLength
<1>2. new.Compress = d.Compress  BY SentMessage
<1>3. (new.Compress /\ isCompressible(new)) = (d.Compress /\ isCompressible(d))  BY <1>1, <1>2
<1> DEFINE valid == d.Compress /\ isCompressible(d)
<1>4. MsgLen(new) = msgLenWithCompressionMap(new, valid) /\ MsgLen(d) = msgLenWithCompressionMap(d, valid)
  BY <1>3, Zenon DEF MsgLen
<1> HIDE DEF valid
<1>5. msgLenWithCompressionMap(new, valid) = RecordsLen(Records(new), QuestionsLen(new, valid)).l
      /\ msgLenWithCompressionMap(d, valid) = RecordsLen(Records(d), QuestionsLen(d, valid)).l
  BY DEF msgLenWithCompressionMap, Records
<1> QED BY <1>1, <1>4, <1>5

\* A message that is packed or truncated is one whose records can be packed.
LEMMA SourceIsMessage ==
  ASSUME Source, wire = <<>>, cp = <<>>
  PROVE  IsMessage(m)
<1>1. CASE before = <<>>
  <2>1. PICK x \in Corpus : m = Message(x)  BY <1>1 DEF Source
  <2> QED BY <2>1, CorpusAssumption
<1>2. CASE before # <<>>
  <2>1. PICK x \in Corpus, size \in Sizes : m = truncated(Message(x), size)  BY <1>2 DEF Source
  <2>2. IsMessage(Message(x)) /\ OPTAtRoot(Message(x)) /\ size \in Int  BY CorpusAssumption, SizeAssumption
  <2> QED BY <2>1, <2>2, TruncatedFits
<1> QED BY <1>1, <1>2

\* The inductive invariant holds at first,
LEMMA IInvInit == Init => IInv
BY DEF Init, IInv, Source, CopyIsPair, WireIsSent

\* when a message is packed, with the code of WithExtendedRcode stored in it,
LEMMA PackKeeps ==
  ASSUME IInv, Pack
  PROVE  IInv'
<1>1. wire = <<>> /\ cp = <<>> /\ wire' = <<PackBuffer(m)>> /\ m' = WithExtendedRcode(m) /\ sent' = m' /\ cp' = cp /\ before' = before
  BY DEF Pack
<1>2. IsMessage(m)  BY <1>1, SourceIsMessage DEF IInv
<1>3. IsMessage(sent')  BY <1>1, <1>2, SentMessage
<1>4. PackBuffer(sent') = PackBuffer(m)  BY <1>1, <1>2, Repacked
<1>5. wire' = <<PackBuffer(sent')>> /\ wire' # <<>>  BY <1>1, <1>4
<1>6. WireIsSent' /\ CopyIsPair'  BY <1>1, <1>3, <1>5 DEF WireIsSent, CopyIsPair
<1>7. Source'  BY <1>1, <1>5 DEF IInv, Source
<1> QED BY <1>6, <1>7 DEF IInv

\* when it is truncated,
LEMMA TruncateKeeps ==
  ASSUME IInv, NEW size \in Sizes, Truncate(size)
  PROVE  IInv'
<1>1. /\ wire = <<>> /\ cp = <<>> /\ before = <<>> /\ m' = truncated(m, size) /\ before' = <<m, size>>
      /\ wire' = wire /\ cp' = cp /\ sent' = sent
  BY DEF Truncate
<1>2. PICK x \in Corpus : m = Message(x)  BY <1>1 DEF IInv, Source
<1>3. before' = <<Message(x), size>> /\ m' = truncated(Message(x), size) /\ before' # <<>>  BY <1>1, <1>2
<1>4. Source'  BY <1>1, <1>3 DEF Source
<1> QED BY <1>1, <1>4 DEF IInv, CopyIsPair, WireIsSent

\* when a field of it is overwritten behind a copy,
LEMMA ScribbleKeeps ==
  ASSUME IInv, NEW sec, NEW i, NEW x, Scribble(sec, i, x)
  PROVE  IInv'
<1>1. cp # <<>> /\ DOMAIN cp' = DOMAIN cp /\ wire' = wire /\ before' = before /\ sent' = sent  BY DEF Scribble
<1>2. DOMAIN cp = {1, 2} /\ DOMAIN cp' = {1, 2}  BY <1>1 DEF IInv, CopyIsPair
<1>3. cp' # <<>>
  <2>1. cp' = <<>> => DOMAIN cp' = {}  OBVIOUS
  <2> QED BY <1>2, <2>1
<1>4. before = <<>>  BY <1>1 DEF IInv, Source
<1> QED BY <1>1, <1>2, <1>3, <1>4 DEF IInv, Source, CopyIsPair, WireIsSent

\* and so at every step.
LEMMA IInvStep == IInv /\ [Next]_vars => IInv'
<1> SUFFICES ASSUME IInv, [Next]_vars PROVE IInv'  OBVIOUS
<1>1. ASSUME NEW size \in Sizes, Truncate(size) PROVE IInv'  BY <1>1, TruncateKeeps
<1>2. CASE Pack  BY <1>2, PackKeeps
<1>3. ASSUME NEW n, Receive(n) PROVE IInv'  BY <1>3 DEF Receive, IInv, Source, CopyIsPair, WireIsSent
<1>4. CASE CopyTo
  <2>1. wire = <<>> /\ before = <<>> /\ cp' = <<m, m>> /\ wire' = wire /\ before' = before /\ sent' = sent
    BY <1>4 DEF CopyTo
  <2>2. cp' # <<>> /\ DOMAIN cp' = {1, 2}  BY <2>1
  <2> QED BY <2>1, <2>2 DEF IInv, Source, CopyIsPair, WireIsSent
<1>5. ASSUME NEW sec, NEW i, NEW x, Scribble(sec, i, x) PROVE IInv'  BY <1>5, ScribbleKeeps
<1>6. CASE UNCHANGED vars  BY <1>6 DEF IInv, Source, CopyIsPair, WireIsSent, vars
<1> QED BY <1>1, <1>2, <1>3, <1>4, <1>5, <1>6 DEF Next

\* The inductive invariant.
LEMMA Invariance == Spec => []IInv
<1>1. IInv /\ [Next]_vars => IInv'  BY IInvStep
<1> QED BY <1>1, IInvInit, PTL DEF Spec

\* The length that Msg.Len and Pack compute without packing covers what PackBuffer
\* writes, for every message whose records the types allow: the buffer of the length
\* without compression never runs out, Pack fails only for a response code that the
\* message cannot carry, and Len never promises fewer octets than Pack returns.
THEOREM LengthCovers == Spec => []LengthCoversPack
<1>1. ASSUME IInv PROVE LengthCoversPack
  <2> SUFFICES ASSUME wire # <<>>
               PROVE  /\ wire[1].err = (sent.Rcode \notin 0..(IF IsEdns0(sent) = 0 THEN 15 ELSE 4095))
                      /\ ~wire[1].err => Len(wire[1].msg) <= MsgLen(sent)
    BY DEF LengthCoversPack
  <2> DEFINE q == PackBuffer(sent)
  <2>1. IsMessage(sent) /\ wire[1] = q  BY <1>1 DEF IInv, WireIsSent
  <2> HIDE DEF q
  <2>2. /\ Refused(sent) => q.err = TRUE
        /\ ~Refused(sent) => q.err = FALSE /\ Len(q.msg) <= MsgLen(WithExtendedRcode(sent))
    BY <2>1, PackHolds DEF q
  <2>3. Refused(sent) <=> sent.Rcode \notin Codes(IsEdns0(sent))  BY <2>1, RefusedCodes
  <2>4. MsgLen(WithExtendedRcode(sent)) = MsgLen(sent)  BY <2>1, SentMsgLen
  <2> DEFINE codes == 0..(IF IsEdns0(sent) = 0 THEN 15 ELSE 4095)
  <2>5. Codes(IsEdns0(sent)) = codes  BY Zenon DEF Codes
  <2> HIDE DEF codes
  <2>6. wire[1].err = (sent.Rcode \notin codes)
    <3>1. CASE Refused(sent)  BY <2>1, <2>2, <2>3, <2>5, <3>1
    <3>2. CASE ~Refused(sent)  BY <2>1, <2>2, <2>3, <2>5, <3>2
    <3> QED BY <3>1, <3>2
  <2>7. ~q.err => Len(q.msg) <= MsgLen(sent)  BY <2>2, <2>4
  <2>8. wire[1].err = (sent.Rcode \notin 0..(IF IsEdns0(sent) = 0 THEN 15 ELSE 4095))
    BY <2>6, Zenon DEF codes
  <2>9. ~wire[1].err => Len(wire[1].msg) <= MsgLen(sent)  BY <2>1, <2>7
  <2> QED BY <2>8, <2>9, Zenon
<1> QED BY <1>1, Invariance, PTL

\* Every entry of the compression map that packDomainName builds is an offset that a
\* 14-bit pointer can hold, where the finished message spells the name within the limits
\* that UnpackDomainName sets on octets and pointers.
THEOREM MapIsTrue == Spec => []CompressionMapIsTrue
<1>1. ASSUME IInv PROVE CompressionMapIsTrue
  <2> SUFFICES ASSUME Packed, NEW s \in DOMAIN wire[1].comp
               PROVE  LET at == wire[1].comp[s]
                          name == UnpackDomainName(wire[1].msg, at)
                      IN  at < maxCompressionOffset /\ ~name.err /\ name.v = s
    BY DEF CompressionMapIsTrue
  <2> DEFINE q == PackBuffer(sent)
             at == q.comp[s]
  <2>1. IsMessage(sent) /\ wire[1] = q /\ ~q.err  BY <1>1 DEF IInv, WireIsSent, Packed
  <2> HIDE DEF q
  <2>2. IsSeq(q.msg) /\ TrueMap(q, {})  BY <2>1, PackHolds DEF q
  <2>3. IsName(s) /\ at \in Nat /\ at < maxCompressionOffset /\ Spelled(q.msg, {}, s, at)
    BY <2>1, <2>2 DEF TrueMap
  <2>4. ~UnpackDomainName(q.msg, at).err /\ UnpackDomainName(q.msg, at).v = s  BY <2>2, <2>3, Decoded
  <2> QED BY <2>1, <2>3, <2>4
<1> QED BY <1>1, Invariance, PTL

\* Truncate keeps its promise: unless no record is left, the cut message packs to the
\* size asked for; the records kept are the first ones of each section, the OPT record
\* among them whatever the size; TC tells whether any were dropped; and one more record
\* would not have fitted.
THEOREM TruncationFits == Spec => []TruncateFits
<1>1. ASSUME IInv PROVE TruncateFits
  <2>1. CASE before # <<>> /\ wire = <<>>
    <3>1. PICK x \in Corpus, size \in Sizes : before = <<Message(x), size>> /\ m = truncated(Message(x), size)
      BY <1>1, <2>1 DEF IInv, Source
    <3> DEFINE o == Message(x)
    <3>2. IsMessage(o) /\ OPTAtRoot(o) /\ size \in Int  BY CorpusAssumption, SizeAssumption
    <3>3. before[1] = o /\ before[2] = size /\ m = truncated(o, size)  BY <3>1
    <3> HIDE DEF o
    <3>4. IsTsig(o) \/ CutStands(o, m, Max({size, MinMsgSize}))  BY <3>2, <3>3, TruncatedFits
    <3>5. IsTsig(before[1]) \/ CutStands(before[1], m, Max({before[2], MinMsgSize}))  BY <3>3, <3>4
    <3> QED BY <3>5, Zenon DEF TruncateFits, CutStands
  <2>2. CASE ~(before # <<>> /\ wire = <<>>)  BY <2>2, Zenon DEF TruncateFits
  <2> QED BY <2>1, <2>2
<1> QED BY <1>1, Invariance, PTL
=============================================================================
