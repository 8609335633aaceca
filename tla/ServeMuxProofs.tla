---------------------------- MODULE ServeMuxProofs ----------------------------
(***************************************************************************)
(* Proofs about the table of ServeMux, for any labels, spellings and       *)
(* handlers, and about what match finds in it, by induction over the       *)
(* labels of the name.                                                     *)
(***************************************************************************)
EXTENDS ServeMux, WellFoundedInduction, TLAPS

\* A canonical name is made of lower-case labels, as many as the name has.
LEMMA CanonicalType ==
  ASSUME NEW p \in Names
  PROVE  CanonicalName(p) \in BoundedSeq({x \in Labels : Lower[x] = x}, MaxLabels)
<1>1. PICK m \in 0..MaxLabels : p.labels \in [1..m -> Labels]
  BY DEF Names, BoundedSeq, SeqOf
<1>2. CanonicalName(p) \in [1..m -> {x \in Labels : Lower[x] = x}]
  BY <1>1, ServeMuxAssumption DEF CanonicalName
<1> QED BY <1>2 DEF BoundedSeq, SeqOf

\* Two names are spellings of one name when CanonicalName maps them to one key.
LEMMA SameNameIsSameKey ==
  ASSUME NEW p \in Names, NEW q \in Names
  PROVE  SameName(p, q) <=> CanonicalName(p) = CanonicalName(q)
<1>1. PICK k \in 0..MaxLabels : p.labels \in [1..k -> Labels]
  BY DEF Names, BoundedSeq, SeqOf
<1>2. PICK m \in 0..MaxLabels : q.labels \in [1..m -> Labels]
  BY DEF Names, BoundedSeq, SeqOf
<1>3. Len(p.labels) = k /\ Len(q.labels) = m /\ k \in Nat /\ m \in Nat
  BY <1>1, <1>2, ServeMuxAssumption
<1>4. ASSUME SameName(p, q) PROVE CanonicalName(p) = CanonicalName(q)
  BY <1>1, <1>2, <1>3, <1>4 DEF SameName, CanonicalName
<1>5. ASSUME CanonicalName(p) = CanonicalName(q) PROVE SameName(p, q)
  <2>1. DOMAIN CanonicalName(p) = 1..k /\ DOMAIN CanonicalName(q) = 1..m
    BY <1>1, <1>2 DEF CanonicalName
  <2>2. k = m
    BY <1>3, <1>5, <2>1
  <2>3. \A i \in 1..k : /\ CanonicalName(p)[i] = Lower[p.labels[i]]
                       /\ CanonicalName(q)[i] = Lower[q.labels[i]]
    BY <1>1, <1>2, <2>2 DEF CanonicalName
  <2> QED BY <1>1, <1>3, <1>5, <2>2, <2>3 DEF SameName
<1> QED BY <1>4, <1>5

-----------------------------------------------------------------------------
\* The table has exactly the registrations in force: whatever spelling a pattern
\* was registered, replaced or removed with.
TableIsRegistrations ==
  /\ \A e \in reg : /\ CanonicalName(e[1]) \in DOMAIN z
                    /\ z[CanonicalName(e[1])] = e[2]
  /\ \A key \in DOMAIN z : \E e \in reg : CanonicalName(e[1]) = key

IInv == TypeOK /\ TableIsRegistrations

\* An empty table, and nothing registered.
LEMMA IInvInit == Init => IInv
BY DEF Init, IInv, TypeOK, TableIsRegistrations

\* Handle and HandleRemove keep the table and the registrations in step.
LEMMA IInvStep == IInv /\ [Next]_vars => IInv'
<1> SUFFICES ASSUME IInv, [Next]_vars PROVE IInv'
  OBVIOUS
<1> USE DEF IInv, TypeOK, TableIsRegistrations
<1>1. ASSUME NEW p \in Patterns, NEW e \in reg
      PROVE  SameName(e[1], p) <=> CanonicalName(e[1]) = CanonicalName(p)
  <2>1. p \in Names /\ e[1] \in Names
    BY DEF Patterns
  <2> QED BY <2>1, SameNameIsSameKey
<1>2. ASSUME NEW p \in Patterns, HandleRemove(p) PROVE IInv'
  <2>1. TypeOK'
    BY <1>2 DEF HandleRemove
  <2>2. TableIsRegistrations'
    BY <1>1, <1>2 DEF HandleRemove
  <2> QED BY <2>1, <2>2
<1>3. ASSUME NEW p \in Patterns, NEW h \in Handlers, Handle(p, h) PROVE IInv'
  <2> DEFINE key == CanonicalName(p)
  <2>1. /\ z' = [n \in DOMAIN z \cup {key} |-> IF n = key THEN h ELSE z[n]]
        /\ reg' = {e \in reg : ~ SameName(e[1], p)} \cup {<<p, h>>}
    BY <1>3 DEF Handle
  <2>2. key \in BoundedSeq({x \in Labels : Lower[x] = x}, MaxLabels)
    BY CanonicalType DEF Patterns
  <2>3. <<p, h>>[1] = p /\ <<p, h>>[2] = h /\ CanonicalName(<<p, h>>[1]) = key
    OBVIOUS
  <2> HIDE DEF key
  <2>4. TypeOK'
    <3>1. DOMAIN z' = DOMAIN z \cup {key} /\ \A n \in DOMAIN z' : z'[n] \in Handlers
      BY <2>1
    <3>2. reg' \subseteq Patterns \X Handlers
      BY <2>1
    <3> QED BY <2>2, <3>1, <3>2
  <2>5. ASSUME NEW e \in reg'
        PROVE  CanonicalName(e[1]) \in DOMAIN z' /\ z'[CanonicalName(e[1])] = e[2]
    <3>1. CASE e = <<p, h>>
      BY <2>1, <2>3, <3>1
    <3>2. CASE e \in reg /\ ~ SameName(e[1], p)
      BY <1>1, <2>1, <3>2 DEF key
    <3> QED BY <2>1, <3>1, <3>2
  <2>6. ASSUME NEW k \in DOMAIN z' PROVE \E e \in reg' : CanonicalName(e[1]) = k
    <3>1. CASE k = key
      BY <2>1, <2>3, <3>1
    <3>2. CASE k \in DOMAIN z /\ k # key
      BY <1>1, <2>1, <3>2 DEF key
    <3> QED BY <2>1, <3>1, <3>2
  <2> QED BY <2>4, <2>5, <2>6
<1>4. CASE UNCHANGED vars
  BY <1>4 DEF vars
<1> QED BY <1>2, <1>3, <1>4 DEF Next

\* The keys of mux.z are canonical, so that match, which looks up canonical names
\* only, can find every one of them.
THEOREM TypeCorrect == Spec => []TypeOK
<1>1. IInv => TypeOK
  BY DEF IInv
<1> QED BY <1>1, IInvInit, IInvStep, PTL DEF Spec

\* Handle replaces and HandleRemove removes what was registered under any spelling
\* of the pattern: mux.z is the registrations in force, one entry for each name.
THEOREM TableIsExact == Spec => []TableIsRegistrations
<1>1. IInv => TableIsRegistrations
  BY DEF IInv
<1> QED BY <1>1, IInvInit, IInvStep, PTL DEF Spec

-----------------------------------------------------------------------------
(* The loop of match, by induction: a counterexample would have a least one. *)

\* A set of numbers that is not empty has a least one.
LEMMA Least ==
  ASSUME NEW T, T \subseteq Nat, T # {}
  PROVE  \E n \in T : \A m \in T : n <= m
<1>1. PICK n \in T : \A m \in T : <<m, n>> \notin OpToRel(<, Nat)
  BY WFMin, NatLessThanWellFounded
<1>2. \A m \in T : ~ (m < n)
  BY <1>1 DEF OpToRel
<1> QED BY <1>2

\* And one that is bounded has a greatest.
LEMMA Greatest ==
  ASSUME NEW b \in Nat, NEW T, T \subseteq 0..b, T # {}
  PROVE  \E n \in T : \A m \in T : m <= n
<1> DEFINE U == {b - m : m \in T}
<1>1. U \subseteq Nat /\ U # {}
  <2>1. PICK t \in T : TRUE
    OBVIOUS
  <2>2. b - t \in U
    BY <2>1
  <2> QED BY <2>2
<1>2. PICK u \in U : \A v \in U : u <= v
  BY <1>1, Least
<1>3. PICK n \in T : u = b - n
  OBVIOUS
<1>4. ASSUME NEW m \in T PROVE m <= n
  <2>1. b - m \in U
    OBVIOUS
  <2> QED BY <1>2, <1>3, <2>1
<1> QED BY <1>4

\* The last iteration of the loop over the labels of q.
LastLabel(q) == IF q = <<>> THEN 0 ELSE Len(q) - 1

\* The iterations from k on that find a handler.
HitsFrom(q, k) == {j \in k..LastLabel(q) : At(From(q, j)) # None}

\* The one whose handler counts: the first, or for DS the last.
Best(q, ds, k) ==
  CHOOSE j \in HitsFrom(q, k) : \A i \in HitsFrom(q, k) : IF ds THEN i <= j ELSE j <= i

LEMMA BestExists ==
  ASSUME NEW q, LastLabel(q) \in Nat, NEW ds \in BOOLEAN, NEW k \in Nat,
         HitsFrom(q, k) # {}
  PROVE  /\ Best(q, ds, k) \in HitsFrom(q, k)
         /\ \A i \in HitsFrom(q, k) : IF ds THEN i <= Best(q, ds, k) ELSE Best(q, ds, k) <= i
<1> DEFINE H == HitsFrom(q, k)
<1>1. H \subseteq 0..LastLabel(q) /\ H \subseteq Nat
  BY DEF HitsFrom
<1> HIDE DEF H
<1>2. \E j \in H : \A i \in H : IF ds THEN i <= j ELSE j <= i
  <2>1. CASE ds
    BY <1>1, <2>1, Greatest DEF H
  <2>2. CASE ~ ds
    BY <1>1, <2>2, Least DEF H
  <2> QED BY <2>1, <2>2
<1> QED BY <1>2 DEF H, Best

\* What the iterations from k on find.
Found(q, ds, k) == IF HitsFrom(q, k) = {} THEN None ELSE At(From(q, Best(q, ds, k)))

\* One iteration, given what the later ones find.
LEMMA FoundStep ==
  ASSUME NEW q, LastLabel(q) \in Nat, NEW ds \in BOOLEAN, NEW k \in 0..LastLabel(q)
  PROVE  Found(q, ds, k) =
           IF At(From(q, k)) = None \/ (ds /\ Found(q, ds, k + 1) # None)
           THEN Found(q, ds, k + 1) ELSE At(From(q, k))
<1> DEFINE H == HitsFrom(q, k)
           H1 == HitsFrom(q, k + 1)
           b == Best(q, ds, k)
           b1 == Best(q, ds, k + 1)
<1>1. H = IF At(From(q, k)) = None THEN H1 ELSE H1 \cup {k}
  BY DEF HitsFrom
<1>2. H1 \subseteq (k + 1)..LastLabel(q) /\ \A j \in H1 : At(From(q, j)) # None
  BY DEF HitsFrom
<1>3. H # {} => b \in H /\ \A i \in H : IF ds THEN i <= b ELSE b <= i
  BY BestExists
<1>4. H1 # {} => b1 \in H1 /\ \A i \in H1 : IF ds THEN i <= b1 ELSE b1 <= i
  BY BestExists
<1>5. Found(q, ds, k) = (IF H = {} THEN None ELSE At(From(q, b)))
  BY DEF Found
<1>6. Found(q, ds, k + 1) = (IF H1 = {} THEN None ELSE At(From(q, b1)))
  BY DEF Found
<1>7. At(From(q, k)) = None => H = H1 /\ (H # {} => b = b1)
  BY <1>1 DEF Best
<1> HIDE DEF H, H1, b, b1
<1>8. Found(q, ds, k + 1) # None <=> H1 # {}
  BY <1>2, <1>4, <1>6
<1>9. CASE At(From(q, k)) = None
  BY <1>5, <1>6, <1>7, <1>9
<1>10. CASE At(From(q, k)) # None /\ ds /\ H1 # {}
  <2>1. b \in H /\ b1 \in H1 /\ b1 \in H
    BY <1>1, <1>3, <1>4, <1>10
  <2>2. b1 <= b /\ b # k
    BY <1>2, <1>3, <1>10, <2>1
  <2>3. b \in H1 /\ b <= b1
    BY <1>1, <1>4, <1>10, <2>1, <2>2
  <2>4. b = b1
    BY <1>2, <2>1, <2>2, <2>3
  <2> QED BY <1>5, <1>6, <1>8, <1>10, <2>1, <2>4
<1>11. CASE At(From(q, k)) # None /\ ~ (ds /\ H1 # {})
  <2>1. k \in H /\ b \in H
    BY <1>1, <1>3, <1>11
  <2>2. b = k
    BY <1>1, <1>2, <1>3, <1>11, <2>1
  <2> QED BY <1>5, <1>8, <1>11, <2>1, <2>2
<1> QED BY <1>9, <1>10, <1>11

\* The loop finds what the first iteration that has a handler finds, for DS the
\* last.
LEMMA LoopFinds ==
  ASSUME NEW q, LastLabel(q) \in Nat, NEW ds \in BOOLEAN
  PROVE  Loop(q, ds) = Found(q, ds, 0)
<1> DEFINE last == LastLabel(q)
           F(f) == [k \in 0..(last + 1) |->
                      IF k > last THEN None
                      ELSE IF At(From(q, k)) = None \/ (ds /\ f[k + 1] # None)
                           THEN f[k + 1] ELSE At(From(q, k))]
           W == [k \in 0..(last + 1) |-> Found(q, ds, k)]
           loop == CHOOSE f : f = F(f)
<1>1. W = F(W)
  <2>1. ASSUME NEW k \in 0..(last + 1) PROVE W[k] = F(W)[k]
    <3>1. CASE k > last
      BY <3>1 DEF Found, HitsFrom
    <3>2. CASE ~ (k > last)
      <4>1. k \in 0..LastLabel(q) /\ k + 1 \in 0..(last + 1)
        BY <3>2
      <4> QED BY <3>2, <4>1, FoundStep
    <3> QED BY <3>1, <3>2
  <2> QED BY <2>1
<1>2. loop = F(loop)
  BY <1>1
<1>3. Loop(q, ds) = loop[0]
  BY DEF Loop, LastLabel
<1> HIDE DEF loop
<1>4. \A k \in 0..(last + 1) : loop[k] = W[k]
  <2> DEFINE T == {j \in 0..(last + 1) : loop[last + 1 - j] # W[last + 1 - j]}
  <2>1. SUFFICES ASSUME T # {} PROVE FALSE
    <3>1. SUFFICES ASSUME NEW k \in 0..(last + 1) PROVE loop[k] = W[k]
      OBVIOUS
    <3>2. last + 1 - k \in 0..(last + 1) /\ last + 1 - (last + 1 - k) = k
      OBVIOUS
    <3> QED BY <2>1, <3>2
  <2>2. PICK j \in T : \A i \in T : j <= i
    <3>1. T \subseteq Nat
      OBVIOUS
    <3> HIDE DEF T
    <3> QED BY <2>1, <3>1, Least
  <2> DEFINE k == last + 1 - j
  <2>3. k \in 0..(last + 1) /\ loop[k] # W[k]
    OBVIOUS
  <2>4. CASE k > last
    BY <1>1, <1>2, <2>3, <2>4
  <2>5. CASE ~ (k > last)
    <3>1. j - 1 \notin T /\ j - 1 \in 0..(last + 1) /\ last + 1 - (j - 1) = k + 1
      BY <2>2, <2>5
    <3>2. loop[k + 1] = W[k + 1]
      BY <3>1
    <3>3. loop[k] = F(loop)[k] /\ W[k] = F(W)[k]
      BY <1>1, <1>2, Zenon
    <3> HIDE DEF W, k
    <3>4. F(loop)[k] = F(W)[k]
      BY <2>3, <2>5, <3>2
    <3> QED BY <2>3, <3>3, <3>4
  <2> QED BY <2>4, <2>5
<1> QED BY <1>3, <1>4

-----------------------------------------------------------------------------
(* match against the registrations.                                        *)

\* The canonical form of a name keeps its number of labels.
LEMMA CanonicalLen ==
  ASSUME NEW p \in Names
  PROVE  /\ CanonicalName(p) \in Seq(Labels)
         /\ p.labels \in Seq(Labels)
         /\ Len(CanonicalName(p)) = Len(p.labels)
         /\ Len(p.labels) \in 0..MaxLabels
         /\ \A i \in 1..Len(p.labels) : CanonicalName(p)[i] = Lower[p.labels[i]]
<1>1. PICK m \in 0..MaxLabels : p.labels \in [1..m -> Labels]
  BY DEF Names, BoundedSeq, SeqOf
<1>2. m \in Nat /\ p.labels \in Seq(Labels) /\ Len(p.labels) = m
  BY <1>1, ServeMuxAssumption
<1>3. CanonicalName(p) \in [1..m -> Labels]
  BY <1>1, ServeMuxAssumption DEF CanonicalName
<1>4. CanonicalName(p) \in Seq(Labels) /\ Len(CanonicalName(p)) = m
  BY <1>2, <1>3
<1>5. \A i \in 1..m : CanonicalName(p)[i] = Lower[p.labels[i]]
  BY <1>1 DEF CanonicalName
<1> QED BY <1>1, <1>2, <1>4, <1>5

\* What From cuts off.
LEMMA FromLen ==
  ASSUME NEW q \in Seq(Labels), NEW k \in 0..Len(q)
  PROVE  /\ From(q, k) \in Seq(Labels)
         /\ Len(From(q, k)) = Len(q) - k
         /\ \A i \in 1..(Len(q) - k) : From(q, k)[i] = q[k + i]
         /\ k = Len(q) => From(q, k) = <<>>
<1>1. Len(q) \in Nat /\ \A i \in (k + 1)..Len(q) : q[i] \in Labels
  OBVIOUS
<1>2. From(q, k) \in Seq(Labels) /\ Len(From(q, k)) = Len(q) - k
  BY <1>1 DEF From
<1>3. \A i \in 1..(Len(q) - k) : From(q, k)[i] = q[k + i]
  BY <1>1 DEF From
<1>4. k = Len(q) => From(q, k) = <<>>
  BY <1>1, <1>2
<1> QED BY <1>2, <1>3, <1>4

\* The numbers of labels to cut off q that leave a key of the table.
Zones(q) == {k \in 0..Len(q) : From(q, k) \in DOMAIN z}

\* match finds the key with the fewest labels cut off, for DS the most.
LEMMA MatchFinds ==
  ASSUME TypeOK, NEW name \in Names, NEW ds \in BOOLEAN,
         NEW q, q = CanonicalName(name)
  PROVE  IF Zones(q) = {} THEN match(name, ds) = None
         ELSE \E k \in Zones(q) : /\ match(name, ds) = z[From(q, k)]
                                  /\ \A i \in Zones(q) : IF ds THEN i <= k ELSE k <= i
<1>1. q \in Seq(Labels) /\ Len(q) \in Nat /\ LastLabel(q) \in Nat
  BY CanonicalLen DEF LastLabel
<1>2. \A n : (At(n) # None <=> n \in DOMAIN z) /\ (n \in DOMAIN z => At(n) = z[n])
  BY ServeMuxAssumption DEF TypeOK, At
<1>3. From(q, Len(q)) = <<>>
  BY <1>1, FromLen
<1>4. match(name, ds) =
        IF (Found(q, ds, 0) # None /\ ~ ds) \/ At(<<>>) = None THEN Found(q, ds, 0) ELSE At(<<>>)
  BY <1>1, LoopFinds DEF match
<1> DEFINE H == HitsFrom(q, 0)
           b == Best(q, ds, 0)
<1>5. H # {} => b \in H /\ \A i \in H : IF ds THEN i <= b ELSE b <= i
  BY <1>1, BestExists
<1>6. Found(q, ds, 0) = (IF H = {} THEN None ELSE At(From(q, b)))
  BY DEF Found
<1>7. H = {k \in 0..LastLabel(q) : From(q, k) \in DOMAIN z}
  BY <1>2 DEF HitsFrom
<1> HIDE DEF H, b
<1>8. H # {} => Found(q, ds, 0) = z[From(q, b)] /\ Found(q, ds, 0) # None
  BY <1>2, <1>5, <1>6, <1>7
<1>9. CASE q = <<>>
  <2>1. LastLabel(q) = 0 /\ Len(q) = 0
    BY <1>9 DEF LastLabel
  <2>2. Zones(q) = H
    BY <1>7, <2>1 DEF Zones
  <2>3. CASE H = {}
    <3>1. <<>> \notin DOMAIN z
      BY <1>3, <2>1, <2>2, <2>3 DEF Zones
    <3> QED BY <1>2, <1>4, <1>6, <2>2, <2>3, <3>1
  <2>4. CASE H # {}
    <3>1. b \in H /\ b = 0 /\ From(q, b) = <<>>
      BY <1>3, <1>5, <1>7, <2>1, <2>4
    <3>2. match(name, ds) = z[From(q, b)]
      BY <1>2, <1>4, <1>7, <1>8, <2>4, <3>1
    <3>3. \A i \in Zones(q) : IF ds THEN i <= b ELSE b <= i
      BY <1>5, <2>2, <2>4
    <3> QED BY <2>2, <3>1, <3>2, <3>3
  <2> QED BY <2>3, <2>4
<1>10. CASE q # <<>>
  <2>1. LastLabel(q) = Len(q) - 1 /\ Len(q) > 0
    BY <1>1, <1>10 DEF LastLabel
  <2>2. Zones(q) = IF <<>> \in DOMAIN z THEN H \cup {Len(q)} ELSE H
    BY <1>1, <1>3, <1>7, <2>1 DEF Zones
  <2>3. H \subseteq 0..(Len(q) - 1)
    BY <1>7, <2>1
  <2>4. CASE <<>> \in DOMAIN z /\ (ds \/ H = {})
    <3>1. match(name, ds) = z[From(q, Len(q))]
      BY <1>2, <1>3, <1>4, <1>6, <2>4
    <3>2. Len(q) \in Zones(q)
      BY <2>2, <2>4
    <3>3. ASSUME NEW i \in Zones(q) PROVE IF ds THEN i <= Len(q) ELSE Len(q) <= i
      <4>1. i <= Len(q)
        BY <1>1 DEF Zones
      <4>2. ~ ds => i = Len(q)
        BY <2>2, <2>4
      <4> QED BY <1>1, <4>1, <4>2
    <3> QED BY <3>1, <3>2, <3>3
  <2>5. CASE H # {} /\ (<<>> \notin DOMAIN z \/ ~ ds)
    <3>1. match(name, ds) = z[From(q, b)]
      BY <1>2, <1>4, <1>8, <2>5
    <3>2. b \in Zones(q)
      BY <1>5, <2>2, <2>5
    <3>3. ASSUME NEW i \in Zones(q) PROVE IF ds THEN i <= b ELSE b <= i
      <4>1. CASE i \in H
        BY <1>5, <2>5, <4>1
      <4>2. CASE i \notin H
        <5>1. i = Len(q) /\ ~ ds
          BY <2>2, <2>5, <4>2
        <5>2. b \in 0..(Len(q) - 1)
          BY <1>5, <2>3, <2>5
        <5> QED BY <1>1, <5>1, <5>2
      <4> QED BY <4>1, <4>2
    <3> QED BY <3>1, <3>2, <3>3
  <2>6. CASE H = {} /\ <<>> \notin DOMAIN z
    BY <1>2, <1>4, <1>6, <2>2, <2>6
  <2> QED BY <2>4, <2>5, <2>6
<1> QED BY <1>9, <1>10

\* A pattern encloses a name when its key is the name's with labels cut off.
LEMMA EnclosesIsSuffix ==
  ASSUME NEW p \in Names, NEW name \in Names, NEW q, q = CanonicalName(name)
  PROVE  Encloses(p, name) <=>
           \E k \in 0..Len(q) : k = Len(q) - Len(p.labels) /\ CanonicalName(p) = From(q, k)
<1> DEFINE n == Len(p.labels)
           m == Len(name.labels)
           sub == [name EXCEPT !.labels = SubSeq(@, m - n + 1, m)]
<1>1. /\ n \in 0..MaxLabels /\ m \in 0..MaxLabels /\ Len(q) = m /\ q \in Seq(Labels)
      /\ name.labels \in Seq(Labels)
      /\ \A i \in 1..m : q[i] = Lower[name.labels[i]]
  BY CanonicalLen
<1>2. MaxLabels \in Nat
  BY ServeMuxAssumption
<1> HIDE DEF n, m
<1>3. Encloses(p, name) <=> n <= m /\ SameName(p, sub)
  BY DEF Encloses, n, m
<1>4. ASSUME n <= m PROVE SameName(p, sub) <=> CanonicalName(p) = From(q, m - n)
  <2> DEFINE k == m - n
             cut == From(name.labels, k)
  <2>1. k \in 0..m /\ m - k = n /\ Len(name.labels) = m
    BY <1>1, <1>2, <1>4 DEF m
  <2>2. sub = [name EXCEPT !.labels = cut]
    BY <1>1 DEF From, m
  <2> HIDE DEF k, sub
  <2>3. cut \in Seq(Labels) /\ Len(cut) = n /\ \A i \in 1..n : cut[i] = name.labels[k + i]
    <3>1. k \in 0..Len(name.labels) /\ Len(name.labels) - k = n
      BY <2>1
    <3> QED BY <1>1, <3>1, FromLen
  <2>4. /\ From(q, k) \in Seq(Labels) /\ Len(From(q, k)) = n
        /\ \A i \in 1..n : From(q, k)[i] = q[k + i]
    <3>1. k \in 0..Len(q) /\ Len(q) - k = n
      BY <1>1, <2>1
    <3> QED BY <1>1, <3>1, FromLen
  <2> HIDE DEF cut
  <2>5. cut \in [1..n -> Labels]
    BY <1>1, <2>3
  <2>6. cut \in BoundedSeq(Labels, MaxLabels)
    BY <1>1, <2>5 DEF BoundedSeq, SeqOf
  <2>7. sub.labels = cut /\ sub \in Names
    BY <2>2, <2>6 DEF Names
  <2>8. /\ CanonicalName(sub) \in Seq(Labels) /\ Len(CanonicalName(sub)) = n
        /\ \A i \in 1..n : CanonicalName(sub)[i] = Lower[cut[i]]
    BY <2>3, <2>7, CanonicalLen
  <2>9. ASSUME NEW i \in 1..n PROVE CanonicalName(sub)[i] = From(q, k)[i]
    <3>1. k + i \in 1..m
      BY <1>1, <1>2, <2>1
    <3> QED BY <1>1, <2>3, <2>4, <2>8, <3>1
  <2>10. CanonicalName(sub) = From(q, k)
    BY <2>4, <2>8, <2>9
  <2> QED BY <2>7, <2>10, SameNameIsSameKey DEF k
<1>5. (\E k \in 0..Len(q) : k = Len(q) - n /\ CanonicalName(p) = From(q, k)) <=>
      n <= m /\ CanonicalName(p) = From(q, m - n)
  BY <1>1, <1>2
<1> QED BY <1>3, <1>4, <1>5 DEF n

\* The registrations that enclose a name are the keys that match tries, and the
\* handlers are those of the keys.
LEMMA EnclosingAreZones ==
  ASSUME IInv, NEW name \in Names, NEW q, q = CanonicalName(name)
  PROVE  /\ \A e \in Enclosing(name) :
              /\ Len(q) - Len(e[1].labels) \in Zones(q)
              /\ z[From(q, Len(q) - Len(e[1].labels))] = e[2]
              /\ Len(e[1].labels) \in Nat
         /\ \A k \in Zones(q) : \E e \in Enclosing(name) :
              Len(e[1].labels) = Len(q) - k /\ e[2] = z[From(q, k)]
         /\ Len(q) = Len(name.labels) /\ Len(q) \in Nat
<1>1. q \in Seq(Labels) /\ Len(q) = Len(name.labels) /\ Len(q) \in Nat
  BY CanonicalLen
<1>2. ASSUME NEW e \in reg
      PROVE  /\ e[1] \in Names /\ Len(e[1].labels) \in Nat
             /\ CanonicalName(e[1]) \in DOMAIN z /\ z[CanonicalName(e[1])] = e[2]
             /\ Len(CanonicalName(e[1])) = Len(e[1].labels)
  <2>1. e[1] \in Names
    BY DEF IInv, TypeOK, Patterns
  <2> QED BY <2>1, CanonicalLen, ServeMuxAssumption DEF IInv, TableIsRegistrations
<1>3. ASSUME NEW e \in Enclosing(name)
      PROVE  /\ Len(q) - Len(e[1].labels) \in Zones(q)
             /\ z[From(q, Len(q) - Len(e[1].labels))] = e[2]
             /\ Len(e[1].labels) \in Nat
  <2>1. e \in reg /\ Encloses(e[1], name)
    BY DEF Enclosing
  <2>2. PICK k \in 0..Len(q) :
          k = Len(q) - Len(e[1].labels) /\ CanonicalName(e[1]) = From(q, k)
    BY <1>2, <2>1, EnclosesIsSuffix
  <2> QED BY <1>2, <2>1, <2>2 DEF Zones
<1>4. ASSUME NEW k \in Zones(q)
      PROVE  \E e \in Enclosing(name) :
               Len(e[1].labels) = Len(q) - k /\ e[2] = z[From(q, k)]
  <2>1. k \in 0..Len(q) /\ From(q, k) \in DOMAIN z
    BY DEF Zones
  <2>2. PICK e \in reg : CanonicalName(e[1]) = From(q, k)
    BY <2>1 DEF IInv, TableIsRegistrations
  <2>3. Len(e[1].labels) = Len(q) - k /\ e[2] = z[From(q, k)]
    BY <1>1, <1>2, <2>1, <2>2, FromLen
  <2>4. k = Len(q) - Len(e[1].labels)
    BY <1>1, <2>1, <2>3
  <2>5. Encloses(e[1], name)
    BY <1>2, <2>1, <2>2, <2>4, EnclosesIsSuffix
  <2> QED BY <2>2, <2>3, <2>5 DEF Enclosing
<1> QED BY <1>1, <1>3, <1>4

\* The handler of the key with the fewest labels cut off is that of the closest
\* registration, and of no other.
LEMMA ClosestIsFewest ==
  ASSUME IInv, NEW name \in Names, NEW q, q = CanonicalName(name),
         NEW k \in Zones(q), \A i \in Zones(q) : k <= i
  PROVE  Closest(Enclosing(name)) = {z[From(q, k)]}
<1> DEFINE es == Enclosing(name)
<1>1. /\ \A e \in es : /\ Len(q) - Len(e[1].labels) \in Zones(q)
                       /\ z[From(q, Len(q) - Len(e[1].labels))] = e[2]
                       /\ Len(e[1].labels) \in Nat
      /\ \A i \in Zones(q) : \E e \in es : Len(e[1].labels) = Len(q) - i /\ e[2] = z[From(q, i)]
      /\ Len(q) \in Nat
  BY EnclosingAreZones
<1>2. k \in 0..Len(q)
  BY DEF Zones
<1> HIDE DEF es
<1>3. PICK e \in es : Len(e[1].labels) = Len(q) - k /\ e[2] = z[From(q, k)]
  BY <1>1
<1>4. ASSUME NEW g \in es PROVE Len(g[1].labels) <= Len(q) - k
  <2>1. k <= Len(q) - Len(g[1].labels)
    BY <1>1
  <2> QED BY <1>1, <1>2, <2>1
<1>5. z[From(q, k)] \in Closest(es)
  BY <1>3, <1>4 DEF Closest
<1>6. ASSUME NEW h \in Closest(es) PROVE h = z[From(q, k)]
  <2>1. PICK f \in es : /\ h = f[2]
                        /\ \A g \in es : Len(g[1].labels) <= Len(f[1].labels)
    BY DEF Closest
  <2>2. Len(f[1].labels) = Len(q) - k
    <3>1. Len(f[1].labels) <= Len(q) - k /\ Len(q) - k <= Len(f[1].labels)
      BY <1>3, <1>4, <2>1
    <3> QED BY <1>1, <1>2, <3>1
  <2>3. Len(q) - Len(f[1].labels) = k
    BY <1>1, <1>2, <2>2
  <2> QED BY <1>1, <2>1, <2>3
<1> QED BY <1>5, <1>6 DEF es

\* The mux "calls the handler for the pattern that most closely matches the zone
\* name": for every table that Handle and HandleRemove can build and every
\* spelling of the name, match picks the handler of the longest enclosing
\* registration, and none only when no registration encloses the name.
THEOREM MatchIsCorrect == Spec => []MatchIsClosest
<1>1. ASSUME IInv PROVE MatchIsClosest
  <2>1. SUFFICES ASSUME NEW name \in Names
                 PROVE  IF Enclosing(name) = {} THEN match(name, FALSE) = None
                        ELSE Closest(Enclosing(name)) = {match(name, FALSE)}
    BY DEF MatchIsClosest, ServeDNS
  <2> DEFINE q == CanonicalName(name)
  <2>2. Enclosing(name) = {} <=> Zones(q) = {}
    BY <1>1, EnclosingAreZones
  <2>3. IF Zones(q) = {} THEN match(name, FALSE) = None
        ELSE \E k \in Zones(q) : /\ match(name, FALSE) = z[From(q, k)]
                                 /\ \A i \in Zones(q) : k <= i
    BY <1>1, MatchFinds DEF IInv
  <2> QED BY <1>1, <2>2, <2>3, ClosestIsFewest
<1> QED BY <1>1, IInvInit, IInvStep, PTL DEF Spec

\* A query for DS is answered by a zone strictly above the name when one is
\* registered and by the name's own zone otherwise, for every table.
THEOREM DSIsCorrect == Spec => []DSLeavesChild
<1>1. ASSUME IInv PROVE DSLeavesChild
  <2>1. SUFFICES ASSUME NEW name \in Names
                 PROVE  LET h == match(name, TRUE)
                        IN  IF Above(name) # {} THEN \E e \in Above(name) : h = e[2]
                            ELSE IF Enclosing(name) # {} THEN Closest(Enclosing(name)) = {h}
                            ELSE h = None
    BY DEF DSLeavesChild, ServeDNS
  <2> DEFINE q == CanonicalName(name)
             h == match(name, TRUE)
  <2>2. /\ \A e \in Enclosing(name) : Len(q) - Len(e[1].labels) \in Zones(q)
                                      /\ Len(e[1].labels) \in Nat
        /\ \A k \in Zones(q) : \E e \in Enclosing(name) :
              Len(e[1].labels) = Len(q) - k /\ e[2] = z[From(q, k)]
        /\ Len(q) = Len(name.labels) /\ Len(q) \in Nat
    BY <1>1, EnclosingAreZones
  <2>3. IF Zones(q) = {} THEN h = None
        ELSE \E k \in Zones(q) : h = z[From(q, k)] /\ \A i \in Zones(q) : i <= k
    BY <1>1, MatchFinds DEF IInv
  <2>4. Zones(q) \subseteq 0..Len(q)
    BY DEF Zones
  <2> HIDE DEF q, h
  <2>5. CASE Zones(q) = {}
    BY <2>2, <2>3, <2>5 DEF Above, h
  <2>6. CASE Zones(q) # {}
    <3>1. PICK k \in Zones(q) : h = z[From(q, k)] /\ \A i \in Zones(q) : i <= k
      BY <2>3, <2>6
    <3>2. PICK e \in Enclosing(name) : Len(e[1].labels) = Len(q) - k /\ e[2] = h
      BY <2>2, <3>1
    <3>3. CASE k = 0
      <4>1. Above(name) = {}
        <5>1. SUFFICES ASSUME NEW f \in Above(name) PROVE FALSE
          OBVIOUS
        <5>2. f \in Enclosing(name) /\ Len(f[1].labels) < Len(q)
          BY <2>2 DEF Above
        <5>3. Len(q) - Len(f[1].labels) <= 0
          BY <2>2, <3>1, <3>3, <5>2
        <5> QED BY <2>2, <5>2, <5>3
      <4>2. \A i \in Zones(q) : k <= i
        BY <2>4, <3>3
      <4>3. Closest(Enclosing(name)) = {h}
        BY <1>1, <3>1, <4>2, ClosestIsFewest DEF q
      <4> QED BY <3>2, <4>1, <4>3 DEF h
    <3>4. CASE k # 0
      <4>1. e \in Above(name)
        BY <2>2, <2>4, <3>2, <3>4 DEF Above
      <4> QED BY <3>2, <4>1 DEF h
    <3> QED BY <3>3, <3>4
  <2> QED BY <2>5, <2>6
<1> QED BY <1>1, IInvInit, IInvStep, PTL DEF Spec
===============================================================================
