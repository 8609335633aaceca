------------------------------- MODULE ServeMux -------------------------------
(***************************************************************************)
(* The request multiplexer (serve_mux.go): Handle and HandleRemove change  *)
(* the table mux.z under mux.m, match looks a name up in it.               *)
(*                                                                         *)
(* A name as a caller writes it is a sequence of labels in any case, with  *)
(* or without the final dot.  A name in the table is canonical: lower-case *)
(* labels, fully qualified, so the sequence of labels is all of it and <<>> *)
(* is the root ".".  Escapes inside a label are part of the label.         *)
(***************************************************************************)
EXTENDS Naturals, Sequences, FiniteSets, SequencesExt

CONSTANTS
  Labels,      \* labels as written
  Lower,       \* the lower-case form of each label
  MaxLabels,   \* bound: labels in a name
  MaxPatterns, \* bound: patterns registered at a time
  Handlers,
  None         \* no handler (nil)

ASSUME ServeMuxAssumption ==
  /\ Lower \in [Labels -> Labels]
  /\ \A x \in Labels : Lower[Lower[x]] = Lower[x]
  /\ MaxLabels \in Nat
  /\ MaxPatterns \in Nat
  /\ None \notin Handlers

VARIABLES
  z,   \* mux.z: canonical name -> handler
  reg  \* history: the registrations in force, as their callers wrote them

vars == <<z, reg>>

-----------------------------------------------------------------------------
\* "" is the name without labels and without a dot, "." the one with a dot.
Names == [labels : BoundedSeq(Labels, MaxLabels), dot : BOOLEAN]

Patterns == {n \in Names : n.labels # <<>> \/ n.dot}

\* Fqdn adds the dot when it is missing; every upper-case letter is mapped.
CanonicalName(n) == [i \in DOMAIN n.labels |-> Lower[n.labels[i]]]

Init ==
  /\ z = << >>
  /\ reg = {}

\* The type invariant: the keys of the table are canonical names.
TypeOK ==
  /\ DOMAIN z \subseteq BoundedSeq({x \in Labels : Lower[x] = x}, MaxLabels)
  /\ \A n \in DOMAIN z : z[n] \in Handlers
  /\ reg \subseteq Patterns \X Handlers

\* Two spellings of one domain name.
SameName(n, m) ==
  /\ Len(n.labels) = Len(m.labels)
  /\ \A i \in DOMAIN n.labels : Lower[n.labels[i]] = Lower[m.labels[i]]

\* mux.z[CanonicalName(pattern)] = handler
Handle(pattern, h) ==
  LET key == CanonicalName(pattern) IN
  /\ key \in DOMAIN z \/ Cardinality(DOMAIN z) < MaxPatterns
  /\ z' = [n \in DOMAIN z \cup {key} |-> IF n = key THEN h ELSE z[n]]
  /\ reg' = {e \in reg : ~ SameName(e[1], pattern)} \cup {<<pattern, h>>}

\* Mutant of HandleRemove: deletes the pattern as it is written.
HandleRemoveLiteral(pattern) ==
  /\ z' = [n \in DOMAIN z \ {pattern.labels} |-> z[n]]
  /\ reg' = {e \in reg : ~ SameName(e[1], pattern)}

\* delete(mux.z, CanonicalName(pattern))
HandleRemove(pattern) ==
  /\ z' = [n \in DOMAIN z \ {CanonicalName(pattern)} |-> z[n]]
  /\ reg' = {e \in reg : ~ SameName(e[1], pattern)}

Next ==
  \E pattern \in Patterns :
    \/ HandleRemove(pattern)
    \/ \E h \in Handlers : Handle(pattern, h)

Spec == Init /\ [][Next]_vars

-----------------------------------------------------------------------------
(* match and ServeDNS.                                                     *)

\* The handler at a canonical name, None if there is none.
At(n) == IF n \in DOMAIN z THEN z[n] ELSE None

\* q[off:] for the offset that NextLabel reaches after k labels.
From(q, k) == SubSeq(q, k + 1, Len(q))

\* The loop over the labels of q.  The offset before the first label is
\* always tried; NextLabel ends the loop before the root.  A query for DS
\* goes on after a hit and keeps the last one, any other returns the first.
Loop(q, ds) ==
  LET last == IF q = <<>> THEN 0 ELSE Len(q) - 1
      loop[k \in 0..(last + 1)] ==     \* the hit of the iterations from k on
        IF k > last THEN None
        ELSE LET h == At(From(q, k))
                 later == loop[k + 1]
             IN IF h = None \/ (ds /\ later # None) THEN later ELSE h
  IN loop[0]

\* Mutant of match: a DS query is treated like any other.
matchNoDS(name, ds) ==
  LET q == CanonicalName(name)
      hit == Loop(q, FALSE)
  IN IF hit # None THEN hit ELSE At(<<>>)

\* ds says whether the query type is DS.  Without it a hit is returned from
\* the loop; after the loop the root's handler, if there is one, wins.
match(name, ds) ==
  LET q == CanonicalName(name)
      hit == Loop(q, ds)
  IN IF (hit # None /\ ~ ds) \/ At(<<>>) = None THEN hit ELSE At(<<>>)

\* The questions of a request decide who answers; None is REFUSED.
ServeDNS(questions) ==
  IF questions = <<>> THEN None ELSE match(questions[1].name, questions[1].ds)

-----------------------------------------------------------------------------
(* What a caller may expect, in terms of the registrations.                *)

\* pattern is the name itself or a zone above it.
Encloses(pattern, name) ==
  LET n == Len(pattern.labels)
      m == Len(name.labels)
  IN /\ n <= m
     /\ SameName(pattern, [name EXCEPT !.labels = SubSeq(@, m - n + 1, m)])

\* The registrations for the name and the zones above it.
Enclosing(name) == {e \in reg : Encloses(e[1], name)}

\* The handlers of the longest patterns of a set of registrations.
Closest(es) ==
  {e[2] : e \in {f \in es : \A g \in es : Len(g[1].labels) <= Len(f[1].labels)}}

\* "calls the handler for the pattern that most closely matches the zone
\* name", whatever the case and final dot of the name and the patterns.
MatchIsClosest ==
  \A name \in Names :
    LET h == ServeDNS(<<[name |-> name, ds |-> FALSE]>>)
    IN IF Enclosing(name) = {} THEN h = None ELSE Closest(Enclosing(name)) = {h}

\* The registrations for zones strictly above the name.
Above(name) == {e \in Enclosing(name) : Len(e[1].labels) < Len(name.labels)}

\* A query for DS leaves the child: it is answered by a zone above the name
\* when one is registered and by the name's own zone otherwise.
DSLeavesChild ==
  \A name \in Names :
    LET h == ServeDNS(<<[name |-> name, ds |-> TRUE]>>)
    IN IF Above(name) # {} THEN \E e \in Above(name) : h = e[2]
       ELSE IF Enclosing(name) # {} THEN Closest(Enclosing(name)) = {h}
       ELSE h = None

==============================================================================
