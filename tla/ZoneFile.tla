------------------------------ MODULE ZoneFile ------------------------------
(***************************************************************************)
(* What a zone file means, line by line, against what ZoneParser makes of  *)
(* its text.  A line is a record, a directive, or garbage; how it is laid  *)
(* out (braces over two lines, comments, quotes) is not to matter.         *)
(***************************************************************************)
EXTENDS ZoneParser

CONSTANTS
    Lines,       \* the lines a file is made of, by number
    FileLines    \* the files: from words to sequences of line numbers

\* A record line: the owner and the TTL or class may be left out (<<>>), data
\* is what its rdata is written with.
RR(owner, ttl, class, type, data, style) ==
    [kind |-> "rr", owner |-> owner, ttl |-> ttl, class |-> class, type |-> type,
     data |-> data, style |-> style]
\* A record for a dynamic update: no rdata, and the end of the file.
Update(owner, ttl, class, type) == [RR(owner, ttl, class, type, <<>>, "plain") EXCEPT !.kind = "update"]
Dir(kind, word, origin) == [kind |-> kind, word |-> word, origin |-> origin]
Gen(range, line) == [kind |-> "generate", word |-> range, line |-> line]

Sep(seq) == IF seq = <<>> THEN <<>> ELSE seq \o <<" ">>

Layout(data, style) ==
    CASE style = "parens" -> <<"(", " ", "\n", " ">> \o data \o <<" ", "\n", ")">>
      [] style = "comment" -> data \o <<" ", ";", "remark">>
      [] style = "both" -> <<"(", " ">> \o data \o <<" ", ";", "remark", "\n", " ", ")">>
      [] OTHER -> data

\* The text of a line, without its newline.
RECURSIVE LineText(_)
LineText(l) ==
    CASE l.kind = "rr" ->
             l.owner \o <<" ">> \o
             (IF l.style = "reversed" THEN Sep(l.class) \o Sep(l.ttl) ELSE Sep(l.ttl) \o Sep(l.class)) \o
             <<l.type, " ">> \o Layout(l.data, l.style)
      [] l.kind = "update" -> l.owner \o <<" ">> \o Sep(l.ttl) \o Sep(l.class) \o <<l.type>>
      [] l.kind = "ttl" -> <<"$", "TTL", " ">> \o l.word
      [] l.kind = "origin" -> <<"$", "ORIGIN", " ">> \o l.word
      [] l.kind = "include" -> <<"$", "INCLUDE", " ">> \o l.word \o
                               (IF l.origin = <<>> THEN <<>> ELSE <<" ">> \o l.origin)
      [] l.kind = "generate" -> <<"$", "GENERATE", " ", l.word, " ">> \o
                                (IF l.line.kind = "include" THEN <<"$">> ELSE <<>>) \o LineText(l.line)
      [] l.kind = "text" -> l.word

TextOf(numbers) ==
    LET text[i \in 0..Len(numbers)] ==
            IF i = 0 THEN <<>> ELSE text[i - 1] \o LineText(Lines[numbers[i]]) \o <<"\n">>
    IN  text[Len(numbers)]

-----------------------------------------------------------------------------
\* The meaning of lines: the records, and how the reading ends: "nil", "error", or
\* "open" at a record without a TTL when there is none to take.

Rdata(l, origin) ==
    CASE l.data = <<>> -> <<>>
      [] l.type = "A" /\ l.data # <<>> -> <<l.data>>
      [] l.type = "NS" -> <<toAbsoluteName(l.data, origin)>>
      [] l.type = "TXT" -> [i \in DOMAIN SelectSeq(l.data, LAMBDA w : w \notin {" ", "\""}) |->
                               <<SelectSeq(l.data, LAMBDA w : w \notin {" ", "\""})[i]>>]
      [] l.type = "NSEC" -> <<toAbsoluteName(<<l.data[1]>>, origin)>> \o
                            [i \in DOMAIN SelectSeq(Tail(l.data), LAMBDA w : w # " ") |->
                               <<SelectSeq(Tail(l.data), LAMBDA w : w # " ")[i]>>]

Substituted(token, n) == [i \in DOMAIN token |-> IF token[i] = "$" THEN Numbers[n] ELSE token[i]]

OwnerOf(l, c, n) == IF l.owner = <<>> THEN c.owner ELSE toAbsoluteName(Substituted(l.owner, n), c.origin)
TtlOf(l, c) == IF l.ttl = <<>> THEN c.ttl ELSE ttlState(stringToTTL(l.ttl), FALSE)

\* The record of a line in the context c: origin, TTL and owner.
Record(l, c, n) ==
    [h |-> [Name |-> OwnerOf(l, c, n), Ttl |-> TtlOf(l, c).ttl,
            Class |-> IF l.class = <<>> THEN "IN" ELSE l.class[1], Rrtype |-> l.type],
     rdata |-> Rdata(l, c.origin),
     comment |-> IF l.style \in {"comment", "both"} THEN <<";", "remark">> ELSE <<>>]

\* What the line leaves behind for the next one.
Context(l, c) ==
    CASE l.kind = "rr" -> [c EXCEPT !.owner = OwnerOf(l, c, 1),
                                    !.ttl = IF @.isByDirective THEN @ ELSE TtlOf(l, c)]
      [] l.kind = "ttl" -> [c EXCEPT !.ttl = ttlState(stringToTTL(l.word), TRUE)]
      [] l.kind = "origin" -> [c EXCEPT !.origin = toAbsoluteName(l.word, @)]
      [] OTHER -> c

Join(a, b) == IF a.end # "nil" THEN a ELSE [recs |-> a.recs \o b.recs, end |-> b.end]
Nothing == [recs |-> <<>>, end |-> "nil"]
Error == [recs |-> <<>>, end |-> "error"]

RECURSIVE Meaning(_, _, _)
Included(l, c, depth) ==
    IF depth >= maxIncludeDepth \/ l.word[1] \notin DOMAIN FileLines THEN Error
    ELSE Meaning(FileLines[l.word[1]],
                 [c EXCEPT !.owner = NoName,
                           !.origin = IF l.origin = <<>> THEN @ ELSE toAbsoluteName(l.origin, @)],
                 depth + 1)

\* A line of $GENERATE for the number n, with the default TTL, whatever $TTL
\* says, and without the directive's comment.
GeneratedOne(l, c, n, depth) ==
    LET d == [c EXCEPT !.owner = NoName, !.ttl = ttlState(defaultTtl, FALSE)]
    IN  IF l.line.kind = "include" THEN Included(l.line, d, depth)
        ELSE [recs |-> <<[Record(l.line, d, n) EXCEPT !.comment = <<>>]>>, end |-> "nil"]
Generated(l, c, depth) ==
    LET g == Ranges[l.word]
        part[n \in g.start..g.end] ==
            IF n = g.start THEN GeneratedOne(l, c, n, depth)
            ELSE IF (n - g.start) % g.step = 0 THEN Join(part[n - 1], GeneratedOne(l, c, n, depth))
            ELSE part[n - 1]
    IN  part[g.end]

MeaningOfLine(l, c, last, depth) ==
    CASE l.kind = "rr" -> IF TtlOf(l, c).set THEN [recs |-> <<Record(l, c, 1)>>, end |-> "nil"]
                          ELSE [recs |-> <<>>, end |-> "open"]
      [] l.kind = "update" -> IF last THEN [recs |-> <<Record(l, c, 1)>>, end |-> "nil"] ELSE Error
      [] l.kind = "include" -> Included(l, c, depth)
      [] l.kind = "generate" -> Generated(l, c, depth)
      [] l.kind = "text" -> Error
      [] OTHER -> Nothing

Meaning(numbers, c, depth) ==
    LET ctx[i \in 1..(Len(numbers) + 1)] ==
            IF i = 1 THEN c ELSE Context(Lines[numbers[i - 1]], ctx[i - 1])
        part[i \in 0..Len(numbers)] ==
            IF i = 0 THEN Nothing
            ELSE IF part[i - 1].end # "nil" THEN part[i - 1]
            ELSE Join(part[i - 1], MeaningOfLine(Lines[numbers[i]], ctx[i], i = Len(numbers), depth))
    IN  part[Len(numbers)]

Meant ==
    Meaning(zone, [origin |-> <<>>, owner |-> NoName,
                   ttl |-> IF GivenTtl THEN ttlState(defaultTtl, FALSE) ELSE NoTtl], 0)

-----------------------------------------------------------------------------
\* Properties.

\* The parser returns the records that the lines mean, in order, with the owner,
\* TTL and origin of the scope they stand in and their own comment, and reports
\* an error exactly when a line is wrong; an included file or a $GENERATE leaves
\* nothing behind in the scope of its directive.
ParsesAsMeant ==
    LET meant == Meant
    IN  meant.end # "open" =>
          /\ IsPrefix(out, meant.recs)
          /\ status = "stopped" => out = meant.recs /\ (parseErr = "nil" <=> meant.end = "nil")

\* "After Next returns (nil, false), the Err method will return any error that
\* occurred during parsing": what a lexer found is not lost.
ErrorsSurface == status = "stopped" /\ lexErr => parseErr # "nil"

=============================================================================
