------------------------------- MODULE MCZone -------------------------------
(***************************************************************************)
(* Zones of up to MaxLines lines, from the lines below, and some of three, *)
(* with files to include: f sets TTL and origin, loop includes itself.     *)
(***************************************************************************)
EXTENDS ZoneFile

CONSTANT MaxLines

MCAbsolute == [w \in {"z.", ".z."} |-> <<<<"z">>>>]
MCRelative == {"a", "b", "h", "1", "2", "sub"}
MCTtlWords == [w \in {"300", "600", "60"} |->
                 CASE w = "300" -> 300 [] w = "600" -> 600 [] w = "60" -> 60]
MCRanges == [w \in {"1-2", "1-1/3"} |->
               IF w = "1-2" THEN [start |-> 1, end |-> 2, step |-> 1]
               ELSE [start |-> 1, end |-> 1, step |-> 3]]
MCNumbers == <<"1", "2">>
IP == <<"192.0.2.1">>

MCLines == <<
    RR(<<"a">>, <<"300">>, <<"IN">>, "A", IP, "plain"),
    RR(<<"b">>, <<>>, <<>>, "NS", <<"a">>, "comment"),
    RR(<<>>, <<>>, <<>>, "TXT", <<"x", " ", "IN">>, "parens"),
    RR(<<"z.">>, <<"60">>, <<"CH">>, "TXT", <<"\"", "x", "\"", " ", "\"", "A", "\"">>, "reversed"),
    RR(<<>>, <<>>, <<"CH">>, "TXT", <<"x">>, "both"),
    RR(<<"@">>, <<>>, <<>>, "NSEC", <<"b", " ", "A", " ", "NS">>, "comment"),
    Dir("ttl", <<"600">>, <<>>),
    Dir("origin", <<"sub">>, <<>>),
    Dir("include", <<"f">>, <<>>),
    Dir("include", <<"f">>, <<"sub">>),
    Dir("include", <<"loop">>, <<>>),
    Dir("include", <<"missing">>, <<>>),
    Gen("1-2", RR(<<"h", "$">>, <<>>, <<>>, "A", IP, "plain")),
    Gen("1-2", Dir("include", <<"f">>, <<>>)),
    Gen("1-1/3", RR(<<"h", "$", ".z.">>, <<"60">>, <<"IN">>, "NS", <<"a">>, "comment")),
    Update(<<"a">>, <<"60">>, <<"IN">>, "NS"),
    [kind |-> "text", word |-> <<"a", " ", "A", ")">>],
    [kind |-> "text", word |-> <<"a", " ", "60", " ", "A", " ", "192.0.2.1", " ", "x">>],
    [kind |-> "text", word |-> <<"a", " ", "60", " ", "TYPEx", " ", "y">>],
    [kind |-> "text", word |-> <<"$", "GENERATE", " ", "1-2", " ", "h", "$", "{x}", " ", "A", " ", "192.0.2.1">>],
    [kind |-> "text", word |-> <<"$", "TTL", " ", "60", " ", "x">>],
    [kind |-> "text", word |-> <<"a", " ", "60", " ", "A", " ", "(", "192.0.2.1">>]
  >>

MCFileLines ==
    [f \in {"f", "loop"} |-> IF f = "f" THEN <<8, 1, 7, 2, 13>> ELSE <<3, 1, 11, 2>>]
MCFileText == [f \in DOMAIN FileLines |-> TextOf(FileLines[f])]
MCZoneText(z) == TextOf(z)
MCCorpus == UNION {[1..n -> DOMAIN Lines] : n \in 0..MaxLines}

\* A line that sets the scope, one with a scope of its own, one that depends on it.
ScopedCorpus == MCCorpus \cup {<<x, y, z>> : x \in {1, 7, 8}, y \in {4, 7, 8, 9, 10, 13, 14}, z \in {2, 3, 6}}

\* Zones in which an error of the lexer meets code that does not look for one.
LostLines == <<
    RR(<<"a">>, <<"300">>, <<"IN">>, "A", IP, "plain"),
    [kind |-> "text", word |-> <<"a", " ", "60", " ", "NSEC", " ", "b", " ", "A", " ", ")">>]>>
NoFiles == [f \in {} |-> <<>>]
=============================================================================
