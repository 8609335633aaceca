----------------------------- MODULE ZoneParser -----------------------------
(***************************************************************************)
(* ZoneParser, scan.go and generate.go, over the tokens of ZoneLexer: the  *)
(* states of Next, $TTL, $ORIGIN, $INCLUDE and $GENERATE with their        *)
(* sub-parsers, and the rdata of A, NS, TXT and NSEC records (scan_rr.go). *)
(*                                                                         *)
(* stack holds the parsers, the caller's first; each is the sub of the one *)
(* below, and the last one reads.  A name is a sequence of labels and a    *)
(* label a sequence of words; the empty name "" is NoName.  The text of   *)
(* $GENERATE is expanded when it begins.                                   *)
(***************************************************************************)
EXTENDS ZoneLexer, FiniteSets, SequencesExt

CONSTANTS
    maxIncludeDepth,
    defaultTtl,
    Corpus,        \* the names of the zones that may be parsed
    ZoneText(_),   \* their text
    FileText,      \* what $INCLUDE opens: from words to texts
    TtlWords,      \* words that are TTLs: to their values
    Addresses,     \* words that are addresses
    Absolute,      \* words that are absolute names: to the names
    Relative,      \* words that are relative names
    Ranges,        \* words that are ranges of $GENERATE: [start, end, step]
    Numbers,       \* the numbers $GENERATE writes: to the words
    GoodModifier, BadModifier,   \* words that are "{...}" after a "$"
    GivenTtl,      \* does the caller call SetDefaultTTL?
    MaxCalls       \* bound: calls of Next after one that has returned false

ASSUME ZoneParserAssumption == maxIncludeDepth \in Nat

VARIABLES
    zone,      \* the member of Corpus
    stack,     \* the parsers
    status,    \* "idle", "running" (in a call of Next), "stopped"
    parseErr,  \* "nil", or the kind of the error met
    open,      \* history: how many files are open
    out,       \* history: the records returned, each with its comment
    lexErr,    \* history: a lexer has met an error
    calls

vars == <<zone, stack, status, parseErr, open, out, lexErr, calls>>

NoName == <<<<"no name">>>>
NoTtl == [ttl |-> 0, isByDirective |-> FALSE, set |-> FALSE]
ttlState(n, dir) == [ttl |-> n, isByDirective |-> dir, set |-> TRUE]

top == Last(stack)

-----------------------------------------------------------------------------
\* Names and TTLs.

IsDomainName(token) ==
    token # <<>> /\ \A i \in DOMAIN token : token[i] \in Relative \cup DOMAIN Absolute

toAbsoluteName(token, origin) ==
    CASE token = <<"@">> -> origin
      [] token # <<"@">> /\ ~IsDomainName(token) -> NoName
      [] token # <<"@">> /\ IsDomainName(token) /\ Last(token) \in DOMAIN Absolute ->
             (IF Len(token) = 1 THEN <<>> ELSE <<Front(token)>>) \o Absolute[Last(token)]
      [] OTHER -> IF origin = NoName THEN NoName ELSE <<token>> \o origin

stringToTTL(token) ==
    IF Len(token) = 1 /\ token[1] \in DOMAIN TtlWords THEN TtlWords[token[1]] ELSE -1

\* Mutant: a record's TTL replaces the one of $TTL.
WithTtlAlways(p, ttl) == [p EXCEPT !.h.Ttl = ttl, !.defttl = ttlState(ttl, FALSE)]

\* The parser, with the TTL of a record that states one.
WithTtl(p, ttl) ==
    [p EXCEPT !.h.Ttl = ttl,
              !.defttl = IF @.set /\ @.isByDirective THEN @ ELSE ttlState(ttl, FALSE)]

NewZoneParser(text, origin) ==
    [zl |-> newZLexer(text), st |-> "zExpectOwnerDir",
     h |-> [Name |-> NoName, Ttl |-> 0, Class |-> "none", Rrtype |-> "none"],
     defttl |-> NoTtl, origin |-> origin, includeDepth |-> 0, includeAllowed |-> FALSE,
     generateDisallowed |-> FALSE, r |-> FALSE]

-----------------------------------------------------------------------------
\* What a step does to the parsers.

Keep(p) == [stack EXCEPT ![Len(stack)] = p]

\* st = ...; the loop goes on with the parser p.
Goes(p, st) ==
    /\ stack' = Keep([p EXCEPT !.st = st])
    /\ lexErr' = (lexErr \/ p.zl.l.err)
    /\ UNCHANGED <<zone, status, parseErr, open, out, calls>>

\* Mutant: only the parser that failed closes its file.
StopsAtOnce(p, e) ==
    /\ parseErr' = e /\ status' = "stopped"
    /\ stack' = Keep([p EXCEPT !.r = FALSE])
    /\ open' = open - (IF p.r THEN 1 ELSE 0)
    /\ lexErr' = (lexErr \/ p.zl.l.err)
    /\ UNCHANGED <<zone, out, calls>>

\* return nil, false, up through every subNext, each of which closes the file of
\* the parser above.
Stops(p, e) ==
    /\ parseErr' = e /\ status' = "stopped"
    /\ stack' = [i \in DOMAIN stack |-> [(IF i = Len(stack) THEN p ELSE stack[i]) EXCEPT
                                            !.r = FALSE, !.st = "zExpectOwnerDir"]]
    /\ open' = open - Cardinality({i \in DOMAIN stack : stack[i].r})
    /\ lexErr' = (lexErr \/ p.zl.l.err)
    /\ UNCHANGED <<zone, out, calls>>
setParseError(p) == Stops(p, "parse")

\* return rr, true
Returns(p, rdata) ==
    /\ status' = "idle"
    /\ out' = Append(out, [h |-> p.h, rdata |-> rdata, comment |-> Comment(p.zl)])
    /\ stack' = Keep([p EXCEPT !.st = "zExpectOwnerDir"])
    /\ lexErr' = (lexErr \/ p.zl.l.err)
    /\ UNCHANGED <<zone, parseErr, open, calls>>

\* zp.sub = sub; return zp.subNext()
Enters(p, sub) ==
    /\ stack' = Append(Keep([p EXCEPT !.st = "zExpectOwnerDir"]), sub)
    /\ open' = open + (IF sub.r THEN 1 ELSE 0)
    /\ lexErr' = (lexErr \/ p.zl.l.err)
    /\ UNCHANGED <<zone, status, parseErr, out, calls>>

\* The token t is read in the state st; the parser after it.
In(t, st) == t.ok /\ ~t.l.err /\ top.st = st
After(t) == [top EXCEPT !.zl = t.zl]

\* The token t, or the one after it when t is a blank, ends the line.
LineEnd(t) == [ok |-> t.l.value \in {"zNewline", "zEOF"}, zl |-> t.zl]
LineEndAfter(t) == IF t.l.value = "zBlank" THEN LineEnd(LexNext(t.zl)) ELSE LineEnd(t)
slurpRemainder(zl) == LineEndAfter(LexNext(zl))

-----------------------------------------------------------------------------
Init ==
    /\ zone \in Corpus
    /\ stack = <<[NewZoneParser(ZoneText(zone), <<>>) EXCEPT
                    !.defttl = IF GivenTtl THEN ttlState(defaultTtl, FALSE) ELSE NoTtl,
                    !.includeAllowed = TRUE]>>
    /\ status = "idle" /\ parseErr = "nil" /\ open = 0 /\ out = <<>> /\ lexErr = FALSE
    /\ calls = 0

\* Next: nothing more after an error; else the sub-parser that is deepest reads on.
Next_ ==
    /\ status \in {"idle", "stopped"}
    /\ calls' = IF status = "stopped" /\ calls < MaxCalls THEN calls + 1 ELSE calls
    /\ status' = IF parseErr = "nil" /\ (status = "idle" \/ calls < MaxCalls) THEN "running" ELSE "stopped"
    /\ UNCHANGED <<zone, stack, parseErr, open, out, lexErr>>

\* zlexer spotted an error already
LexerError(t) ==
    /\ t.ok /\ t.l.err
    /\ setParseError(After(t))

\* The parser has no more tokens: subNext closes it and goes on with the one
\* below, unless its reader has failed.
EndOfInput(t) ==
    /\ ~t.ok
    /\ IF t.zl.readErr = "bad" THEN Stops(After(t), "read")
       ELSE IF Len(stack) = 1 THEN Stops(After(t), "nil")
       ELSE /\ stack' = Front(stack)
            /\ open' = open - (IF top.r THEN 1 ELSE 0)
            /\ lexErr' = (lexErr \/ t.zl.l.err)
            /\ UNCHANGED <<zone, status, parseErr, out, calls>>

\* The beginning of a line, with the defaults for what the line leaves out.
ExpectOwnerDir(t) ==
    /\ In(t, "zExpectOwnerDir")
    /\ LET p == [After(t) EXCEPT !.h.Ttl = IF top.defttl.set THEN top.defttl.ttl ELSE @,
                              !.h.Class = "IN"]
           name == toAbsoluteName(t.l.token, top.origin)
           ttl == stringToTTL(t.l.token)
       IN  CASE t.l.value \in {"zNewline", "zBlank"} -> Goes(p, "zExpectOwnerDir")
             [] t.l.value = "zOwner" -> IF name = NoName THEN setParseError(p)
                                    ELSE Goes([p EXCEPT !.h.Name = name], "zExpectOwnerBl")
             [] t.l.value = "zDirTTL" -> Goes(p, "zExpectDirTTLBl")
             [] t.l.value = "zDirOrigin" -> Goes(p, "zExpectDirOriginBl")
             [] t.l.value = "zDirInclude" -> Goes(p, "zExpectDirIncludeBl")
             [] t.l.value = "zDirGenerate" -> Goes(p, "zExpectDirGenerateBl")
             [] t.l.value = "zRrtpe" -> Goes([p EXCEPT !.h.Rrtype = t.l.token[1]], "zExpectRdata")
             [] t.l.value = "zClass" -> Goes([p EXCEPT !.h.Class = t.l.token[1]], "zExpectAnyNoClassBl")
             [] t.l.value = "zString" -> IF ttl < 0 THEN setParseError(p)
                                     ELSE Goes(WithTtl(p, ttl), "zExpectAnyNoTTLBl")
             [] OTHER -> setParseError(p)

\* The states that expect a blank, and the ones they lead to.
AfterBlank ==
    [zExpectOwnerBl |-> "zExpectAny", zExpectAnyNoClassBl |-> "zExpectAnyNoClass",
     zExpectAnyNoTTLBl |-> "zExpectAnyNoTTL", zExpectRrtypeBl |-> "zExpectRrtype",
     zExpectDirTTLBl |-> "zExpectDirTTL", zExpectDirOriginBl |-> "zExpectDirOrigin",
     zExpectDirIncludeBl |-> "zExpectDirInclude", zExpectDirGenerateBl |-> "zExpectDirGenerate"]
ExpectBlank(t) ==
    /\ top.st \in DOMAIN AfterBlank /\ In(t, top.st)
    /\ IF t.l.value = "zBlank" THEN Goes(After(t), AfterBlank[top.st]) ELSE setParseError(After(t))

-----------------------------------------------------------------------------
\* The fields before the type: which of them a state still takes, and the states
\* that follow a TTL and a class.
Takes ==
    [zExpectAny |-> {"ttl", "class"}, zExpectAnyNoTTL |-> {"class"},
     zExpectAnyNoClass |-> {"ttl"}, zExpectRrtype |-> {}]
ExpectField(t) ==
    /\ top.st \in DOMAIN Takes /\ In(t, top.st)
    /\ LET ttl == stringToTTL(t.l.token)
           both == top.st = "zExpectAny"
       IN  CASE t.l.value = "zRrtpe" ->
                    IF both /\ ~top.defttl.set THEN setParseError(After(t))
                    ELSE Goes([After(t) EXCEPT !.h.Rrtype = t.l.token[1]], "zExpectRdata")
             [] t.l.value = "zClass" /\ "class" \in Takes[top.st] ->
                    Goes([After(t) EXCEPT !.h.Class = t.l.token[1]],
                         IF both THEN "zExpectAnyNoClassBl" ELSE "zExpectRrtypeBl")
             [] t.l.value = "zString" /\ "ttl" \in Takes[top.st] ->
                    IF ttl < 0 THEN setParseError(After(t))
                    ELSE Goes(WithTtl(After(t), ttl), IF both THEN "zExpectAnyNoTTLBl" ELSE "zExpectRrtypeBl")
             [] OTHER -> setParseError(After(t))

-----------------------------------------------------------------------------
\* Directives.

ExpectDirTTL(t) ==
    /\ In(t, "zExpectDirTTL")
    /\ \E s \in {slurpRemainder(t.zl)} :
       LET p == [After(t) EXCEPT !.zl = s.zl]
           ttl == stringToTTL(t.l.token)
       IN  IF t.l.value # "zString" THEN setParseError(After(t))
           ELSE IF ~s.ok \/ ttl < 0 THEN setParseError(p)
           ELSE Goes([p EXCEPT !.defttl = ttlState(ttl, TRUE)], "zExpectOwnerDir")

ExpectDirOrigin(t) ==
    /\ In(t, "zExpectDirOrigin")
    /\ \E s \in {slurpRemainder(t.zl)} :
       LET p == [After(t) EXCEPT !.zl = s.zl]
           name == toAbsoluteName(t.l.token, top.origin)
       IN  IF t.l.value # "zString" THEN setParseError(After(t))
           ELSE IF ~s.ok \/ name = NoName THEN setParseError(p)
           ELSE Goes([p EXCEPT !.origin = name], "zExpectOwnerDir")

\* The origin after the file name, if there is one, and the tokens that were
\* looked at; an error of the lexer is not looked for.
OriginToken(b) ==
    IF b.l.value # "zString" THEN [zl |-> b.zl, origin |-> top.origin, ok |-> TRUE]
    ELSE [zl |-> b.zl, origin |-> toAbsoluteName(b.l.token, top.origin),
          ok |-> toAbsoluteName(b.l.token, top.origin) # NoName]
AfterFileName(a) ==
    IF a.l.value = "zBlank" THEN OriginToken(LexNext(a.zl))
    ELSE [zl |-> a.zl, origin |-> top.origin, ok |-> LineEnd(a).ok]
IncludeOrigin(t) == AfterFileName(LexNext(t.zl))

TooDeep(p) == p.includeDepth >= maxIncludeDepth

ExpectDirInclude(t) ==
    /\ In(t, "zExpectDirInclude")
    /\ \E o \in {IncludeOrigin(t)} :
       LET p == [After(t) EXCEPT !.zl = o.zl]
           file == t.l.token
       IN  IF t.l.value # "zString" THEN setParseError(After(t))
           ELSE IF ~o.ok \/ ~top.includeAllowed \/ TooDeep(top)
                   \/ Len(file) # 1 \/ file[1] \notin DOMAIN FileText
                THEN setParseError(p)
           ELSE Enters(p, [NewZoneParser(FileText[file[1]], o.origin) EXCEPT
                             !.defttl = top.defttl, !.includeDepth = top.includeDepth + 1,
                             !.r = TRUE, !.includeAllowed = TRUE])

\* generateReader: the text with "$" replaced, "$$" and "\$" a dollar sign, and
\* what follows any other backslash dropped with it.
generated(s, cur) ==
    LET is(i, c) == i <= Len(s) /\ s[i] = c
        from[i \in 1..(Len(s) + 2)] ==
            IF i > Len(s) THEN <<>>
            ELSE IF is(i, "\\")
            THEN (IF is(i + 1, "\\") \/ is(i + 1, "$") THEN <<s[i + 1]>> ELSE <<>>) \o from[i + 2]
            ELSE IF ~is(i, "$") THEN <<s[i]>> \o from[i + 1]
            ELSE IF is(i + 1, "$") THEN <<"$">> \o from[i + 2]
            ELSE IF is(i + 1, GoodModifier) THEN <<Numbers[cur]>> \o from[i + 2]
            ELSE IF is(i + 1, BadModifier) THEN <<Broken>>
            ELSE <<Numbers[cur]>> \o from[i + 1]
    IN  from[1]

generateText(s, g) ==
    LET from[cur \in g.start..(g.end + g.step)] ==
            IF cur > g.end THEN <<>> ELSE generated(s, cur) \o <<"\n">> \o from[cur + g.step]
    IN  from[g.start]

\* The rest of the line as text.
restTurn(a) ==
    LET r == LexNext(a.zl)
    IN  IF a.done THEN a
        ELSE IF r.ok /\ r.l.err THEN [a EXCEPT !.zl = r.zl, !.done = TRUE, !.ok = FALSE]
        ELSE IF ~r.ok \/ r.l.value = "zNewline" THEN [a EXCEPT !.zl = r.zl, !.done = TRUE]
        ELSE [a EXCEPT !.zl = r.zl, !.s = @ \o r.l.token]
restOfLine(zl) ==
    Iterate(restTurn, [zl |-> zl, s |-> <<>>, ok |-> TRUE, done |-> FALSE], TokensLeft(zl))

ExpectDirGenerate(t) ==
    /\ In(t, "zExpectDirGenerate")
    /\ \E a \in {LexNext(t.zl)} : \E line \in {restOfLine(a.zl)} :
       LET word == t.l.token
           p == [After(t) EXCEPT !.zl = line.zl]
       IN  IF top.generateDisallowed \/ t.l.value # "zString" \/ Len(word) # 1 \/ word[1] \notin DOMAIN Ranges
           THEN setParseError(After(t))
           ELSE IF ~a.ok \/ a.l.value # "zBlank" THEN setParseError([After(t) EXCEPT !.zl = a.zl])
           ELSE IF ~line.ok THEN setParseError(p)
           ELSE LET g == Ranges[word[1]]
                IN  Enters(p, [NewZoneParser(generateText(line.s, g), top.origin)
                                 EXCEPT !.defttl = ttlState(defaultTtl, FALSE),
                                        !.includeDepth = top.includeDepth,
                                        !.includeAllowed = top.includeAllowed,
                                        !.generateDisallowed = TRUE])

-----------------------------------------------------------------------------
\* Rdata.  Each parse returns [ok, rdata, zl].

\* parse of the types with one field: a token and the end of the line.
parseOne(zl, valid(_), conv(_)) ==
    LET one(a) == IF a.l.err \/ ~valid(a.l.token) THEN [ok |-> FALSE, rdata |-> <<>>, zl |-> a.zl]
                  ELSE [rdata |-> conv(a.l.token)] @@ slurpRemainder(a.zl)
    IN  one(LexNext(zl))

\* The strings up to the end of the line.
txtTurn(a) ==
    LET r == LexNext(a.zl)
        v == r.l.value
        b == [a EXCEPT !.zl = r.zl]
        end == [b EXCEPT !.done = TRUE]
    IN  IF a.done THEN a
        ELSE IF v \in {"zNewline", "zEOF"} THEN [end EXCEPT !.ok = ~a.quote /\ ~r.l.err]
        ELSE IF r.l.err THEN end
        ELSE IF v = "zString" THEN [b EXCEPT !.empty = FALSE, !.rdata = Append(@, r.l.token)]
        ELSE IF v = "zBlank" /\ ~a.quote THEN b
        ELSE IF v = "zQuote"
        THEN [b EXCEPT !.quote = ~a.quote, !.empty = TRUE,
                       !.rdata = IF a.empty /\ a.quote THEN Append(@, <<>>) ELSE @]
        ELSE end
endingToTxtSlice(zl) ==
    Iterate(txtTurn, [zl |-> zl, quote |-> FALSE, empty |-> FALSE, rdata |-> <<>>, ok |-> FALSE,
                      done |-> FALSE], TokensLeft(zl))

\* The loop of NSEC's parse, which does not look at l.err.
bitMapTurn(a) ==
    LET r == LexNext(a.zl)
        v == r.l.value
        b == [a EXCEPT !.zl = r.zl]
        end == [b EXCEPT !.done = TRUE]
    IN  IF a.done THEN a
        ELSE IF v \in {"zNewline", "zEOF"} THEN [end EXCEPT !.ok = TRUE]
        ELSE IF v = "zBlank" THEN b
        ELSE IF v = "zString" /\ isType(r.l.token) THEN [b EXCEPT !.rdata = Append(@, r.l.token)]
        ELSE end
typeBitMap(zl, name) ==
    Iterate(bitMapTurn, [zl |-> zl, rdata |-> <<name>>, ok |-> FALSE, done |-> FALSE], TokensLeft(zl))
parseNSEC(zl, origin) ==
    LET a == LexNext(zl)
        name == toAbsoluteName(a.l.token, origin)
    IN  IF a.l.err \/ name = NoName THEN [ok |-> FALSE, rdata |-> <<>>, zl |-> a.zl]
        ELSE typeBitMap(a.zl, name)

parse(p) ==
    CASE p.h.Rrtype = "A" ->
             parseOne(p.zl, LAMBDA t : Len(t) = 1 /\ t[1] \in Addresses, LAMBDA t : <<t>>)
      [] p.h.Rrtype = "NS" ->
             parseOne(p.zl, LAMBDA t : toAbsoluteName(t, p.origin) # NoName,
                            LAMBDA t : <<toAbsoluteName(t, p.origin)>>)
      [] p.h.Rrtype = "TXT" -> endingToTxtSlice(p.zl)
      [] p.h.Rrtype = "NSEC" -> parseNSEC(p.zl, p.origin)

\* Without anything after it a type is a record for a dynamic update.
ExpectRdata(t) ==
    /\ In(t, "zExpectRdata")
    /\ \E peek \in {Peek(t.zl)} :
       LET p == [After(t) EXCEPT !.zl = peek.zl]
           empty == peek.l.token = <<>>
       IN  IF ~empty /\ t.l.value = "zNewline" THEN setParseError(p)
           ELSE \E r \in {IF empty THEN [rdata |-> <<>>] @@ slurpRemainder(p.zl) ELSE parse(p)} :
                   IF r.ok THEN Returns([p EXCEPT !.zl = r.zl], r.rdata)
                   ELSE setParseError([p EXCEPT !.zl = r.zl])

Next ==
    \/ Next_
    \/ /\ status = "running"
       /\ \E t \in {LexNext(top.zl)} :
             \/ LexerError(t) \/ EndOfInput(t)
             \/ ExpectOwnerDir(t) \/ ExpectBlank(t) \/ ExpectField(t)
             \/ ExpectDirTTL(t) \/ ExpectDirOrigin(t) \/ ExpectDirInclude(t) \/ ExpectDirGenerate(t)
             \/ ExpectRdata(t)

Spec == Init /\ [][Next]_vars

-----------------------------------------------------------------------------
\* Properties.

\* The files that are open at a time are limited by the depth of $INCLUDE, also
\* through $GENERATE, and when Next has returned false none is left open, at
\* whatever depth it stopped.
FilesClosed ==
    /\ open <= maxIncludeDepth /\ Len(stack) <= 2 * maxIncludeDepth + 2
    /\ status = "stopped" => open = 0

=============================================================================
