----------------------------- MODULE ZoneLexer -----------------------------
(***************************************************************************)
(* zlexer, scan.go: the tokens of a zone file.                             *)
(*                                                                         *)
(* A text is a sequence of characters that the lexer tells apart (blank,   *)
(* newline, semicolon, backslash, quote, braces, "$") and of words, which  *)
(* stand for runs of other characters.  A token is a sequence of those,    *)
(* so that text which is glued together is seen.  The character Broken     *)
(* stands for a read error.  Positions are left out.                       *)
(***************************************************************************)
EXTENDS Integers, Sequences

CONSTANTS
    Types,     \* words in StringToType
    Classes,   \* words in StringToClass
    BadTorc    \* words that begin with TYPE or CLASS and go on with no number

Broken == "read error"

Lex(value, token) == [value |-> value, token |-> token, err |-> FALSE]
LexError(l) == [l EXCEPT !.err = TRUE, !.token = <<"error">>]
EOF == Lex("zEOF", <<>>)
Newline == Lex("zNewline", <<"\n">>)
Blank == Lex("zBlank", <<" ">>)
Quote == Lex("zQuote", <<"\"">>)
None == Lex("none", <<>>)

newZLexer(text) ==
    [text |-> text, pos |-> 1, readErr |-> "nil", comBuf |-> <<>>, comment |-> <<>>,
     l |-> EOF, cachedL |-> None, brace |-> 0, quote |-> FALSE, space |-> FALSE,
     commt |-> FALSE, rrtype |-> FALSE, owner |-> TRUE, nextL |-> FALSE]

-----------------------------------------------------------------------------
(* One call of Next, in the middle of a text: s.zl the lexer, s.str and    *)
(* s.com the text and the comment gathered, s.ret what to return.          *)

Text(s, x) == [s EXCEPT !.str = Append(@, x), !.escape = FALSE]
Comm(s, x) == [s EXCEPT !.com = Append(@, x)]

\* Return first and keep then for the following call, or return then.
Return(s, first, then) ==
    IF first = None THEN [s EXCEPT !.ret = then, !.zl.l = then]
    ELSE [s EXCEPT !.ret = first, !.zl.l = then, !.zl.nextL = TRUE]
Fails(s) == Return(s, None, LexError(s.zl.l))

Directives == {<<"$", "TTL">>, <<"$", "ORIGIN">>, <<"$", "INCLUDE">>, <<"$", "GENERATE">>}
DirectiveOf(str) ==
    CASE str = <<"$", "TTL">> -> "zDirTTL"
      [] str = <<"$", "ORIGIN">> -> "zDirOrigin"
      [] str = <<"$", "INCLUDE">> -> "zDirInclude"
      [] str = <<"$", "GENERATE">> -> "zDirGenerate"
      [] OTHER -> "zOwner"

isType(str) == Len(str) = 1 /\ str[1] \in Types
isClass(str) == Len(str) = 1 /\ str[1] \in Classes

\* The value of a string that a blank ends; the owner is the first one on a
\* line, and after the type nothing is a type or a class.
ValueOf(zl, str) ==
    CASE zl.owner -> DirectiveOf(str)
      [] ~zl.owner /\ ~zl.rrtype /\ isClass(str) -> "zClass"
      [] ~zl.owner /\ ~zl.rrtype /\ isType(str) /\ ~isClass(str) -> "zRrtpe"
      [] OTHER -> "zString"

onBlank(s) ==
    LET zl == s.zl
        first == IF s.str = <<>> THEN None ELSE Lex(ValueOf(zl, s.str), s.str)
        seen == [s EXCEPT !.zl.owner = FALSE,
                          !.zl.rrtype = @ \/ (s.str # <<>> /\ ~zl.owner /\ isType(s.str))]
        bad == ~zl.owner /\ ~zl.rrtype /\ Len(s.str) = 1 /\ s.str[1] \in BadTorc
    IN  CASE s.escape \/ zl.quote -> Text(s, " ")
          [] ~(s.escape \/ zl.quote \/ zl.commt) /\ bad -> Fails([s EXCEPT !.zl.l = first])
          [] ~(s.escape \/ zl.quote) /\ zl.commt -> Comm(s, " ")
          [] ~(s.escape \/ zl.quote \/ zl.commt \/ bad) /\ ~zl.space ->
                 Return([seen EXCEPT !.zl.space = TRUE], first, Blank)
          [] ~(s.escape \/ zl.quote \/ zl.commt \/ bad) /\ zl.space /\ first # None ->
                 [seen EXCEPT !.ret = first, !.zl.l = first]
          [] OTHER -> seen

onSemicolon(s) ==
    LET com == (IF Len(s.com) > 1 THEN Append(s.com, " ") ELSE s.com) \o <<";">>
        in == [s EXCEPT !.zl.commt = TRUE, !.zl.comBuf = <<>>, !.com = com]
    IN  CASE s.escape \/ s.zl.quote -> Text(s, ";")
          [] ~(s.escape \/ s.zl.quote) /\ s.str # <<>> ->
                 Return([in EXCEPT !.zl.comBuf = com], None, Lex("zString", s.str))
          [] OTHER -> in

onReturn(s) == IF s.zl.quote THEN Text(s, "\r") ELSE [s EXCEPT !.escape = FALSE]

\* The end of a line; inside braces it ends a comment but no record, and is no
\* separator either.
onNewline(s) ==
    LET zl == s.zl
        e == [s EXCEPT !.escape = FALSE]
        first == CASE s.str = <<>> -> None
                   [] s.str # <<>> /\ ~zl.rrtype /\ isType(s.str) -> Lex("zRrtpe", s.str)
                   [] OTHER -> Lex("zString", s.str)
    IN  CASE zl.quote -> Text(e, "\n")
          [] ~zl.quote /\ zl.commt /\ zl.brace = 0 ->
                 Return([e EXCEPT !.zl.commt = FALSE, !.zl.rrtype = FALSE, !.zl.owner = TRUE,
                                  !.zl.comment = s.com], None, Newline)
          [] ~zl.quote /\ zl.commt /\ zl.brace # 0 ->
                 [e EXCEPT !.zl.commt = FALSE, !.zl.rrtype = FALSE, !.zl.comBuf = s.com]
          [] ~zl.quote /\ ~zl.commt /\ zl.brace = 0 ->
                 Return([e EXCEPT !.zl.comment = zl.comBuf, !.zl.comBuf = <<>>,
                                  !.zl.rrtype = FALSE, !.zl.owner = TRUE], first, Newline)
          [] OTHER -> e

onBackslash(s) ==
    CASE s.zl.commt -> Comm(s, "\\")
      [] ~s.zl.commt /\ s.escape -> Text(s, "\\")
      [] OTHER -> [Text(s, "\\") EXCEPT !.escape = TRUE]

onQuote(s) ==
    LET first == IF s.str = <<>> THEN None ELSE Lex("zString", s.str)
    IN  CASE s.zl.commt -> Comm(s, "\"")
          [] ~s.zl.commt /\ s.escape -> Text(s, "\"")
          [] OTHER -> Return([s EXCEPT !.zl.space = FALSE, !.zl.quote = ~@], first, Quote)

onBrace(s, x) ==
    CASE s.zl.commt -> Comm(s, x)
      [] ~s.zl.commt /\ (s.escape \/ s.zl.quote) -> Text(s, x)
      [] ~s.zl.commt /\ ~(s.escape \/ s.zl.quote) /\ x = ")" /\ s.zl.brace = 0 ->
             Fails([s EXCEPT !.zl.brace = -1])
      [] OTHER -> [s EXCEPT !.zl.brace = IF x = ")" THEN @ - 1 ELSE @ + 1]

onWord(s, x) ==
    IF s.zl.commt THEN [Comm(s, x) EXCEPT !.escape = FALSE]
    ELSE [Text(s, x) EXCEPT !.zl.space = FALSE]

onChar(s, x) ==
    CASE x = " " -> onBlank(s)
      [] x = ";" -> onSemicolon(s)
      [] x = "\r" -> onReturn(s)
      [] x = "\n" -> onNewline(s)
      [] x = "\\" -> onBackslash(s)
      [] x = "\"" -> onQuote(s)
      [] x \in {"(", ")"} -> onBrace(s, x)
      [] OTHER -> onWord(s, x)

\* No more text: what was gathered, then the comment's newline, then an open
\* brace, then nothing.
onEnd(s) ==
    LET first == IF s.str = <<>> THEN None ELSE Lex("zString", s.str)
    IN  CASE s.zl.readErr = "bad" -> [s EXCEPT !.ret = EOF]
          [] s.zl.readErr # "bad" /\ s.com # <<>> ->
                 Return([s EXCEPT !.zl.comment = s.com], first, Newline)
          [] s.zl.readErr # "bad" /\ s.com = <<>> /\ first # None -> Return(s, None, first)
          [] s.zl.readErr # "bad" /\ s.com = <<>> /\ first = None /\ s.zl.brace # 0 -> Fails(s)
          [] OTHER -> [s EXCEPT !.ret = EOF]

\* A turn of the loop over the characters of zl.readByte.
scanTurn(s) ==
    LET zl == s.zl
        x == zl.text[zl.pos]
    IN  IF s.ret # None THEN s
        ELSE IF zl.readErr # "nil" THEN onEnd(s)
        ELSE IF zl.pos > Len(zl.text) THEN onEnd([s EXCEPT !.zl.readErr = "EOF"])
        ELSE IF x = Broken THEN onEnd([s EXCEPT !.zl.readErr = "bad"])
        ELSE onChar([s EXCEPT !.zl.pos = @ + 1], x)

\* What n turns of a loop make of s.
Iterate(turn(_), s, n) ==
    LET after[k \in 0..n] == IF k = 0 THEN s ELSE turn(after[k - 1])
    IN  after[n]

\* One turn for each character that is left, and one for the end.
scan(s) == Iterate(scanTurn, s, Len(s.zl.text) - s.zl.pos + 2)

\* What the loop has found.
Scanned(s) == [l |-> s.ret, ok |-> s.ret # EOF, zl |-> s.zl]

\* (lex, ok) and the lexer after the call; a lexer that has met an error returns
\* no more tokens.
LexNext(zl) ==
    CASE zl.cachedL # None -> [l |-> zl.cachedL, ok |-> TRUE, zl |-> [zl EXCEPT !.cachedL = None]]
      [] zl.cachedL = None /\ zl.nextL -> [l |-> zl.l, ok |-> TRUE, zl |-> [zl EXCEPT !.nextL = FALSE]]
      [] zl.cachedL = None /\ ~zl.nextL /\ zl.l.err -> [l |-> EOF, ok |-> FALSE, zl |-> zl]
      [] OTHER ->
             Scanned(scan([zl |-> [zl EXCEPT !.comBuf = <<>>, !.comment = <<>>],
                           str |-> <<>>, com |-> zl.comBuf, escape |-> FALSE, ret |-> None]))

\* The token r that was read ahead is kept for the next call.
KeepToken(r) ==
    CASE ~r.ok -> [l |-> r.l, zl |-> r.zl]
      [] r.ok /\ r.zl.nextL -> [l |-> r.l, zl |-> [r.zl EXCEPT !.cachedL = r.l]]
      [] OTHER -> [l |-> r.l, zl |-> [r.zl EXCEPT !.nextL = TRUE]]
Peek(zl) == IF zl.nextL THEN [l |-> zl.l, zl |-> zl] ELSE KeepToken(LexNext(zl))

\* A bound on the tokens that a lexer has still to return: two that were read
\* ahead, two for each character, and at the end a word, a newline, an error and EOF.
TokensLeft(zl) == 2 * (Len(zl.text) - zl.pos) + 8

Comment(zl) == IF zl.l.err THEN <<>> ELSE zl.comment

=============================================================================
