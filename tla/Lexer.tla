-------------------------------- MODULE Lexer --------------------------------
(***************************************************************************)
(* The lexer (src/shell_lexer/src/lexer.rs, reader.rs): characters to the  *)
(* tokens of Parser.  A lexer is                                           *)
(*   text, pos   the characters, and how many of them have been read       *)
(*   stack       its states, innermost last, each with the word it is      *)
(*               reading (empty for None) and the open parentheses         *)
(*   last        a token put back, if any                                  *)
(*   out, error  what an operation returns, as in Parser                   *)
(*   swallowed   history: whether an error was dropped on the way          *)
(* Positions and spans are left out.  A character that is a letter stands  *)
(* for itself or for a run of letters; "if" is one.  "bq" is a backquote.  *)
(***************************************************************************)
EXTENDS Parser

CONSTANTS
    Letters,    \* names of one letter
    LongNames   \* names, or parts of names, of several letters

NameStart == Letters \union LongNames
NameChars == NameStart \union ToSet(Digits)
Blanks == {" ", "\t", "\r"}

\* The operators, in the order in which they are tried.
Operators ==
    << <<"<", "<", "-">>, <<"<", "<">>, <<"<", "&">>, <<"<", ">">>, <<">", ">">>, <<">", "|">>,
       <<">", "&">>, <<"&", "&">>, <<"|", "|">>, <<";", ";">>, <<"<">>, <<"&">>, <<"|">>,
       <<";">>, <<">">>, <<"(">>, <<")">> >>
OperatorNames ==
    <<"<<-", "<<", "<&", "<>", ">>", ">|", ">&", "&&", "||", ";;", "<", "&", "|", ";", ">", "(", ")">>

-----------------------------------------------------------------------------
(* The reader.                                                             *)

StateOf(s) == [state |-> s, word |-> << >>, parens |-> 0]

\* Lexer::new
LexerOf(text) ==
    [text |-> text, pos |-> 0, stack |-> <<StateOf("top")>>, last |-> << >>,
     out |-> << >>, error |-> << >>, swallowed |-> FALSE]

\* The n-th character that was not read yet; the empty string at the end.
Peek(l, n) == IF l.pos + n <= Len(l.text) THEN l.text[l.pos + n] ELSE ""
Skip(l, n) == [l EXCEPT !.pos = @ + n]
Ahead(l) == SubSeq(l.text, l.pos + 1, Len(l.text))

\* How many of the next characters are in S.
RunLength(l, S) ==
    CHOOSE n \in 0 .. Len(l.text) :
        /\ \A i \in 1 .. n : Peek(l, i) \in S
        /\ Peek(l, n + 1) \notin S

Panic(l) == Fail(l, LexError("panic"))
Bail(l) == Fail(l, LexError("bail"))
AtEof(l) == Fail(l, OpenQuote)

\* CharReader::unget: c was the last character read, or an assertion fails.
Unget(l, c) == IF l.pos > 0 /\ l.text[l.pos] = c THEN [l EXCEPT !.pos = @ - 1] ELSE Panic(l)

\* LiteralMatcher::matches: the index of the operator that comes next, or 0.
OperatorAt(l) ==
    LET here == {i \in DOMAIN Operators : IsPrefix(Operators[i], Ahead(l))}
    IN  IF here = {} THEN 0 ELSE Min(here)

\* matches_io_number: the digits before `<` or `>`, or 0 of them.
IoNumberAt(l) ==
    LET n == RunLength(l, ToSet(Digits)) IN IF Peek(l, n + 1) \in {"<", ">"} THEN n ELSE 0

\* matches_assignment_word: the length of the name before `=`, or 0.
AssignmentAt(l) ==
    LET n == RunLength(l, NameChars)
    IN  IF Peek(l, 1) \in NameStart /\ Peek(l, n + 1) = "=" THEN n ELSE 0

\* Mutant of ParameterAt: no special parameters.
ParameterAtNamed(l) ==
    LET n == RunLength(l, NameChars)
    IN  IF Peek(l, 1) \in ToSet(Digits) THEN RunLength(l, ToSet(Digits))
        ELSE IF n >= 2 \/ Peek(l, 1) \in LongNames THEN n
        ELSE 0

\* PARAM_RE: the length of the parameter that comes next, or 0; a name has at
\* least two letters or digits.
ParameterAt(l) ==
    LET n == RunLength(l, NameChars)
    IN  IF Peek(l, 1) \in ToSet(Digits) THEN RunLength(l, ToSet(Digits))
        ELSE IF Peek(l, 1) \in {"@", "*", "#", "?", "$", "!", "-"} THEN 1
        ELSE IF n >= 2 \/ Peek(l, 1) \in LongNames THEN n
        ELSE 0

\* OPER_RE: the length of what comes after the parameter in `${}`, or 0.  The range
\* from `#` to `=` takes in more than operators.
OperatorChars ==
    ToSet(Digits) \union {"%", "#", "$", "&", "'", "(", ")", "*", "+", ",", "-", ".", "/", ":", ";", "<", "=", "?"}
ParamOperAt(l) ==
    IF Peek(l, 1) \in {"%", "#", ":"} /\ Peek(l, 2) \in OperatorChars THEN 2
    ELSE IF Peek(l, 1) \in OperatorChars THEN 1 ELSE 0

\* The operators of `${}` and what they mean; those that remove a prefix or a
\* suffix have no allow_null.
ParamOpers ==
    (<<":", "-">> :> <<"GetDefault", FALSE>>) @@ (<<"-">> :> <<"GetDefault", TRUE>>)
    @@ (<<":", "=">> :> <<"AssignDefault", FALSE>>) @@ (<<"=">> :> <<"AssignDefault", TRUE>>)
    @@ (<<":", "?">> :> <<"CheckSet", FALSE>>) @@ (<<"?">> :> <<"CheckSet", TRUE>>)
    @@ (<<":", "+">> :> <<"AlternativeValue", FALSE>>) @@ (<<"+">> :> <<"AlternativeValue", TRUE>>)
    @@ (<<"%">> :> <<"RemoveSmallestSuffixPattern", FALSE>>)
    @@ (<<"%", "%">> :> <<"RemoveLargestSuffixPattern", FALSE>>)
    @@ (<<"#">> :> <<"RemoveSmallestPrefixPattern", FALSE>>)
    @@ (<<"#", "#">> :> <<"RemoveLargestPrefixPattern", FALSE>>)

-----------------------------------------------------------------------------
(* Words.                                                                  *)

Depth(l) == Len(l.stack)
State(l) == l.stack[Depth(l)].state
WordOf(l) == l.stack[Depth(l)].word
PushState(l, s) == [l EXCEPT !.stack = Append(@, StateOf(s))]
PopState(l) == [l EXCEPT !.stack = Front(@)]
SetWord(l, w) == [l EXCEPT !.stack[Depth(l)].word = w]

Quoted(t) == [kind |-> "lit", text |-> t, splittable |-> FALSE, remove_backslash |-> FALSE]
EndSubst == [kind |-> "end of substitution"]
EndParam == [kind |-> "end of parameter"]
Substitution(tokens) == [kind |-> "subst", tokens |-> tokens, splittable |-> TRUE]

AddToWord(l, component) == SetWord(l, Append(WordOf(l), component))

IsPlain(component) ==
    component.kind = "lit" /\ component.splittable /\ component.remove_backslash

\* Mutant of AddChar: a character after quotes is quoted, too.
AddCharQuoted(l, c) ==
    LET w == WordOf(l)
    IN  IF w # << >> /\ Last(w).kind = "lit"
          THEN SetWord(l, [w EXCEPT ![Len(w)].text = Append(@, c)])
          ELSE AddToWord(l, Literal(<<c>>))

\* add_char_to_word: to the literal that the word ends in, unless that is quoted.
AddChar(l, c) ==
    LET w == WordOf(l)
    IN  IF w # << >> /\ IsPlain(Last(w))
          THEN SetWord(l, [w EXCEPT ![Len(w)].text = Append(@, c)])
          ELSE AddToWord(l, Literal(<<c>>))

\* Mutant of Tilded: what follows the slash is dropped.
TildedAlone(component) ==
    LET t == component.text
        n == CHOOSE k \in 1 .. Len(t) :
                 /\ \A i \in 2 .. k : t[i] \in NameChars
                 /\ k = Len(t) \/ t[k + 1] \notin NameChars
    IN  IF ~IsPlain(component) \/ t = << >> \/ t[1] # "~" THEN <<component>>
        ELSE <<[kind |-> "tilde", name |-> IF n = 1 THEN NoneV ELSE Str(SubSeq(t, 2, n)),
                splittable |-> FALSE]>>

\* apply_single_tilde_expansion: ~ or ~name at the start of a literal, up to its
\* end or a slash; a name has at least two letters or digits.
Tilded(component) ==
    LET t == component.text
        n == CHOOSE k \in 1 .. Len(t) :
                 /\ \A i \in 2 .. k : t[i] \in NameChars
                 /\ k = Len(t) \/ t[k + 1] \notin NameChars
        named == t[2] \in NameStart /\ (n > 2 \/ t[2] \in LongNames)
        name == IF n = 1 THEN NoneV ELSE Str(SubSeq(t, 2, n))
        rest == SubSeq(t, n + 1, Len(t))
    IN  IF ~IsPlain(component) \/ t = << >> \/ t[1] # "~" THEN <<component>>
        ELSE IF (n > 1 /\ ~named) \/ (rest # << >> /\ rest[1] # "/") THEN <<component>>
        ELSE <<[kind |-> "tilde", name |-> name, splittable |-> FALSE]>>
             \o IF rest = << >> THEN << >> ELSE <<Literal(rest)>>

\* split_first_word_by_unquoted_colons: the parts of a literal between colons, and
\* the colons.  A backslash before a colon keeps it.
AtColons(component) ==
    LET t == component.text
        cut(i) == t[i] = ":" /\ (i = 1 \/ t[i - 1] # "\\")
        step(a, i) == IF cut(i) THEN a \o <<Quoted(<<":">>), Literal(<< >>)>>
                      ELSE [a EXCEPT ![Len(a)].text = Append(@, t[i])]
    IN  IF IsPlain(component) THEN FoldLeft(step, <<Literal(<< >>)>>, [i \in DOMAIN t |-> i])
        ELSE <<component>>

\* delimit_current_word: the word is over; a tilde at its start, in an assignment
\* also after a colon, is expanded.
DelimitWord(l) ==
    LET w == WordOf(l)
        first == IF State(l) = "assignment" THEN AtColons(w[1]) ELSE <<w[1]>>
    IN  Yield(SetWord(l, << >>),
              Word(FlattenSeq([i \in DOMAIN first |-> Tilded(first[i])]) \o Tail(w)))

\* Mutant of SingleQuotes: the end of the text closes them, too.
SingleQuotesToEnd(l) ==
    LET n == RunLength(Skip(l, 1), UNION {{l.text[i]} : i \in DOMAIN l.text} \ {"'"})
        close == IF Peek(l, n + 2) = "" THEN 0 ELSE 1
    IN  AddToWord(Skip(l, n + 1 + close), Quoted(SubSeq(l.text, l.pos + 2, l.pos + 1 + n)))

\* single_quotes
SingleQuotes(l) ==
    LET n == RunLength(Skip(l, 1), UNION {{l.text[i]} : i \in DOMAIN l.text} \ {"'"})
    IN  IF Peek(l, n + 2) = "" THEN AtEof(Skip(l, n + 1))
        ELSE AddToWord(Skip(l, n + 2), Quoted(SubSeq(l.text, l.pos + 2, l.pos + 1 + n)))

\* backslash: with the next character, a newline excepted, part of the word.
Backslash(l) ==
    IF Peek(l, 2) = "" THEN AtEof(l)
    ELSE IF Peek(l, 2) = "\n" THEN Skip(l, 2)
    ELSE AddChar(AddChar(Skip(l, 2), "\\"), Peek(l, 2))

\* comment: up to the end of the line, which goes with it.
Comment(l) ==
    LET n == RunLength(l, UNION {{l.text[i]} : i \in DOMAIN l.text} \ {"\n"})
    IN  IF Peek(l, n + 1) = "" THEN Skip(l, n) ELSE Skip(l, n + 1)

-----------------------------------------------------------------------------
(* Expansions and tokens, which nest in each other.                        *)

RECURSIVE NextOf(_)

\* An error inside a substitution or a `${}` ends it as if it were complete; the
\* states that were left behind stay.  A panic is no error.
Swallowed(l) == Failed(l) /\ l.error # <<LexError("panic")>>
Swallow(l) == [l EXCEPT !.error = << >>, !.swallowed = TRUE]

RECURSIVE Inside(_, _, _)
\* The tokens up to the one that ends the state, of which only some kinds may
\* occur; out is the sequence of them.
Inside(l, end, tokens) ==
    LET m == NextOf(l)
        tok == m.out[1]
    IN  IF Swallowed(m) THEN Yield(Swallow(m), tokens)
        ELSE IF Failed(m) THEN m
        ELSE IF tok = end THEN Yield(m, tokens)
        ELSE IF tok = Eof THEN AtEof(m)
        ELSE IF end = EndSubst THEN Inside(m, end, Append(tokens, tok))
        ELSE IF tok = Newline THEN Inside(m, end, tokens)
        ELSE IF tok.kind = "word" THEN Inside(m, end, Append(tokens, tok.word))
        ELSE Bail(m)

\* Mutant of AsComponent: the state stays.
AsComponentNoPop(m, component) == AddToWord(m, component)

\* What was inside becomes a component of the word outside.
AsComponent(m, component) == AddToWord(PopState(m), component)

\* command
CommandSubst(l, closer) ==
    LET opened == PushState(l, closer)
        m == Inside([opened EXCEPT !.stack[Depth(opened)].parens = IF closer = ")" THEN 1 ELSE 0],
                    EndSubst, << >>)
    IN  IF Failed(m) THEN m ELSE AsComponent(m, Substitution(m.out[1]))

ParamExpand(oper, name, word) ==
    [kind |-> "param", splittable |-> TRUE,
     expr |-> [oper |-> oper[1], allow_null |-> oper[2], name |-> name, word |-> word]]

\* The words of `${NAME operator words}`.
BracedWords(l, oper, name) ==
    LET m == Inside(PushState(l, "parameter"), EndParam, << >>)
    IN  IF Failed(m) THEN m ELSE AsComponent(m, ParamExpand(oper, name, m.out[1]))

\* `${`: # for the length, a parameter, an operator, words.
Braced(l) ==
    LET length == Peek(l, 1) = "#"
        named == IF length THEN Skip(l, 1) ELSE l
        n == ParameterAt(named)
        name == SubSeq(named.text, named.pos + 1, named.pos + n)
        after == Skip(named, n)
        k == IF length THEN 0 ELSE ParamOperAt(after)
        oper == SubSeq(after.text, after.pos + 1, after.pos + k)
        back == Unget(named, "{")
    IN  IF Peek(l, 1) = "" THEN AtEof(l)
        ELSE IF n = 0 THEN IF Failed(back) THEN back ELSE AddChar(back, "$")
        ELSE IF length THEN BracedWords(after, <<"StringLength", FALSE>>, name)
        ELSE IF k = 0 THEN BracedWords(after, <<"Get", FALSE>>, name)
        ELSE IF oper \in DOMAIN ParamOpers THEN BracedWords(Skip(after, k), ParamOpers[oper], name)
        ELSE Bail(after)

\* dollar.  Where no parameter follows, the character after the $ is put back a
\* second time.
Dollar(l) ==
    LET after == Skip(l, 1)
        c == Peek(after, 1)
        n == ParameterAt(after)
    IN  IF c = "" \/ (c = "(" /\ Peek(after, 2) = "") THEN AtEof(after)
        ELSE IF c = "(" /\ Peek(after, 2) = "(" THEN Bail(after)
        ELSE IF c = "(" THEN CommandSubst(Skip(after, 1), ")")
        ELSE IF c = "{" THEN Braced(Skip(after, 1))
        ELSE IF n = 0 THEN AddChar(Unget(after, c), "$")
        ELSE AddToWord(Skip(after, n),
                       ParamExpand(<<"Get", FALSE>>, SubSeq(after.text, after.pos + 1, after.pos + n), << >>))

RECURSIVE InQuotes(_, _)
\* The characters up to the quote that no backslash precedes.
InQuotes(l, escaped) ==
    LET c == Peek(l, 1)
    IN  IF Failed(l) THEN l
        ELSE IF c = "" THEN AtEof(l)
        ELSE IF c = "\"" /\ ~escaped THEN Skip(l, 1)
        ELSE IF c = "$" /\ ~escaped THEN InQuotes(Dollar(l), FALSE)
        ELSE InQuotes(AddChar(Skip(l, 1), c), c = "\\")

\* double_quotes: nothing of what is inside is split.
DoubleQuotes(l) ==
    LET m == InQuotes(PushState(Skip(l, 1), "quotes"), FALSE)
        unsplit == [i \in DOMAIN WordOf(m) |-> [WordOf(m)[i] EXCEPT !.splittable = FALSE]]
        outer == PopState(m)
    IN  IF Failed(m) THEN m ELSE SetWord(outer, WordOf(outer) \o unsplit)

-----------------------------------------------------------------------------
(* One token.                                                              *)

\* What ends the innermost state: `}`, a backquote, a backquote with a backslash.
Closes(l) ==
    \/ State(l) = "parameter" /\ Peek(l, 1) = "}"
    \/ State(l) = "bq" /\ Peek(l, 1) = "bq"
    \/ State(l) = "\\" /\ Peek(l, 1) = "\\" /\ Peek(l, 2) = "bq"

\* A word is over where something comes that cannot be part of it.
EndsWord(l) ==
    \/ OperatorAt(l) > 0 \/ IoNumberAt(l) > 0 \/ AssignmentAt(l) > 0 \/ Closes(l)
    \/ Peek(l, 1) \in Blanks \union {"\n", ""}

\* Mutant of ReadOperator: parentheses inside a substitution are not counted.
ReadOperatorUncounted(l) ==
    LET name == OperatorNames[OperatorAt(l)]
        m == Skip(l, Len(Operators[OperatorAt(l)]))
    IN  IF State(l) = ")" /\ name = ")" THEN Yield(m, EndSubst) ELSE Yield(m, Op(name))

\* An operator; in `$()`, the parenthesis that closes it ends it.
ReadOperator(l) ==
    LET name == OperatorNames[OperatorAt(l)]
        m == Skip(l, Len(Operators[OperatorAt(l)]))
        open == l.stack[Depth(l)].parens
        counted == [m EXCEPT !.stack[Depth(l)].parens = IF name = "(" THEN open + 1 ELSE open - 1]
    IN  IF State(l) # ")" \/ name \notin {"(", ")"} THEN Yield(m, Op(name))
        ELSE IF name = ")" /\ open = 1 THEN Yield(counted, EndSubst)
        ELSE Yield(counted, Op(name))

\* NAME= and the word that follows it; any other token that follows is put back,
\* for which there is room for one.
ReadAssignment(l) ==
    LET n == AssignmentAt(l)
        name == SubSeq(l.text, l.pos + 1, l.pos + n)
        m == NextOf(PushState(Skip(l, n + 1), "assignment"))
        tok == m.out[1]
    IN  IF Failed(m) THEN m
        ELSE IF tok.kind = "word" THEN Yield(PopState(m), Assignment(name, tok.word))
        ELSE IF m.last # << >> THEN Panic(m)
        ELSE Yield(PopState([m EXCEPT !.last = <<tok>>]), Assignment(name, << >>))

\* next_io_number
ReadIoNumber(l) ==
    LET digits == SubSeq(l.text, l.pos + 1, l.pos + IoNumberAt(l))
        m == Skip(l, Len(digits))
    IN  Yield(m, IoNumber(FoldLeft(LAMBDA n, d : 10 * n + Number(<<d>>), 0, digits)))

\* Something that is part of a word, or a comment.
Part(l) ==
    LET c == Peek(l, 1)
    IN  CASE c = "'" -> SingleQuotes(l)
          [] c = "\"" -> DoubleQuotes(l)
          [] c = "$" -> Dollar(l)
          [] c = "bq" -> CommandSubst(Skip(l, 1), "bq")
          [] c = "#" -> Comment(l)
          [] c = "\\" /\ State(l) = "bq" /\ Peek(l, 2) = "bq" -> CommandSubst(Skip(l, 2), "\\")
          [] c = "\\" /\ (State(l) # "bq" \/ Peek(l, 2) # "bq") -> Backslash(l)
          [] OTHER -> AddChar(Skip(l, 1), c)

\* top
NextOf(l) ==
    LET c == Peek(l, 1)
    IN  IF Failed(l) THEN l
        ELSE IF l.last # << >> THEN [l EXCEPT !.last = << >>, !.out = l.last]
        ELSE IF WordOf(l) # << >> /\ EndsWord(l) THEN DelimitWord(l)
        ELSE IF OperatorAt(l) > 0 THEN ReadOperator(l)
        ELSE IF IoNumberAt(l) > 0 THEN ReadIoNumber(l)
        ELSE IF AssignmentAt(l) > 0 THEN ReadAssignment(l)
        ELSE IF c = "" THEN Yield(l, Eof)
        ELSE IF c \in Blanks /\ State(l) = "assignment" THEN Yield(l, Word(<<Quoted(<< >>)>>))
        ELSE IF c \in Blanks THEN NextOf(Skip(l, 1))
        ELSE IF c = "\n" THEN Yield(Skip(l, 1), Newline)
        ELSE IF Closes(l) THEN Yield(Skip(l, IF c = "\\" THEN 2 ELSE 1), IF c = "}" THEN EndParam ELSE EndSubst)
        ELSE NextOf(Part(l))

\* next_token: no token can begin in double quotes that an error left open.
LexToken(l) == IF State(l) = "quotes" THEN Bail(l) ELSE NextOf(l)

RECURSIVE ReadFrom(_, _)

\* What becomes of the tokens with the one that m has read: they go on up to an
\* error, the end, or the end of a substitution that is none.
ReadOn(m, tokens) ==
    IF Failed(m) THEN Yield(m, Append(tokens, m.error[1]))
    ELSE IF m.out[1] = Eof THEN Yield(m, tokens)
    ELSE IF m.out[1] = EndSubst THEN Yield(m, Append(tokens, EndSubst))
    ELSE ReadFrom(m, Append(tokens, m.out[1]))

\* The tokens of a text as the parser reads them.
ReadFrom(l, tokens) == ReadOn(LexToken(l), tokens)

ReadAll(text) == ReadFrom(LexerOf(text), << >>)
Lexed(text) == ReadAll(text).out[1]
=============================================================================
