------------------------------- MODULE Lexing --------------------------------
(***************************************************************************)
(* The lexer against the way commands are written: how tokens are spelled, *)
(* and a specification in which the lexer reads a text token by token.     *)
(***************************************************************************)
EXTENDS Lexer

CONSTANTS
    Texts,      \* texts to read, any sequences of characters
    Phrases     \* sequences of tokens that are written down and read

VARIABLES text, means, lexer, tokens

vars == <<text, means, lexer, tokens>>

-----------------------------------------------------------------------------
(* How tokens are spelled.                                                 *)

OperatorOf(expr) ==
    IF expr.oper \in {"Get", "StringLength"} THEN << >>
    ELSE CHOOSE o \in DOMAIN ParamOpers : ParamOpers[o] = <<expr.oper, expr.allow_null>>

RECURSIVE SpelledWord(_, _)
RECURSIVE Spelled(_)

RECURSIVE Numerals(_)
Numerals(n) == IF n < 10 THEN Decimal(n) ELSE Numerals(n \div 10) \o Decimal(n % 10)

\* What each kind of component looks like outside of quotes; the words of a `${}`
\* are apart from the operator.  `${#}` is not how to write $#.
Bare(c) ==
    CASE c.kind = "lit" -> c.text
      [] c.kind = "tilde" -> <<"~">> \o (IF IsNone(c.name) THEN << >> ELSE c.name.str)
      [] c.kind = "subst" -> <<"$", "(", " ">> \o Spelled(c.tokens) \o <<")">>
      [] c.kind = "param" /\ c.expr.name = <<"#">> -> <<"$", "#">>
      [] c.kind = "param" /\ c.expr.name # <<"#">> ->
           <<"$", "{">> \o (IF c.expr.oper = "StringLength" THEN <<"#">> ELSE << >>)
           \o c.expr.name \o OperatorOf(c.expr)
           \o FlattenSeq([i \in DOMAIN c.expr.word |-> <<" ">> \o SpelledWord(c.expr.word[i], FALSE)])
           \o <<"}">>

\* A colon of an assignment is not quoted, although its component is.
Component(c, assigned) ==
    IF c.splittable \/ c.kind = "tilde" \/ (assigned /\ c = Quoted(<<":">>)) THEN Bare(c)
    ELSE IF c.kind = "lit" /\ ~c.remove_backslash THEN <<"'">> \o c.text \o <<"'">>
    ELSE <<"\"">> \o Bare(c) \o <<"\"">>

SpelledWord(word, assigned) ==
    FlattenSeq([i \in DOMAIN word |-> Component(word[i], assigned)])

\* Nothing is between a descriptor and its operator, nor after an assignment
\* without a value.
SpelledToken(tok) ==
    CASE tok.kind = "op" ->
           Operators[CHOOSE i \in DOMAIN OperatorNames : OperatorNames[i] = tok.text] \o <<" ">>
      [] tok.kind = "word" -> SpelledWord(tok.word, FALSE) \o <<" ">>
      [] tok.kind = "assign" ->
           tok.name \o <<"=">> \o SpelledWord(tok.value, TRUE)
           \o IF tok.value = << >> THEN << >> ELSE <<" ">>
      [] tok.kind = "io" -> Numerals(tok.fd)
      [] tok.kind = "newline" -> <<"\n">>

Spelled(toks) == FlattenSeq([i \in DOMAIN toks |-> SpelledToken(toks[i])])

-----------------------------------------------------------------------------
(* Reading a text.                                                         *)

Init ==
    /\ \/ text \in Texts /\ means = << >>
       \/ \E phrase \in Phrases : text = Spelled(phrase) /\ means = phrase
    /\ lexer = LexerOf(text) /\ tokens = << >>

Ended == Failed(lexer) \/ lexer.out \in {<<Eof>>, <<EndSubst>>}

Read ==
    /\ ~Ended
    /\ lexer' = LexToken(lexer)
    /\ tokens' = IF Failed(lexer') \/ lexer'.out = <<Eof>> THEN tokens ELSE Append(tokens, lexer'.out[1])
    /\ UNCHANGED <<text, means>>

Done == Ended /\ UNCHANGED vars

Next == Read \/ Done

Spec == Init /\ [][Next]_vars

-----------------------------------------------------------------------------
(* Properties.                                                             *)

Complete == Ended /\ ~Failed(lexer) /\ ~lexer.swallowed
Has(chars) == \E i \in DOMAIN text : text[i] \in chars
At(i, s) == IsPrefix(s, SubSeq(text, i, Len(text)))

\* However quotes, substitutions and `${}` nest, between two tokens the lexer is
\* back where it began, with no word half read, unless it dropped an error.
Balanced ==
    ~Failed(lexer) /\ ~lexer.swallowed =>
        lexer.stack = <<StateOf("top")>> /\ (Ended => lexer.last = << >>)

\* Any text that was read is tokens that can be written down, and read again they
\* are the same: no two ways to quote are confused, nothing is split or joined.
\* Left out are a colon in single quotes, which looks like one that separates the
\* parts of an assignment; a name and the = on the next line, which are no
\* assignment; and parentheses and `${` beside backquotes, where they need not match.
Lookalike ==
    \/ \E i \in DOMAIN text : At(i, <<"'", ":", "'">>) \/ At(i, <<"\\", "\n", "=">>)
    \/ Has({"bq"}) /\ Has({"(", ")", "{"})
ReadsAgain == Complete /\ ~Lookalike => Lexed(Spelled(tokens)) = tokens

\* Nothing that was read is lost, doubled or moved: every character that is not
\* layout or quoting is in the tokens, in order.  A comment is lost, rightly.
LayoutAndQuotes == Blanks \union {"\n", "'", "\"", "\\", "$", "{", "}", "(", ")", "bq"}
Kept(t) == SelectSeq(t, LAMBDA c : c \notin LayoutAndQuotes)
NothingLost ==
    Complete /\ (Has({"#"}) => means # << >>) => Kept(Spelled(tokens)) = Kept(text)

\* Tokens that are written down are read as they were meant.
ReadAsMeant == Ended /\ means # << >> => ~Failed(lexer) /\ tokens = means

\* The lexer's assertions fail on two kinds of text only: a $, perhaps with { and #,
\* that no parameter follows, and NAME=NAME= without a value.
NoParameter(i) ==
    \E opener \in {<<"$">>, <<"$", "{">>, <<"$", "{", "#">>} :
        /\ At(i, opener)
        /\ \A c \in {"@", "*", "#", "?", "$", "!", "-"} \union LongNames \union ToSet(Digits) :
                ~At(i, Append(opener, c))
        /\ \A c \in Letters, d \in NameChars : ~At(i, opener \o <<c, d>>)
NoValue(i) ==
    \E name \in SeqOf(NameChars, 2) : At(i, <<"=">> \o name \o <<"=">>) /\ name # << >>
AssertionsHold ==
    lexer.error = <<LexError("panic")>> => \E i \in DOMAIN text : NoParameter(i) \/ NoValue(i)
=============================================================================
