------------------------------ MODULE Patterns -------------------------------
(***************************************************************************)
(* How filenamegen reads a pattern: Glob::new splits it into nodes, the     *)
(* parser turns a component's characters into tokens, and the tokens into   *)
(* a regular expression that is matched against one name, or, behind **,    *)
(* against the rest of the path.                                            *)
(*                                                                         *)
(* A regular expression without alternatives is a sequence of elements: one *)
(* character of a set, any number of them, or the directories that ** takes;*)
(* one with alternatives is the set of the sequences they lead to.  What    *)
(* the regex crate reads in a class beyond characters and a leading ^ is    *)
(* left out: ranges, nested classes, and the set operators &&, -- and ~~.   *)
(***************************************************************************)
EXTENDS Files, Naturals, FiniteSets

CONSTANTS Alphabet     \* the characters names are made of, and "/"

-----------------------------------------------------------------------------
\* The parser

Token(kind, char) == [kind |-> kind, char |-> char]

ParseStart == [tokens |-> <<>>, quoted |-> FALSE, in_alternative |-> FALSE,
               in_class |-> FALSE, error |-> FALSE]

\* what one character adds; a backslash waits for the next character
ParseChar(p, c) ==
  LET Push(kind) == [p EXCEPT !.tokens = Append(@, Token(kind, c)), !.quoted = FALSE]
  IN  IF p.error THEN p
      ELSE IF p.quoted THEN Push("literal")
      ELSE IF c = "\\" THEN [p EXCEPT !.quoted = TRUE]
      ELSE IF p.in_class
        THEN CASE c = "]" -> [Push("end class") EXCEPT !.in_class = FALSE]
               [] c = "!" -> Push("negate")
               [] OTHER   -> Push("content")
      ELSE
        CASE c = "["    -> [Push("class") EXCEPT !.in_class = TRUE]
          [] c = "{"    -> IF p.in_alternative THEN [p EXCEPT !.error = TRUE]
                           ELSE [Push("alternative") EXCEPT !.in_alternative = TRUE]
          [] c = "," /\ p.in_alternative -> Push("next")
          [] c = "}" /\ p.in_alternative ->
               [Push("end alternative") EXCEPT !.in_alternative = FALSE]
          [] c = "?"    -> Push("any")
          [] c = "*"    -> Push("zero or more")
          [] OTHER      -> Push("literal")

\* a backslash that ends the component stands for itself; what is left open is an error
Parsed(component) ==
  LET p == FoldLeft(ParseChar, ParseStart, component)
  IN  [p EXCEPT !.tokens = IF p.quoted THEN Append(@, Token("literal", "\\")) ELSE @,
                !.error  = @ \/ p.in_alternative \/ p.in_class]

IsLiteral(tokens) == \A i \in DOMAIN tokens : tokens[i].kind = "literal"
Text(tokens)      == [i \in DOMAIN tokens |-> tokens[i].char]

-----------------------------------------------------------------------------
\* Tokens as regular expressions

One(chars)  == [kind |-> "one", chars |-> chars]
Many(chars) == [kind |-> "many", chars |-> chars]
Dirs        == [kind |-> "dirs", chars |-> {}]

NotSlash == Alphabet \ {"/"}
Visible  == Alphabet \ {".", "/"}

\* ? and *, which as a component's first token ask for a first character
Wildcard(kind, first) ==
  CASE kind = "any"          -> << One(IF first THEN Visible ELSE NotSlash) >>
    [] kind = "zero or more" ->
         IF first THEN << One(Visible), Many(NotSlash) >> ELSE << Many(NotSlash) >>

\* the tokens of the class that opens at i, and the set they stand for: a ^ that is
\* not quoted goes into the regular expression as it is, and the first one negates
ClassEnd(tokens, i) ==
  CHOOSE j \in DOMAIN tokens :
    /\ j > i /\ tokens[j].kind = "end class"
    /\ \A k \in (i + 1)..(j - 1) : tokens[k].kind # "end class"
ClassSet(tokens, i) ==
  LET negated == tokens[i + 1] \in {Token("negate", "!"), Token("content", "^")}
      members == {IF tokens[k].kind = "negate" THEN "^" ELSE tokens[k].char :
                    k \in (IF negated THEN i + 2 ELSE i + 1)..(ClassEnd(tokens, i) - 1)}
  IN  IF negated THEN Alphabet \ members ELSE members

\* a class without members is no regular expression
Compiles(tokens) ==
  \A i \in DOMAIN tokens : tokens[i].kind = "class" => ClassSet(tokens, i) \notin {{}, Alphabet}

\* the end of the group that i lies in or opens, and the starts of its alternatives
GroupEnd(tokens, i) ==
  CHOOSE j \in DOMAIN tokens :
    /\ j >= i /\ tokens[j].kind = "end alternative"
    /\ \A k \in i..(j - 1) : tokens[k].kind # "end alternative"
Starts(tokens, i) ==
  {i + 1} \cup {k + 1 : k \in {j \in i..GroupEnd(tokens, i) : tokens[j].kind = "next"}}

\* all sequences of elements that the tokens from i on lead to
Elements(tokens) ==
  LET from[i \in 1..(Len(tokens) + 1)] ==
        IF i > Len(tokens) THEN {<<>>}
        ELSE LET Then(element, j) == {element \o rest : rest \in from[j]}
             IN  CASE tokens[i].kind = "literal"     -> Then(<< One({tokens[i].char}) >>, i + 1)
                   [] tokens[i].kind = "class"       ->
                        Then(<< One(ClassSet(tokens, i)) >>, ClassEnd(tokens, i) + 1)
                   [] tokens[i].kind = "alternative" ->
                        UNION {from[k] : k \in Starts(tokens, i)}
                   [] tokens[i].kind = "next"        -> from[GroupEnd(tokens, i) + 1]
                   [] tokens[i].kind = "end alternative" -> from[i + 1]
                   [] OTHER -> Then(Wildcard(tokens[i].kind, i = 1), i + 1)
  IN  from[1]

\* ([^./][^/]*/?)* : whole names that do not start with a dot
AreDirs(text) ==
  \A k \in DOMAIN text :
    /\ k = 1 => text[k] \in Visible
    /\ text[k] = "/" /\ k < Len(text) => text[k + 1] \in Visible

\* does the sequence of elements match the whole text
Fits(elements, text) ==
  LET ends == 1..(Len(text) + 1)
      fits[k \in 1..(Len(elements) + 1), j \in ends] ==
        IF k > Len(elements) THEN j > Len(text)
        ELSE LET e == elements[k]
             IN  CASE e.kind = "one"  -> /\ j <= Len(text) /\ text[j] \in e.chars
                                         /\ fits[k + 1, j + 1]
                   [] e.kind = "many" -> \E m \in {n \in ends : n >= j} :
                                           /\ \A i \in j..(m - 1) : text[i] \in e.chars
                                           /\ fits[k + 1, m]
                   [] e.kind = "dirs" -> \E m \in {n \in ends : n >= j} :
                                           /\ AreDirs(SubSeq(text, j, m - 1))
                                           /\ fits[k + 1, m]
  IN  fits[1, 1]

-----------------------------------------------------------------------------
\* The nodes of a glob

Literals(path) == [kind |-> "literals", path |-> path, regex |-> {}]
Recursive      == [kind |-> "recursive", path |-> <<>>, regex |-> {}]
Regex(options) == [kind |-> "regex", path |-> <<>>, regex |-> options]

Recursion == <<"*", "*">>

\* the node of a component, once the parser accepts it
NodeOf(component) ==
  LET tokens == Parsed(component).tokens
  IN  IF component = Parent THEN Literals(<<Parent>>)
      ELSE IF component = Recursion THEN Recursive
      ELSE IF IsLiteral(tokens) THEN Literals(<<Text(tokens)>>)
      ELSE Regex(Elements(tokens))

\* contiguous literals are one node
AddNode(nodes, node) ==
  IF node.kind = "literals" /\ nodes # <<>> /\ Last(nodes).kind = "literals"
  THEN Append(Front(nodes), Literals(Last(nodes).path \o node.path))
  ELSE Append(nodes, node)

Refused(components) ==
  \E i \in DOMAIN components :
    /\ components[i] \notin {Parent, Current, Recursion}
    /\ Parsed(components[i]).error \/ ~Compiles(Parsed(components[i]).tokens)

\* an absolute pattern starts with the literal /
NodesOf(absolute, components) ==
  FoldLeft(LAMBDA nodes, c : IF c = Current THEN nodes ELSE AddNode(nodes, NodeOf(c)),
           IF absolute THEN << Literals(<<>>) >> ELSE <<>>, components)

\* is_match: a leaf ** takes every name
NameFits(node, name) ==
  \/ node.kind = "recursive"
  \/ node.kind = "regex" /\ \E elements \in node.regex : Fits(elements, name)

\* a path as text, and the regular expression of ** and the nodes behind it
Slashed(path) == FoldLeft(LAMBDA t, name : IF t = <<>> THEN name ELSE t \o <<"/">> \o name, <<>>, path)
OptionsOf(node) ==
  CASE node.kind = "literals"  -> {[i \in DOMAIN Slashed(node.path) |-> One({Slashed(node.path)[i]})]}
    [] node.kind = "recursive" -> {<<Dirs>>}
    [] node.kind = "regex"     -> node.regex
RecursiveRegex(nodes) ==
  FoldLeft(LAMBDA options, node : {o \o <<One({"/"})>> \o more : o \in options, more \in OptionsOf(node)},
           {<<Dirs>>}, nodes)
PathFits(options, path) == \E elements \in options : Fits(elements, Slashed(path))

==============================================================================
