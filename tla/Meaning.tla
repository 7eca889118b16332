------------------------------- MODULE Meaning -------------------------------
(***************************************************************************)
(* What a pattern means: the names that a component stands for, and the     *)
(* paths of a file tree that match.  A pattern is given by what it means;   *)
(* its spelling is that which Glob::new reads.                              *)
(*                                                                         *)
(* The code and its documentation disagree in a few cases, so there are two *)
(* readings. As documented, * takes any number of characters but never a    *)
(* leading dot, ** any number of directories that are not hidden, and a **  *)
(* in the last place what * takes. As coded, * at the start of a component  *)
(* takes one character at least, ** before others one directory at least, a *)
(* last ** takes hidden names too and, behind another **, several levels, a *)
(* wildcard after an empty alternative may take a leading dot, and a        *)
(* component behind ** that stands for text with a slash takes several      *)
(* names.                                                                   *)
(***************************************************************************)
EXTENDS Files, Naturals, FiniteSets

CONSTANTS
  Home,           \* the directory the walk starts in, an absolute path without links
  AsDocumented    \* which reading this is

-----------------------------------------------------------------------------
\* Patterns: a component is a sequence of pieces, .., ** or a broken text

Piece(kind, arg) == [kind |-> kind, arg |-> arg]
Char(c)          == Piece("char", {c})
AnyChar          == Piece("any", {})
Star             == Piece("star", {})
Class(chars)     == Piece("class", chars)
Not(chars)       == Piece("not", chars)
Either(words)    == Piece("either", words)

Component(kind, pieces) == [kind |-> kind, pieces |-> pieces]
Up         == Component("parent", <<>>)
Recursively == Component("recursion", <<>>)
Named(pieces) == Component("named", pieces)
Broken(text)  == Component("broken", text)

\* what a backslash makes an ordinary character of
Special == {"*", "?", "[", "]", "{", "}", ",", "!", "^", "-", "&", "~", "\\"}
Quoted(c) == IF c \in Special THEN <<"\\", c>> ELSE <<c>>

SpelledPiece(piece) ==
  LET members == SetToSeq(piece.arg)
      Each(Text(_)) == FlattenSeq([i \in DOMAIN members |-> Text(members[i])])
  IN  CASE piece.kind = "char"   -> Each(Quoted)
        [] piece.kind = "any"    -> <<"?">>
        [] piece.kind = "star"   -> <<"*">>
        [] piece.kind = "class"  -> <<"[">> \o Each(Quoted) \o <<"]">>
        [] piece.kind = "not"    -> <<"[", "!">> \o Each(Quoted) \o <<"]">>
        [] piece.kind = "either" ->
             <<"{">> \o Tail(Each(LAMBDA word : <<",">> \o word)) \o <<"}">>
Spelled(component) ==
  CASE component.kind = "parent"    -> <<".", ".">>
    [] component.kind = "recursion" -> <<"*", "*">>
    [] component.kind = "named"     -> FlattenSeq([i \in DOMAIN component.pieces |->
                                                    SpelledPiece(component.pieces[i])])
    [] component.kind = "broken"    -> component.pieces

-----------------------------------------------------------------------------
\* What a pattern means

\* the text is one that the pieces stand for
Means(pieces, text) ==
  LET means[k \in 1..(Len(pieces) + 1), j \in 1..(Len(text) + 1)] ==
        IF k > Len(pieces) THEN j > Len(text)
        ELSE LET piece == pieces[k]
                 start  == IF AsDocumented THEN j = 1 ELSE k = 1
                 hidden == start /\ j <= Len(text) /\ text[j] = "."
             IN  CASE piece.kind \in {"char", "class"} ->
                        j <= Len(text) /\ text[j] \in piece.arg /\ means[k + 1, j + 1]
                   [] piece.kind = "not"    ->
                        j <= Len(text) /\ text[j] \notin piece.arg /\ means[k + 1, j + 1]
                   [] piece.kind = "any"    ->
                        j <= Len(text) /\ text[j] # "/" /\ ~hidden /\ means[k + 1, j + 1]
                   [] piece.kind = "star"   ->
                        \E m \in j..(Len(text) + 1) :
                          /\ m = j => AsDocumented \/ k > 1
                          /\ m > j => ~hidden
                          /\ "/" \notin {text[i] : i \in j..(m - 1)}
                          /\ means[k + 1, m]
                   [] piece.kind = "either" ->
                        \E word \in piece.arg : /\ IsPrefix(word, SubSeq(text, j, Len(text)))
                                                /\ means[k + 1, j + Len(word)]
  IN  means[1, 1]

Hidden(name) == name[1] = "."
Joined(names) == Tail(FlattenSeq([i \in DOMAIN names |-> <<"/">> \o names[i]]))

\* the i-th component may stand for that many names
Takes(components, i, many) ==
  IF ~AsDocumented THEN many > 0
  ELSE IF components[i].kind = "recursion" /\ i < Len(components) THEN many >= 0 ELSE many = 1

\* the names are what the components from a ** on stand for: component by component,
\* from the last one on, where the names may begin that these stand for
Covers(components, names) ==
  LET begins[i \in 1..(Len(components) + 1)] ==
        IF i > Len(components) THEN {Len(names) + 1}
        ELSE {j \in 1..Len(names) : \E m \in begins[i + 1] :
               /\ Takes(components, i, m - j)
               /\ IF components[i].kind = "recursion"
                  THEN \A n \in j..(m - 1) : ~Hidden(names[n])
                  ELSE /\ components[i].kind = "named"
                       /\ Means(components[i].pieces, Joined(SubSeq(names, j, m - 1)))}
  IN  1 \in begins[1]

\* where a path below a directory leads
Spot(files, base, path) == Resolve(files, base \o path)

\* the names with which a walk below a directory goes on: links are followed, unless
\* they lead back to where the walk came from, or nowhere
Came(files, base, path) == {Spot(files, base, SubSeq(path, 1, n)) : n \in 0..Len(path)}
On(files, base, path) ==
  {name \in Names(files, Spot(files, base, path)) :
     LET to == Spot(files, base, Append(path, name))
     IN  /\ to # Absent
         /\ KindAt(files, Append(Spot(files, base, path), name)) = "link" =>
              to \notin Came(files, base, path)}

\* the paths that the walk visits, level by level until there are none; between two
\* links, which all lead to other places, it can only go down
Below(files, base) ==
  LET most == (Cardinality(DOMAIN files) + 1) * (Cardinality(DOMAIN files) + 1)
      deep[d \in 0..most] ==
        IF d = 0 THEN {<<>>}
        ELSE UNION {{Append(path, name) : name \in On(files, base, path)} : path \in deep[d - 1]}
      end == CHOOSE d \in 0..most : deep[d] = {}
  IN  UNION {deep[d] : d \in 0..end}

\* a component that is taken as it is written, without a look at the directory
AsWritten(component) ==
  \/ component.kind = "parent"
  \/ component.kind = "named" /\ \A i \in DOMAIN component.pieces : component.pieces[i].kind = "char"
Written(component) ==
  IF component.kind = "parent" THEN Parent
  ELSE [i \in DOMAIN component.pieces |-> CHOOSE c \in component.pieces[i].arg : TRUE]

\* the first ** that is not the last component, or else one more than there are
FirstRecursion(pattern) ==
  LET all == pattern.components
      inner == {i \in 1..(Len(all) - 1) : all[i].kind = "recursion"}
  IN  IF inner = {} THEN Len(all) + 1 ELSE CHOOSE i \in inner : \A j \in inner : i <= j
HasRecursion(pattern) == FirstRecursion(pattern) <= Len(pattern.components)

Base(pattern) == IF pattern.absolute THEN <<>> ELSE Home

\* the paths that the first n components lead to
Fitting(files, pattern, component, path) ==
  {name \in Names(files, Spot(files, Base(pattern), path)) :
     IF component.kind = "recursion" THEN AsDocumented => ~Hidden(name)
     ELSE Means(component.pieces, name)}
Reached(files, pattern, n) ==
  LET reached[k \in 0..n] ==
        IF k = 0 THEN {<<>>}
        ELSE LET component == pattern.components[k]
                 onward(path) == IF AsWritten(component) THEN {Written(component)}
                                 ELSE Fitting(files, pattern, component, path)
             IN  UNION {{Append(path, name) : name \in onward(path)} : path \in reached[k - 1]}
  IN  reached[n]

\* how a path is reported: one that ** found, relative to where the walk began
Report(pattern, path) ==
  IF ~pattern.absolute THEN [from |-> "home", path |-> path]
  ELSE IF HasRecursion(pattern) /\ IsPrefix(Home, path)
    THEN [from |-> "home", path |-> SubSeq(path, Len(Home) + 1, Len(path))]
  ELSE [from |-> "/", path |-> path]

\* the paths that match
Matched(files, pattern) ==
  LET all   == pattern.components
      first == FirstRecursion(pattern)
  IN  IF \E i \in DOMAIN all : all[i].kind = "broken" THEN {}
      ELSE IF HasRecursion(pattern)
        THEN UNION {{start \o path : path \in {p \in Below(files, Base(pattern) \o start) :
                                                 Covers(SubSeq(all, first, Len(all)), p)}} :
                      start \in Reached(files, pattern, first - 1)}
      ELSE {path \in Reached(files, pattern, Len(all)) :
              AsWritten(Last(all)) => Spot(files, Base(pattern), path) # Absent}

Matches(files, pattern) == {Report(pattern, path) : path \in Matched(files, pattern)}

==============================================================================
