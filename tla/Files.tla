-------------------------------- MODULE Files --------------------------------
(***************************************************************************)
(* The operating system's file tree, as wzsh uses it: what a path leads to, *)
(* what a directory lists.  None of this is the repository's code.          *)
(*                                                                         *)
(* A name is a sequence of characters and a path a sequence of names; <<>>  *)
(* is the root directory.  A tree maps the paths of its entries, all but    *)
(* the root, to an entry: its kind, and where a symbolic link leads.  A     *)
(* link leads to an absolute path without further links.                    *)
(***************************************************************************)
EXTENDS Sequences, SequencesExt

Parent  == <<".", ".">>
Current == <<".">>
Absent  == << <<>> >>      \* where a path leads that no entry has

Entry(kind)  == [kind |-> kind, to |-> <<>>]
Link(target) == [kind |-> "link", to |-> target]

Known(tree, path) == path = <<>> \/ path \in DOMAIN tree

IsDir(tree, place) ==
  place = <<>> \/ (place \in DOMAIN tree /\ tree[place].kind = "dir")

\* one step of path resolution, with links followed and .. taken physically
Enter(tree, place, name) ==
  LET child == Append(place, name)
  IN  IF ~IsDir(tree, place) THEN Absent
      ELSE IF name = Parent THEN IF place = <<>> THEN place ELSE Front(place)
      ELSE IF name = Current THEN place
      ELSE IF ~Known(tree, child) THEN Absent
      ELSE IF tree[child].kind # "link" THEN child
      ELSE IF Known(tree, tree[child].to) THEN tree[child].to ELSE Absent

\* realpath(3): where an absolute path leads
Resolve(tree, path) ==
  FoldLeft(LAMBDA place, name : Enter(tree, place, name), <<>>, path)

\* the names a directory lists
Names(tree, place) ==
  {Last(path) : path \in {p \in DOMAIN tree : Front(p) = place}}

\* entry.file_type(): that of the entry itself, a link not followed
KindAt(tree, path) == tree[path].kind

==============================================================================
