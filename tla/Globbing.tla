------------------------------ MODULE Globbing -------------------------------
(***************************************************************************)
(* What filename generation promises, however it walks: while other         *)
(* processes create and remove entries, it reports entries that match the   *)
(* pattern, it misses none that matched it all the time, and then it ends.  *)
(*                                                                         *)
(* Where the code and the documentation of Glob::new disagree about what    *)
(* matches, nothing is promised: what matches in one reading only may be    *)
(* reported and may be missed.  Nor is anything promised of what an         *)
(* absolute pattern with ** matches outside of the starting directory: the  *)
(* code cannot report it and panics.                                        *)
(***************************************************************************)
EXTENDS Files

CONSTANTS Home      \* the directory the walk starts in, an absolute path without links

VARIABLES
  tree,       \* the file tree, that others change
  wanted,     \* the pattern
  found,      \* the paths reported so far
  sometime,   \* what matched, in either reading, at some time since the walk began
  always,     \* what matched in both readings at every time since then
  outcome     \* "walking", "done", "panicked", or "refused": not a pattern

vars == <<tree, wanted, found, sometime, always, outcome>>

Coded      == INSTANCE Meaning WITH AsDocumented <- FALSE
Documented == INSTANCE Meaning WITH AsDocumented <- TRUE

-----------------------------------------------------------------------------

Init ==
  /\ found = {}
  /\ LET coded      == Coded!Matches(tree, wanted)
         documented == Documented!Matches(tree, wanted)
     IN  sometime = coded \cup documented /\ always = coded \cap documented
  /\ outcome = IF \E i \in DOMAIN wanted.components : wanted.components[i].kind = "broken"
               THEN "refused" ELSE "walking"

\* a match inside of the starting directory, when ** has to report it relative to that
CanReport(path) == Coded!HasRecursion(wanted) => path.from = "home"

Find ==
  /\ outcome = "walking"
  /\ \E path \in sometime \ found : found' = found \cup {path}
  /\ UNCHANGED <<tree, wanted, sometime, always, outcome>>

Finish ==
  /\ outcome = "walking" /\ {path \in always : CanReport(path)} \subseteq found
  /\ outcome' = "done"
  /\ UNCHANGED <<tree, wanted, found, sometime, always>>

Fail ==
  /\ outcome = "walking" /\ \E path \in sometime : ~CanReport(path)
  /\ outcome' = "panicked"
  /\ UNCHANGED <<tree, wanted, found, sometime, always>>

\* any change that other processes make
Change ==
  /\ outcome = "walking" /\ tree' # tree
  /\ LET coded      == Coded!Matches(tree', wanted)
         documented == Documented!Matches(tree', wanted)
     IN  /\ sometime' = sometime \cup (coded \cup documented)
         /\ always' = always \cap (coded \cap documented)
  /\ UNCHANGED <<wanted, found, outcome>>

Next == Find \/ Finish \/ Fail \/ Change

Spec == Init /\ [][Next]_vars

==============================================================================
