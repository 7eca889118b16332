-------------------------------- MODULE Walker -------------------------------
(***************************************************************************)
(* Walking the file tree for a glob (filenamegen: Walker, NodeWalker and    *)
(* RecursiveWalker), one system call a step, while other processes create   *)
(* and remove files.  A NodeWalker follows the nodes one directory level at *)
(* a time and leaves work for other directories on a queue; a node ** that  *)
(* is not the last leaves the rest to a RecursiveWalker, and these run once *)
(* the queue is empty.                                                      *)
(*                                                                         *)
(* A directory is read entry by entry in any order.  What was in it all the *)
(* time since it was opened is listed; what came or went meanwhile may be.  *)
(***************************************************************************)
EXTENDS Patterns, Bags

CONSTANTS
  Home,          \* the directory the walk starts in
  Trees,         \* the file trees to walk
  Wanted,        \* the patterns
  Volatile,      \* the files that others create and remove
  MaxChanges     \* a bound: how often they do

Name == Seq(STRING)
IsName(name) == name \in Name /\ name \notin {Parent, Current, <<>>}
IsPath(path) == path \in Seq(Name) /\ path # <<>> /\ IsName(Last(path))

\* every entry lies in a directory, and no link leads to another
Tidy(files) ==
  /\ IsFiniteSet(DOMAIN files)
  /\ \A path \in DOMAIN files :
       /\ IsPath(path) /\ IsDir(files, Front(path))
       /\ files[path] \in [kind : {"file", "dir", "link"}, to : Seq(Name)]
       /\ files[path].kind = "link" /\ files[path].to \in DOMAIN files =>
            files[files[path].to].kind # "link"

ASSUME WalkerAssumption ==
  /\ Home \in Seq(Name)
  /\ \A path \in Volatile : IsPath(path)
  /\ \A files \in Trees :
       Tidy(files) /\ \A path \in Volatile \cap DOMAIN files : files[path] = Entry("file")
  /\ \A pattern \in Wanted :
       /\ pattern.absolute \in BOOLEAN
       /\ pattern.components \in Seq(ToSet(pattern.components)) \ {<<>>}
  /\ MaxChanges \in Nat

VARIABLES
  tree, wanted,
  nodes,         \* Glob.nodes
  stack,         \* Walker.stack, whose head is the walker at work
  recursive,     \* Walker.recursive
  open,          \* the directories that the walker at work reads, the last one opened last
  found,         \* the results, a bag
  sometime, always,   \* for the promise: what matched at some time, what at every time
  steady,        \* what matched at every time as the code reads the pattern
  outcome, changes

vars == <<tree, wanted, nodes, stack, recursive, open, found, sometime, always, steady, outcome, changes>>
walk == <<stack, recursive, open>>
world == <<tree, wanted, nodes, sometime, always, steady, changes>>

Promise == INSTANCE Globbing WITH found <- BagToSet(found)

\* the components of a pattern as they are written
Components(pattern) ==
  [i \in DOMAIN pattern.components |-> Promise!Coded!Spelled(pattern.components[i])]

\* a NodeWalker: its next node, its current_dir, and whether that has unchecked literals
Route(next, dir, literals) == [next |-> next, dir |-> dir, literals |-> literals]
\* NodeWalker::fork
Fork(route, name) == Route(route.next, Append(route.dir, name), FALSE)

\* walker.root.join(current_dir)
Located(dir) == IF wanted.absolute THEN dir ELSE Home \o dir

\* read_dir: what will be listed, and what may be
Listing(files, dir, place) ==
  [dir |-> dir, place |-> place, must |-> Names(files, place),
   may |-> [name \in Names(files, place) |-> files[Append(place, name)]]]

Listed(name, listing) ==
  [listing EXCEPT !.must = @ \ {name}, !.may = Restrict(@, DOMAIN @ \ {name})]

\* mutant: that there were literals is not remembered
NextCandidateUnchecked(route) ==
  LET here == IF route.next <= Len(nodes) /\ nodes[route.next].kind = "literals"
              THEN Route(route.next + 1, route.dir \o nodes[route.next].path, FALSE)
              ELSE route
  IN  [route |-> here, some |-> here.next <= Len(nodes)]

\* next_candidate_path: literals are joined, and the node to match is taken
NextCandidate(route) ==
  LET here == IF route.next <= Len(nodes) /\ nodes[route.next].kind = "literals"
              THEN Route(route.next + 1, route.dir \o nodes[route.next].path, TRUE)
              ELSE route
  IN  [route |-> here, some |-> here.next <= Len(nodes)]

IsLeaf(node) == node = Len(nodes)

\* a path as it is returned
Reported(dir) == [from |-> IF wanted.absolute THEN "/" ELSE "home", path |-> dir]

-----------------------------------------------------------------------------

Init ==
  /\ tree \in Trees /\ wanted \in Wanted
  /\ IF Refused(Components(wanted))
     THEN nodes = <<>> /\ stack = <<>> /\ outcome = "refused"
     ELSE /\ nodes = NodesOf(wanted.absolute, Components(wanted))
          /\ stack = <<Route(1, <<>>, FALSE)>>
          /\ outcome = "walking"
  /\ recursive = <<>> /\ open = <<>> /\ found = EmptyBag
  /\ LET coded      == Promise!Coded!Matches(tree, wanted)
         documented == Promise!Documented!Matches(tree, wanted)
     IN  /\ sometime = coded \cup documented /\ always = coded \cap documented
         /\ steady = coded
  /\ changes = 0

Walking  == outcome = "walking" /\ stack # <<>>
Starting == Walking /\ open = <<>>
Reading  == Walking /\ open # <<>>

Found(path) == found' = found (+) SetToBag({path})

\* mutant: the walker is put back with its literals still unchecked
AtEndAgain ==
  /\ Starting
  /\ LET candidate == NextCandidate(Head(stack))
         dir == candidate.route.dir
         reports == candidate.route.literals /\ Resolve(tree, Located(dir)) # Absent
     IN  /\ ~candidate.some
         /\ IF reports THEN Found(Reported(dir)) ELSE found' = found
         /\ stack' = IF reports THEN stack ELSE Tail(stack)
  /\ UNCHANGED <<recursive, open, outcome, world>>

\* NodeWalker::next at the end of the nodes: literals are checked, and the walker is dropped
AtEnd ==
  /\ Starting
  /\ LET candidate == NextCandidate(Head(stack))
         dir == candidate.route.dir
     IN  /\ ~candidate.some
         /\ IF candidate.route.literals /\ Resolve(tree, Located(dir)) # Absent
            THEN Found(Reported(dir)) ELSE found' = found
  /\ stack' = Tail(stack)
  /\ UNCHANGED <<recursive, open, outcome, world>>

\* the nodes from ** on are left to a RecursiveWalker
Recur ==
  /\ Starting
  /\ LET route == NextCandidate(Head(stack)).route
     IN  /\ NextCandidate(Head(stack)).some
         /\ nodes[route.next].kind = "recursive" /\ ~IsLeaf(route.next)
         /\ recursive' = Append(recursive, [next |-> route.next + 1, dir |-> route.dir])
  /\ stack' = Tail(stack)
  /\ UNCHANGED <<open, found, outcome, world>>

\* mutant: a directory that cannot be read is tried again
OpenDirRetries ==
  /\ Starting
  /\ LET candidate == NextCandidate(Head(stack))
         route == candidate.route
         place == Resolve(tree, Located(route.dir))
     IN  /\ candidate.some
         /\ nodes[route.next].kind = "recursive" => IsLeaf(route.next)
         /\ IF IsDir(tree, place)
            THEN /\ open' = <<Listing(tree, route.dir, place)>>
                 /\ stack' = <<Route(route.next + 1, route.dir, route.literals)>> \o Tail(stack)
            ELSE UNCHANGED <<open, stack>>
  /\ UNCHANGED <<recursive, found, outcome, world>>

\* read_dir; a walker whose directory cannot be read is dropped
OpenDir ==
  /\ Starting
  /\ LET candidate == NextCandidate(Head(stack))
         route == candidate.route
         place == Resolve(tree, Located(route.dir))
     IN  /\ candidate.some
         /\ nodes[route.next].kind = "recursive" => IsLeaf(route.next)
         /\ IF IsDir(tree, place)
            THEN /\ open' = <<Listing(tree, route.dir, place)>>
                 /\ stack' = <<Route(route.next + 1, route.dir, route.literals)>> \o Tail(stack)
            ELSE open' = open /\ stack' = Tail(stack)
  /\ UNCHANGED <<recursive, found, outcome, world>>

\* entry_may_be_dir: a link may lead to one
MayBeDir(entry) == entry.kind # "file"

\* next_from_dir: an entry that matches is a result, or the start of another walker
NextEntry ==
  /\ Reading
  /\ LET route == Head(stack)
         node == route.next - 1
     IN  \E name \in DOMAIN open[1].may :
           /\ open' = <<Listed(name, open[1])>>
           /\ IF NameFits(nodes[node], name)
              THEN IF IsLeaf(node)
                   THEN Found(Reported(Append(route.dir, name))) /\ stack' = stack
                   ELSE /\ stack' = IF MayBeDir(open[1].may[name])
                                    THEN Append(stack, Fork(route, name)) ELSE stack
                        /\ found' = found
              ELSE UNCHANGED <<stack, found>>
  /\ UNCHANGED <<recursive, outcome, world>>

\* the directory is read: the walker is dropped
EndOfDir ==
  /\ Reading /\ open[1].must = {}
  /\ open' = <<>> /\ stack' = Tail(stack)
  /\ UNCHANGED <<recursive, found, outcome, world>>

-----------------------------------------------------------------------------
\* The RecursiveWalkers, once the queue is empty

Recurring == outcome = "walking" /\ stack = <<>> /\ recursive # <<>>

Regexes(walker) == RecursiveRegex(SubSeq(nodes, walker.next, Len(nodes)))

\* walkdir opens the directory it starts in, and gives up if it is none
StartWalk ==
  /\ Recurring /\ open = <<>>
  /\ LET place == Resolve(tree, Located(Head(recursive).dir))
     IN  IF IsDir(tree, place)
         THEN open' = <<Listing(tree, <<>>, place)>> /\ recursive' = recursive
         ELSE open' = open /\ recursive' = Tail(recursive)
  /\ UNCHANGED <<stack, found, outcome, world>>

\* where walkdir gets to by an entry of the directory it reads: links are followed,
\* and one that leads nowhere or back is an error, which is skipped
Followed(entry, place) ==
  IF entry.kind = "link" THEN IF Known(tree, entry.to) THEN entry.to ELSE Absent ELSE place
LeadsBack(place) == \E i \in DOMAIN open : open[i].place = place

\* strip_prefix(walker.root)
Stripped(path) ==
  IF wanted.absolute THEN [from |-> "home", path |-> SubSeq(path, Len(Home) + 1, Len(path))]
  ELSE Reported(path)

\* one entry of the walk: a directory is opened, and a match is a result, unless it
\* lies outside of the walker's root: expect fails
WalkEntry ==
  /\ Recurring /\ open # <<>>
  /\ LET walker == Head(recursive)
         reading == Last(open)
     IN  \E name \in DOMAIN reading.may :
           LET path  == Append(reading.dir, name)
               entry == reading.may[name]
               place == Followed(entry, Append(reading.place, name))
               read  == Append(Front(open), Listed(name, reading))
               full  == walker.dir \o path
               error == entry.kind = "link" /\ (place = Absent \/ LeadsBack(place))
           IN  /\ open' = IF ~error /\ IsDir(tree, place)
                          THEN Append(read, Listing(tree, path, place)) ELSE read
               /\ IF error \/ ~PathFits(Regexes(walker), path) THEN UNCHANGED <<found, outcome>>
                  ELSE IF wanted.absolute /\ ~IsPrefix(Home, full)
                  THEN outcome' = "panicked" /\ found' = found
                  ELSE Found(Stripped(full)) /\ outcome' = outcome
  /\ UNCHANGED <<stack, recursive, world>>

EndOfWalk ==
  /\ Recurring /\ open # <<>> /\ Last(open).must = {}
  /\ open' = Front(open)
  /\ recursive' = IF Len(open) = 1 THEN Tail(recursive) ELSE recursive
  /\ UNCHANGED <<stack, found, outcome, world>>

\* Walker::next returns None
Finish ==
  /\ outcome = "walking" /\ stack = <<>> /\ recursive = <<>>
  /\ outcome' = "done"
  /\ UNCHANGED <<found, walk, world>>

-----------------------------------------------------------------------------
\* Another process creates or removes a file

Change ==
  /\ outcome = "walking" /\ changes < MaxChanges
  /\ changes' = changes + 1
  /\ \E path \in Volatile :
       LET gone  == path \in DOMAIN tree
           after == IF gone THEN Restrict(tree, DOMAIN tree \ {path})
                    ELSE [p \in DOMAIN tree \cup {path} |-> IF p = path THEN Entry("file") ELSE tree[p]]
           Seen(listing) ==
             IF listing.place # Front(path) THEN listing
             ELSE IF gone THEN [listing EXCEPT !.must = @ \ {Last(path)}]
             ELSE [listing EXCEPT !.may = [name \in DOMAIN @ \cup {Last(path)} |->
                                             IF name = Last(path) THEN Entry("file") ELSE @[name]]]
           coded      == Promise!Coded!Matches(after, wanted)
           documented == Promise!Documented!Matches(after, wanted)
       IN  /\ IsDir(tree, Front(path))
           /\ tree' = after
           /\ open' = [i \in DOMAIN open |-> Seen(open[i])]
           /\ sometime' = sometime \cup (coded \cup documented)
           /\ always' = always \cap (coded \cap documented)
           /\ steady' = steady \cap coded
  /\ UNCHANGED <<wanted, nodes, stack, recursive, found, outcome>>

Step == \/ AtEnd \/ Recur \/ OpenDir \/ NextEntry \/ EndOfDir
        \/ StartWalk \/ WalkEntry \/ EndOfWalk \/ Finish
Ended == outcome # "walking" /\ UNCHANGED vars

Next == Step \/ Change \/ Ended

Spec == Init /\ [][Next]_vars /\ WF_vars(Step)

-----------------------------------------------------------------------------
(***************************************************************************)
(* Properties                                                               *)
(***************************************************************************)

\* The walker, its queue of directories, the recursive walks behind it and the
\* parser of patterns together keep the promise of filename generation:
\* everything reported matched the pattern, nothing that matched all the time is
\* missed, whatever other processes create or remove between two system calls
\* (Glob::walk, and the documentation of Glob::new).
Implements == Promise!Spec

\* Nothing that was there all the time is reported twice, though the walker at
\* work is put back after every result and several walkers share the tree
\* (Walker::next).
FoundOnce == \A path \in steady \cap BagToSet(found) : found[path] <= 1

\* A walk ends, with results, an error or a panic, even where links lead back
\* to a directory above them.
Ends == <>(outcome # "walking")

-----------------------------------------------------------------------------
(***************************************************************************)
(* What the proofs assume of the patterns, and the invariants.              *)
(***************************************************************************)

\* The nodes of a pattern are those of its components.
PatternsAreRead ==
  \A pattern \in Wanted : \A i \in DOMAIN pattern.components :
    LET component == pattern.components[i]
        text == Promise!Coded!Spelled(component)
    IN  ~Refused(Components(pattern)) =>
          /\ text # Current
          /\ IF Promise!Coded!AsWritten(component)
             THEN Promise!Coded!Written(component) \in Name /\ NodeOf(text) = Literals(<<Promise!Coded!Written(component)>>)
             ELSE IF component.kind = "recursion" THEN NodeOf(text) = Recursive
             ELSE NodeOf(text).kind = "regex"

\* A pattern is refused if it has a broken component; a name fits a node, and a path
\* of n names the regular expression of ** and the nodes behind it, if it is one that
\* the component, or the components, stand for.
FileNames == {Last(path) : path \in Volatile \cup UNION {DOMAIN files : files \in Trees}}
PatternsAreRefused ==
  \A pattern \in Wanted :
    Refused(Components(pattern)) <=> \E i \in DOMAIN pattern.components : pattern.components[i].kind = "broken"
NamesFit ==
  \A pattern \in Wanted : \A i \in DOMAIN pattern.components, name \in FileNames :
    LET component == pattern.components[i]
    IN  ~Refused(Components(pattern)) /\ ~Promise!Coded!AsWritten(component) /\ component.kind # "recursion" =>
          (NameFits(NodeOf(Promise!Coded!Spelled(component)), name) <=> Promise!Coded!Means(component.pieces, name))
PathsFit(n) ==
  \A pattern \in Wanted :
    LET all   == pattern.components
        parts == NodesOf(pattern.absolute, Components(pattern))
        Rest(k) == SubSeq(parts, k + 1, Len(parts))
    IN  ~Refused(Components(pattern)) /\ Promise!Coded!HasRecursion(pattern) =>
          \A k \in DOMAIN parts : \A path \in [1..n -> FileNames] :
            parts[k].kind = "recursive" /\ (\A j \in 1..(k - 1) : parts[j].kind # "recursive") =>
              (PathFits(RecursiveRegex(Rest(k)), path) <=>
               Promise!Coded!Covers(SubSeq(all, Promise!Coded!FirstRecursion(pattern), Len(all)), path))

==============================================================================
