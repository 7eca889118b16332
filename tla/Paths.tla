-------------------------------- MODULE Paths --------------------------------
(***************************************************************************)
(* The shell's environment and working directory, the builtins that change  *)
(* them (export, unset, path, cd), and how a command name becomes something *)
(* to run: a function, a builtin, or the first executable file on the PATH. *)
(* The shell does one of these after another; other processes remove and    *)
(* create files in between, also between the search for a command and its   *)
(* start.                                                                  *)
(*                                                                         *)
(* A path is absolute or relative with a sequence of names; a value of the  *)
(* environment is the sequence of paths between its colons, and <<>> where  *)
(* the variable is not set.  The process itself never leaves the directory  *)
(* it was started in: what the standard library looks up relative to its    *)
(* process is not relative to the shell's working directory.                *)
(***************************************************************************)
EXTENDS Files, Naturals, FiniteSets

CONSTANTS
  Tree,          \* the files at first
  Volatile,      \* files that others create and remove, with what they are
  Started,       \* the directory the process was started in
  BinDir,        \* the directory of the wzsh executable
  DefaultPath,   \* where execvp searches while PATH is not set
  Inherited,     \* the environments the shell may be started with
  Exports,       \* the assignments made: pairs of a variable and a path
  Operands,      \* the operands of cd
  Specs,         \* the operands and options of path add, prepend and remove
  Commands,      \* the commands run: restriction and name
  Builtins, Functions,
  MaxSteps       \* a bound: commands run and changes made by others

Var  == {"PATH", "HOME", "OLDPWD"}
Name == Seq(STRING)
Path == [absolute : BOOLEAN, names : Seq(Name)]
HasColon(path) == \E i \in DOMAIN path.names : ":" \in ToSet(path.names[i])
Tidy(files) ==
  /\ files = [path \in DOMAIN files |-> files[path]]
  /\ \A path \in DOMAIN files :
       /\ path \in Seq(Name) \ {<<>>, Absent}
       /\ files[path] \in [kind : STRING, to : Seq(Name)]

ASSUME PathsAssumption ==
  /\ Tidy(Tree) /\ Tidy(Volatile)
  /\ Started \in Seq(Name) /\ BinDir \in Path /\ ~HasColon(BinDir) /\ Inherited \subseteq [Var -> Seq(Path)]
  /\ \A inherited \in Inherited : \A i \in DOMAIN inherited["PATH"] : ~HasColon(inherited["PATH"][i])
  /\ \A assignment \in Exports : assignment[1] = "PATH" => ~HasColon(assignment[2])
  /\ Exports \subseteq Var \X Path /\ Operands \subseteq Path
  /\ Specs \subseteq [dirs : Seq(Path), dedup : BOOLEAN, only_existing : BOOLEAN]
  /\ Commands \subseteq [restriction : {"none", "command", "builtin"}, name : Path]

VARIABLES
  tree,          \* the files
  env,           \* machine.environment
  cwd,           \* machine.cwd, a path
  job,           \* the program that was found and is not started yet, or Empty
  last,          \* what the last command was, and what it led to
  steps

vars == <<tree, env, cwd, job, last, steps>>

-----------------------------------------------------------------------------
\* Paths (std::path)

Absolute(names) == [absolute |-> TRUE, names |-> names]
Relative(names) == [absolute |-> FALSE, names |-> names]
Empty == Relative(<<>>)
Dash  == Relative(<< <<"-">> >>)

\* PathBuf::join
Join(base, path) ==
  IF path.absolute THEN path ELSE [base EXCEPT !.names = @ \o path.names]

\* where a system call of the process gets with a path; the empty path leads nowhere
Place(files, path) ==
  IF path.absolute THEN Resolve(files, path.names)
  ELSE IF path = Empty THEN Absent
  ELSE Resolve(files, Started \o path.names)

IsDirectory(files, path) == IsDir(files, Place(files, path))
IsExecutable(files, path) ==
  LET place == Place(files, path)
  IN  place \in DOMAIN files /\ files[place].kind = "program"

\* mutant: .. is taken out, and what it follows is left
NormalizeKeeps(path) ==
  [path EXCEPT !.names = SelectSeq(@, LAMBDA name : name \notin {Current, Parent})]

\* normalize_path: . and .. are taken out of the text
Onward(names, name) ==
  CASE name = Current -> names
    [] name = Parent  -> IF names = <<>> THEN names ELSE Front(names)
    [] OTHER          -> Append(names, name)

Normalize(path) ==
  [path EXCEPT !.names = FoldLeft(LAMBDA names, name : Onward(names, name), <<>>, @)]

\* canonicalize_path
Canonicalize(files, path, physical) ==
  IF physical THEN Absolute(Place(files, path)) ELSE Normalize(path)

-----------------------------------------------------------------------------
\* Environment

Unset == <<>>
IsSet(var) == env[var] # Unset
Set(var, value) == env' = [env EXCEPT ![var] = value]

\* split_paths and join_paths: no entries are written as the empty text, which is
\* read as one empty entry, and an entry that holds a colon is an error
SplitPaths(value) == value
CanJoin(entries)   == \A i \in DOMAIN entries : ~HasColon(entries[i])
JoinPaths(entries) == IF entries = <<>> THEN <<Empty>> ELSE entries

AppendPath(value, path) == JoinPaths(Append(SplitPaths(value), path))

\* the entries that are in a set, in their order
Only(entries, wanted) ==
  FoldLeft(LAMBDA kept, entry : IF entry \in wanted THEN Append(kept, entry) ELSE kept,
           <<>>, entries)

Without(entries, path) == Only(entries, ToSet(entries) \ {path})

\* the first of every entry
Deduped(entries) ==
  FoldLeft(LAMBDA kept, entry : IF Contains(kept, entry) THEN kept ELSE Append(kept, entry),
           <<>>, entries)

\* PathSpec::apply, where "seen" is its HashSet: an entry counts as seen even when it
\* is then left out for not being a directory
Add(spec, at, entry) ==
  IF spec.dedup /\ entry \in at.seen THEN at
  ELSE [seen |-> at.seen \cup {entry},
        path |-> IF spec.only_existing /\ ~IsDirectory(tree, entry) THEN at.path
                 ELSE Append(at.path, entry)]

\* mutant: an entry that is there already is not taken out
PrependAgain(spec, at, entry) ==
  [seen |-> at.seen \cup {entry},
   path |-> IF spec.only_existing /\ ~IsDirectory(tree, entry) THEN at.path
            ELSE <<entry>> \o at.path]

Prepend(spec, at, entry) ==
  LET path == IF spec.dedup /\ entry \in at.seen THEN Without(at.path, entry) ELSE at.path
  IN  [seen |-> at.seen \cup {entry},
       path |-> IF spec.only_existing /\ ~IsDirectory(tree, entry) THEN path
                ELSE <<entry>> \o path]

Edit(op, spec, at, dir) ==
  CASE op = "add"     -> Add(spec, at, dir)
    [] op = "prepend" -> Prepend(spec, at, dir)
    [] op = "remove"  -> [at EXCEPT !.path = Without(@, dir)]

Edited(op, spec, entries) ==
  FoldLeft(LAMBDA at, dir : Edit(op, spec, at, dir), [seen |-> ToSet(entries), path |-> entries],
           spec.dirs)

Apply(op, spec) ==
  LET entries == IF spec.dedup THEN Deduped(SplitPaths(env["PATH"])) ELSE SplitPaths(env["PATH"])
  IN  JoinPaths(Edited(op, spec, entries).path)

\* path fixup
Fixup ==
  LET entries == Deduped(SplitPaths(env["PATH"]))
  IN  JoinPaths(Only(entries, {entry \in ToSet(entries) : IsDirectory(tree, entry)}))

-----------------------------------------------------------------------------
\* Looking for commands

\* PathSearcher: PATH unset is the empty text
Searched == IF IsSet("PATH") THEN SplitPaths(env["PATH"]) ELSE <<Empty>>
Candidates(name) ==
  LET paths == [i \in DOMAIN Searched |-> Join(Searched[i], name)]
  IN  Only(paths, {path \in ToSet(paths) : IsExecutable(tree, path)})

Found(kind, path) == [kind |-> kind, path |-> path]

\* mutant: a file on the PATH comes before a builtin
LookupFilesFirst(restriction, name) ==
  IF name.names = <<>> THEN Found("nothing", Empty)
  ELSE IF name \in Functions THEN Found("function", Empty)
  ELSE IF restriction # "builtin" /\ Candidates(name) # <<>>
    THEN Found("file", Head(Candidates(name)))
  ELSE IF restriction # "command" /\ name \in Builtins THEN Found("builtin", Empty)
  ELSE Found("none", Empty)

\* what a command comes to: spawn_command looks functions up before it asks whether
\* only builtins or only files were wanted
Lookup(restriction, name) ==
  IF name.names = <<>> THEN Found("nothing", Empty)
  ELSE IF name \in Functions THEN Found("function", Empty)
  ELSE IF restriction # "command" /\ name \in Builtins THEN Found("builtin", Empty)
  ELSE IF restriction # "builtin" /\ Candidates(name) # <<>>
    THEN Found("file", Head(Candidates(name)))
  ELSE Found("none", Empty)

\* which: everything it prints without -a
Which(name) ==
  LET known == (IF name \in Functions THEN << Found("function", Empty) >> ELSE <<>>) \o
               (IF name \in Builtins THEN << Found("builtin", Empty) >> ELSE <<>>)
  IN  IF known = <<>> /\ Candidates(name) # <<>> THEN << Found("file", Head(Candidates(name))) >>
      ELSE known

\* what the system starts in a child whose directory is the shell's (exec): a relative
\* path is relative to that, and a bare name is searched for once more by execvp
Executed(files, path) ==
  LET here == Join(Absolute(Started), cwd)
      At(p) == IF p.absolute THEN Place(files, p) ELSE Place(files, Join(here, p))
      value == IF IsSet("PATH") THEN env["PATH"] ELSE DefaultPath
      paths == [i \in DOMAIN value |-> Join(value[i], path)]
      again == Only(paths, {p \in ToSet(paths) :
                              At(p) \in DOMAIN files /\ files[At(p)].kind = "program"})
  IN  IF path.absolute \/ Len(path.names) > 1 THEN At(path)
      ELSE IF again = <<>> THEN Absent ELSE At(Head(again))

-----------------------------------------------------------------------------

Idle == job = Empty /\ last.kind # "panic" /\ steps < MaxSteps
Nothing == [kind |-> "nothing"]

Init ==
  /\ tree = Tree
  /\ \E inherited \in Inherited :
       env = [inherited EXCEPT !["PATH"] = AppendPath(@, BinDir)]
  /\ cwd = Absolute(Started)
  /\ job = Empty /\ last = Nothing /\ steps = 0

Count == steps' = steps + 1

\* export NAME=value
Export ==
  /\ Idle /\ Count
  /\ \E assignment \in Exports : Set(assignment[1], <<assignment[2]>>)
  /\ last' = Nothing
  /\ UNCHANGED <<tree, cwd, job>>

UnsetVariable ==
  /\ Idle /\ Count
  /\ \E var \in DOMAIN env : IsSet(var) /\ Set(var, Unset)
  /\ last' = Nothing
  /\ UNCHANGED <<tree, cwd, job>>

EditPath ==
  /\ Idle /\ Count
  /\ \E op \in {"add", "prepend", "remove"}, spec \in Specs :
       IF CanJoin(Apply(op, spec))
       THEN /\ Set("PATH", Apply(op, spec))
            /\ last' = [kind |-> "path", op |-> op, spec |-> spec, was |-> env["PATH"]]
       ELSE env' = env /\ last' = Nothing
  /\ UNCHANGED <<tree, cwd, job>>

FixPath ==
  /\ Idle /\ Count
  /\ Set("PATH", Fixup)
  /\ last' = [kind |-> "path", op |-> "fixup", spec |-> Nothing, was |-> env["PATH"]]
  /\ UNCHANGED <<tree, cwd, job>>

\* cd: HOME without an operand, OLDPWD for -
Cd ==
  /\ Idle /\ Count
  /\ \E operand \in Operands, physical \in BOOLEAN :
       LET given     == operand # Empty
           directory == IF given THEN operand ELSE Head(env["HOME"])
           old       == directory = Dash
           curpath   == CASE directory.absolute -> directory
                          [] old                -> Head(env["OLDPWD"])
                          [] OTHER              -> Join(cwd, directory)
           failed    == \/ ~given /\ ~IsSet("HOME")
                        \/ old /\ ~IsSet("OLDPWD")
       IN  IF failed \/ ~IsDirectory(tree, Canonicalize(tree, curpath, physical))
           THEN /\ cwd' = cwd
                /\ last' = Nothing
           ELSE /\ cwd' = Canonicalize(tree, curpath, physical)
                /\ last' = [kind |-> "cd", asked |-> curpath, physical |-> physical]
  /\ UNCHANGED <<tree, env, job>>

\* mutant: the name as it was given is passed on, not the program that was found
SearchByName ==
  /\ Idle /\ Count
  /\ \E command \in Commands :
       LET found == Lookup(command.restriction, command.name)
       IN  /\ job' = IF found.kind = "file" THEN command.name ELSE Empty
           /\ last' = IF found.kind = "nothing" THEN [kind |-> "panic", restriction |-> command.restriction]
                      ELSE [kind |-> "found", name |-> command.name, restriction |-> command.restriction,
                            what |-> found, which |-> Which(command.name), place |-> Place(tree, found.path)]
  /\ UNCHANGED <<tree, env, cwd>>

\* spawn_command: argv[0] of an empty argument list is a panic
Search ==
  /\ Idle /\ Count
  /\ \E command \in Commands :
       LET found == Lookup(command.restriction, command.name)
       IN  /\ job' = IF found.kind = "file" THEN found.path ELSE Empty
           /\ last' = IF found.kind = "nothing" THEN [kind |-> "panic", restriction |-> command.restriction]
                      ELSE [kind |-> "found", name |-> command.name, restriction |-> command.restriction,
                            what |-> found, which |-> Which(command.name), place |-> Place(tree, found.path)]
  /\ UNCHANGED <<tree, env, cwd>>

\* Command::spawn; an error leaves nothing started
Start ==
  /\ job # Empty
  /\ LET place == Executed(tree, job)
         starts == /\ place \in DOMAIN tree /\ tree[place].kind = "program"
                   /\ IsDirectory(tree, cwd)
     IN  last' = IF starts THEN [kind |-> "started", path |-> last.what.path, place |-> place, meant |-> last.place]
                 ELSE Nothing
  /\ job' = Empty
  /\ UNCHANGED <<tree, env, cwd, steps>>

\* another process creates or removes a file or an empty directory
Change ==
  /\ steps < MaxSteps /\ last.kind # "panic" /\ Count
  /\ \E path \in DOMAIN Volatile :
       tree' = IF path \in DOMAIN tree THEN [p \in DOMAIN tree \ {path} |-> tree[p]]
               ELSE [p \in DOMAIN tree \cup {path} |-> IF p = path THEN Volatile[path] ELSE tree[p]]
  /\ last' = IF job = Empty THEN Nothing ELSE last
  /\ UNCHANGED <<env, cwd, job>>

\* the shell has panicked, or the bound on operations is reached
Ended == job = Empty /\ ~Idle /\ UNCHANGED vars

Next == \/ Export \/ UnsetVariable \/ EditPath \/ FixPath \/ Cd \/ Search \/ Start \/ Change
        \/ Ended

Spec == Init /\ [][Next]_vars

-----------------------------------------------------------------------------
(***************************************************************************)
(* Properties                                                               *)
(***************************************************************************)

\* After cd the working directory is where the operand leads: with -P it is named
\* without links, and without -P it is the same directory wherever each .. follows a
\* directory that the text names, the case that -L reads differently on purpose
\* (CdCommand, workingdir.rs:118).  A .. after a link, after a file or after nothing
\* that exists is taken out of the text all the same, and so is one that leads out of
\* a relative path, which OLDPWD may hold.
Before(path, i) == [path EXCEPT !.names = SubSeq(@, 1, i - 1)]
PlainUps(path) ==
  \A i \in DOMAIN path.names :
    path.names[i] = Parent =>
      /\ IsDirectory(tree, Before(path, i))
      /\ Place(tree, Before(path, i)) = Join(Absolute(Started), Normalize(Before(path, i))).names
      /\ path.absolute \/ Normalize(Before(path, i)).names # <<>>
LandsWhereAsked ==
  last.kind = "cd" =>
    /\ IsDirectory(tree, cwd)
    /\ {Parent, Current} \cap {cwd.names[i] : i \in DOMAIN cwd.names} = {}
    /\ last.physical => cwd.absolute /\ Place(tree, cwd) = cwd.names
    /\ last.physical \/ PlainUps(last.asked) => Place(tree, cwd) = Place(tree, last.asked)

\* The path builtin does what its options say, whatever the PATH was and however they
\* combine: other entries stay, in their order; --dedup leaves no entry twice;
\* --only-existing adds nothing that is not a directory; what was to be added is there,
\* in front after prepend, even if it was there already, and behind after add, where
\* --dedup does not leave it in its place; what was to be removed is not there
\* (PathSpec::apply, env.rs:100).  A PATH without entries is written as one empty entry.
Others(entries, named) == Only(entries, ToSet(entries) \ named)
Copies(entries, entry) == Cardinality({i \in DOMAIN entries : entries[i] = entry})
Wanted(spec, entry)    == ~spec.only_existing \/ IsDirectory(tree, entry)
InFrontOrBehind(new, op, spec) ==
  spec.dirs # <<>> /\ Wanted(spec, Last(spec.dirs)) =>
    /\ op = "prepend" => new[1] = Last(spec.dirs)
    /\ op = "add" /\ ~spec.dedup => new[Len(new)] = Last(spec.dirs)
AsOperandsSay(old, new, op, spec) ==
  LET all   == {new[i] : i \in DOMAIN new} \cup {old[i] : i \in DOMAIN old}
      named == {spec.dirs[i] : i \in DOMAIN spec.dirs}
  IN  /\ Others(new, named) = Others(IF spec.dedup THEN Deduped(old) ELSE old, named)
      /\ spec.dedup /\ op # "remove" => \A entry \in all : Copies(new, entry) <= 1
      /\ spec.only_existing =>
           \A entry \in named : Copies(new, entry) > Copies(old, entry) => IsDirectory(tree, entry)
      /\ op = "remove" => \A entry \in named : Copies(new, entry) = 0
      /\ op # "remove" => \A entry \in named : Wanted(spec, entry) => Copies(new, entry) > 0
      /\ InFrontOrBehind(new, op, spec)
AsFixed(old, new) ==
  LET all == {new[i] : i \in DOMAIN new} \cup {old[i] : i \in DOMAIN old}
  IN  /\ \A i \in DOMAIN new : IsDirectory(tree, new[i]) /\ Copies(new, new[i]) = 1
      /\ \A entry \in all : IsDirectory(tree, entry) => Copies(new, entry) = 1
PathAsAsked ==
  last.kind = "path" =>
    \E new \in {env["PATH"]} \cup (IF env["PATH"] = <<Empty>> THEN {<<>>} ELSE {}) :
      IF last.op = "fixup" THEN AsFixed(last.was, new)
      ELSE AsOperandsSay(last.was, new, last.op, last.spec)

\* The program that is started is the file that the search had found, though the
\* child looks at its path again, in another directory and after others had time to
\* change the files (spawn_command, shellhost.rs:143).  It may be another one where
\* PATH has a relative entry: that is searched from where the process was started,
\* and executed from the shell's working directory.
StartsWhatItFound ==
  last.kind = "started" =>
    \/ last.place = last.meant
    \/ ~last.path.absolute /\ (cwd # Absolute(Started) \/ Len(last.path.names) = 1)

\* which tells what a command would run: the first thing it prints, or nothing where
\* the command is not found; command runs no builtin and builtin no file (WhichCommand
\* and spawn_command have separate code for it).
WhichTellsTheTruth ==
  last.kind = "found" =>
    /\ last.restriction = "none" =>
         last.what = (IF last.which = <<>> THEN Found("none", Empty) ELSE Head(last.which))
    /\ last.restriction = "command" => last.what.kind # "builtin"
    /\ last.restriction = "builtin" => last.what.kind # "file"

-----------------------------------------------------------------------------
\* The files there may be: of those at first the ones that others have left, and
\* the ones that others have made.
Made(kept, made) == [path \in kept \cup made |-> IF path \in made THEN Volatile[path] ELSE Tree[path]]
IsMade(files) ==
  \E kept \in SUBSET DOMAIN Tree, made \in SUBSET DOMAIN Volatile : files = Made(kept, made)

\* Others put no link in the place of another entry.
LinksStay ==
  \A path \in DOMAIN Tree \cap DOMAIN Volatile :
    "link" \in {Tree[path].kind, Volatile[path].kind} => Tree[path] = Volatile[path]

\* What there is lies in a directory that stays, under a name that is not . or ..,
\* and a link does not lead to another one.
IsLink(files, path) == path \in DOMAIN files /\ files[path].kind = "link"
DirectoriesStay ==
  /\ \A path \in DOMAIN Tree \cup DOMAIN Volatile :
       /\ Last(path) \notin {Current, Parent}
       /\ Front(path) # <<>> => /\ Front(path) \in DOMAIN Tree \ DOMAIN Volatile
                               /\ Tree[Front(path)].kind = "dir"
  /\ \A files \in {Tree, Volatile} : \A path \in DOMAIN files :
       IsLink(files, path) => ~IsLink(Tree, files[path].to) /\ ~IsLink(Volatile, files[path].to)

\* What others leave alone stays.
Steady == \A path \in DOMAIN Tree \ DOMAIN Volatile : path \in DOMAIN tree /\ tree[path] = Tree[path]

\* What waits to be started was found, in files that may have changed since then.
JobIsFound ==
  job # Empty =>
    /\ last.kind = "found" /\ last.what.path = job /\ job \in Path /\ job.names # <<>>
    /\ \E kept \in SUBSET DOMAIN Tree, made \in SUBSET DOMAIN Volatile :
         /\ last.place \in kept \cup made
         /\ last.place = Place(Made(kept, made), job)

Types == env \in [Var -> Seq(Path)] /\ cwd \in Path /\ IsMade(tree)

\* The invariant that makes these properties inductive.
IInv == Types /\ Steady /\ JobIsFound /\ StartsWhatItFound

==============================================================================
