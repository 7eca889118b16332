# Verification of wzsh

TLA+ models of wzsh, an interactive shell in Rust, with TLC runs and TLAPS
proofs. Paths below are relative to the repository (`src/...` in
`PROJECT.json` has the same tree under `src/`).

## 1. The system

| Component | Source | State | Operations | Hard parts |
|---|---|---|---|---|
| Job control | `src/job.rs`, `src/exitstatus.rs`, `src/builtins/jobcontrol.rs` | `JOB_LIST`, the processes of a job, each child's cached status | `Job::add`, `put_in_foreground`, `wait`/`poll`, the check before a prompt, `fg`, `jobs` | shell, children and keyboard interleave; process groups die with their last member; the terminal has one foreground group |
| Spawning | `src/shellhost.rs` | function registry, the job of a program | builtin, function (a nested machine), child process | the child and the parent both set group and terminal, in either order; fork or exec may fail |
| REPL | `src/repl.rs` | environment, directory, unfinished input | read, compile and run, put the shell in the foreground | error paths; continuation lines |
| History | `src/builtins/history.rs` | a table in a database that all shells share | `add`, `get`, `last`, `search` | other shells add lines between the queries of one `add` |
| Virtual machine | `shell_vm/src/lib.rs`, `op.rs`, `host.rs` | program, stack of values, frames, environments, fd tables, pipes, last status | one dispatch per instruction, `step`, `run` | frames and scopes must balance; jumps; an error or a stopped child ends the program anywhere |
| IO environments | `shell_vm/src/ioenv.rs` | fd tables sharing descriptors | duplicate, assign | which copy keeps a pipe open |
| Environment | `shell_vm/src/environment.rs`, `src/builtins/env.rs` | variables | get, set, unset, `path` | scoping |
| Compiler | `shell_compiler/src/lib.rs` | program under construction, frames | commands, words, redirections | registers reused, jumps and frame sizes patched later |
| Register allocator | `shell_compiler/src/registeralloc.rs` | count, free list | allocate, free | aliasing |
| Parser | `shell_parser` | lookahead | commands | tokens put back, unfinished input |
| Lexer | `shell_lexer` | position, stack of states, word being read | tokens | quotes, `$( )` and `${ }` in each other; errors in the middle; characters put back |
| Filename generation | `filenamegen` | stack of walkers, queue of recursive ones | expand a pattern | `**`, links that lead back, files that come and go |
| Path search | `pathsearch`, `src/builtins/which.rs` | position in `PATH` | look up | what is found may not be what is executed |
| Working directory | `src/builtins/workingdir.rs` | the shell's directory, beside the process's own | `cd`, `pwd` | `..` behind a link, relative directories |
| Scripts, other builtins, `ls`, error display | `src/script.rs`, `src/main.rs`, ... | none of their own | I/O | - |

How they interact: the REPL reads a line, the lexer and parser make a `Command`
of it, the compiler a program, and a new `Machine` with a new `Job` runs it.
`SpawnCommand` calls the host, which runs a builtin or a function, or forks a
child and adds it to the job; `Wait` asks the child (waitpid). All programs
share `JOB_LIST`, the function registry and the terminal; the environment comes
back to the REPL from the machine's first scope (`top_environment`).

What makes each part correct:

- job control: the cached status of a child is the truth about it; no job is
  lost; members of a job are in its group; the shell prompts in the foreground;
  what the shell waits for is in the foreground and can come to an end;
- machine: frames tile the stack and are isolated from each other;
- compiler: a program runs the commands the line means, with the arguments,
  variables and descriptors it means, and closes every scope it opens; it needs
  no register outside its frame; it ends;
- allocator: a register in use is not handed out again;
- parser: what it returns is a command of the grammar and says what the tokens
  it read say; nothing is lost when tokens are put back;
- REPL: every line typed is part of one command that is run or refused; the
  shell asks for more only where more can help;
- lexer: nesting balances; what was read can be written down and means the same;
  no character is lost;
- filename generation: what is reported matched, what matched all along is
  reported, once, where documentation and code agree on it; the walk ends;
- paths: `cd` ends where it was sent; `path` changes what it was asked to; what
  is started is what was found;
- history: lines can be recalled in the order they were entered; a search finds
  the nearest line that holds the pattern.

The hazards, each at its line and with the properties that watch it, are the
list `hazards` of `PROJECT.json`.

## 2. The modules

| Module | Models | Notes |
|---|---|---|
| `Kernel` | processes, groups, terminal, waitpid, stop and continue | the environment of `JobControl` |
| `JobControl` | `job.rs`, `exitstatus.rs`, `shellhost.rs`, `jobcontrol.rs`, the REPL loop | one action per step between which another process may run |
| `MCJobControl` | instances | `MCJobs*.cfg` |
| `JobControlProofs` | proofs about `JobControl`, and about programs that are one pipeline | |
| `InductionFacts` | nothing: lemmas on least members of sets and on the folds of the community modules | for the proofs by induction in `HistoryProofs`, `PathsProofs`, `WalkerProofs` and `PromiseProofs` |
| `Slots` | nothing: what a frame of slots promises | the abstract specification of the next two |
| `Registers` | `RegisterAllocator` as operators on its value | shared by the next and the compiler |
| `RegisterAllocator` | a frame's temporaries in any order | implements `Slots`; `RegisterAllocatorProofs` |
| `Values` | values, field splitting, joining, backslashes | strings are sequences of atoms |
| `ShellMachine` | the virtual machine | one action per instruction; `MCShellMachine`, `ShellMachineProofs` |
| `ShellCompiler` | the compiler, command to program | recursive: TLC only |
| `ShellSemantics` | what a command means, written without the machine | the abstract specification of compiler and machine; recursive: TLC only |
| `Shell` | `compile_and_run`: a line compiled and run | composes the last three; `MCShell` |
| `Parser` | the recursive descent parser over tokens | recursive: TLC only |
| `Grammar` | how a command is written, and one call of the parser | `MCGrammar` |
| `Lexer` | `lexer.rs` and `reader.rs` over characters | extends `Parser`, whose tokens it makes; recursive: TLC only |
| `Lexing` | how tokens are written, and a text read token by token | `MCLexing` |
| `ReadLoop` | lines, continuation and refusal in the REPL | composes `Lexer` and `Parser` with the loop; `MCReadLoop` |
| `History` | the history and the shells that add to it and search it | `MCHistory`, `HistoryProofs` |
| `Files` | a file system with directories and links | external, of the next five |
| `Meaning` | what a pattern means, as documented or as coded | two instances of it in `Globbing` |
| `Globbing` | nothing: what filename generation promises | the abstract specification of `Walker` |
| `Patterns` | patterns parsed to nodes and regular expressions | folds and recursive functions |
| `Walker` | `NodeWalker`, `RecursiveWalker` and the loop over them | implements `Globbing`; `MCWalker`, `WalkerProofs`, `PromiseProofs` |
| `Paths` | `cd`, `export`, `unset`, `path`, `which`, and the search and start of a program | `MCPaths`, `PathsProofs` |

### State and actions

`JobControl`: `JOB_LIST` is a function from group id to processes; the stack of
machines (a function call is a nested one, with its own job) is a sequence of
frames whose head is the innermost; `Kernel`'s variables are the process table
and the foreground group. A line is a sequence of abstract commands. Steps the
code performs without giving another process a chance to be observed are one
action: `JoinJob` is everything the parent does after `spawn` returns, `Fg`
everything up to the blocking `wait`, `CheckJobs` the whole pass before a
prompt, and `PreExec` the child's whole pre-exec closure. Blocking calls are
guards (`WaitReturns`).

`ShellMachine`: the variables are the fields of `Machine`; `funcs` and
`spawned` are what the host is told. `Succeeds(i)` collects the conditions
under which an instruction does not `bail!`; every action is guarded by it and
`Fault` is the alternative, so each error path is taken. A command meets a
fate: answered at once, possibly having set a variable as `export` does; a
child that exits; a child, or a function whose program, is stopped; an error.
Polling a child nobody has waited for may find it running (`Truths`).

`ShellCompiler` is the same function from commands to instructions as the Rust
code: it emits the instructions in the same order, asks the same allocator for
registers and patches the same jumps and frame sizes.

`ShellSemantics` evaluates the command directly: environments, descriptors and
statuses are passed along, splitting is defined by the maximal runs of
characters that are not separators. The order of evaluation (redirections,
assignments, words) is the source's.

`Parser`: a rule of the grammar is an operator that takes the parser (text left,
tokens put back, result, error) and returns it, so that `?` is one operator,
`Then`, and each `unget_token` is in the place where the code has it. Commands
have the shape `ShellCompiler` compiles; the two differ in the name of a list of
commands (`program` here, at the top of a text) and in subshells, which the
compiler refuses. A missing `else` is an empty one.

`Grammar` holds the other direction, written without the parser: the tokens
that write a command down, in several ways. `ReadsBack`, `WordsKept` and
`Understood` compare the two.

`Lexer`: a lexer is a record of the text, the position and the stack of states,
each with its half-read word; a function of `lexer.rs` is an operator from lexer
to lexer. Characters are atoms: `ab` is a run of letters (the regular expression
of parameters wants two), `bq` a backquote. An assertion that fails and a
`bail!` are errors of their own. `swallowed` remembers that an error was dropped
inside a substitution. `Lexing` writes tokens down, without the lexer, and
compares.

`ReadLoop`: a line is a sequence of characters; the input is lexed and parsed
again as a whole after every line, as `compile_and_run` does.

`Walker`: a route is a `NodeWalker`, `stack` and `recursive` are the two lists
of `Walker`; each call of the operating system (`exists`, `read_dir`, the next
entry, an entry of `walkdir`) is one step, and between any two another process
may create or remove a file. Patterns are text, parsed as `Glob::new` does;
`Meaning` has the meaning of a pattern as a sequence of parts and knows no
walker, in two readings: what `Glob::new` documents, and what its regular
expressions and walkers do. `Globbing` reports, in some order, paths that matched
at some time in one reading or the other, and ends when everything that matched
all the time in both was reported.

`Slots` is the same for the allocator: slots that are taken by one holder each,
and a size that grows only when every slot is held.

`Paths`: a path is a sequence of names, absolute or not; the process's own
directory (`Started`) is not the shell's (`cwd`), which `cd` changes. `Search`
and `Start` are apart, so that the file system may change in between.

`History`: each query is one step of the database, and `add` is three of them
(`last`, `get`, `insert`), between which other shells make theirs. Rows are never
deleted, so a rowid is a position in a sequence. While another shell uses the
table a query may fail (`QueryFails`, `InsertFails`, `SearchFails`): nothing waits
for the lock. `IsLike` is SQLite's `LIKE` and
`Matches` the editor's substring match, both external.

## 3. The runs

| Run | Bounds | Question | Result |
|---|---|---|---|
| `JobsAll` | 4 pids, every kind of line, nested function | statuses, jobs, groups, terminal, and the inductive invariant | holds |
| `JobsPipelines` | 3 pids, programs that are one pipeline, `fg`, `jobs`, with fairness | a program starts in the foreground; what is waited for is there, never already stopped; every line is finished with | holds |
| `JobsBackground` | `a &` | the shell can read the next line | violated |
| `Registers` | five temporaries | the allocator implements `Slots`; the inductive invariant | holds |
| `MachineAny` | every program of 3 instructions out of 33 on two frames | frames tile the stack and are isolated | holds |
| `ShellAll` | about 900 lines, 4 fates | compiled lines do what they mean | holds |
| `LexerAll` | texts of 3 characters out of 26, of 5 out of those that quote, nest or end lines, and written tokens with every component in every other | the lexer reads what is written and loses nothing | holds |
| `GrammarAll` | texts of 4 tokens out of 17, of 5 out of 8, broken phrases, 3,600 phrases, lists of three commands | the parser builds what the text says | holds |
| `ReadLoopAll` | 3 lines out of 17 | lines are taken together rightly | holds |
| `HistoryAll` | 2 shells, 2 lines each out of 3, 4 patterns | order, repeats and searches | holds |
| `WalkerAll` | 2 trees, 22 patterns, 2 changes of the files | the walker implements `Globbing`, reports nothing twice, ends | holds |
| `PathsAll` | 3 operations from 3 environments | `cd`, `path`, the start of programs and `which` | holds |

Why the bounds are enough. Four pids allow a three-stage pipeline beside an
older stopped job, and a leader that is reaped before a later member joins. Three, in
`JobsPipelines`, allow a pipeline of two beside an older stopped job. The
programs of `MachineAny` contain every instruction with registers of its own
frame, of the frame below and of nobody, underflow of every stack, both jump
kinds in and out of the program. The lines of `ShellAll` take each `${}`
operator on a set, unset and blank-only parameter, quoted and unquoted, in each
position of a word (argument, assignment, file name), an IFS that a line
changes, and each pair of nested commands; every command of a line may
be answered, fail, stop or be an error, so every early end is taken in every
scope. `MaxSpawned` bounds the commands of one line (no line has five); numbers
have one digit.

The lexer looks ahead over one regular expression and puts back one character or
one token, so three characters of any kind hold every such conflict; five of
those that open and close are enough for one nesting in another, left open at
every place. The written phrases put every component in every other twice.

The parser puts at most two tokens back, so texts of four and five tokens hold
every way in which rules hand tokens to each other: after a name, a number, a
parenthesis, a redirection and a reserved word. The phrases nest every compound
command in every other, with redirections and function bodies, and end commands
with `;`, a newline or both; the broken ones put a stray `)` or `|` at each of
the first four places of a phrase. Three lines (`MaxLines`) are enough to open a
quote, stay in it and close it, and for one command to follow another. Two lines
of each of two shells (`MaxRows`) make four rows: a search with rows on both
sides of its start, and two adds that overlap in every order.

The trees of `WalkerAll` have a link to a directory elsewhere, one that leads
back and one to nowhere, hidden names on two levels, and a name that is a
special character; the patterns have every kind of token at the start, in the
middle and behind `**`, and those the parser refuses. Two changes (`MaxChanges`)
let a file vanish after it was listed and come back, or two files change while
one is found. Three operations (`MaxSteps`) of `PathsAll` let `cd` or an edit of
`PATH` come between the environment and a command, and a change of the files
between its search and its start.

What the violated run shows is under `findings` in `PROJECT.json`: an
asynchronous command leaves no status, and the error path does not take the
terminal back.

Where a property of a passing run holds only with an exception, the exception is
in the property and is worth knowing:

- `StartsInForeground` excludes the leader of a job whose standard input is
  redirected (`cmd < file`): the child's `tcsetpgrp` acts on descriptor 0, which
  is the file by then, and the parent's may come after `exec`.
- `WaitedIsForeground` and `NoStuckWait` are about programs that are one pipeline.
  The commands of `a ; b` share a job, whose group dies with `a`: `b` is not in the
  foreground (`shellhost.rs:184`). After `a ; b` with `b` stopped, `fg` ignores that the
  job's group is gone and waits for a process that nothing continues.
- `RepeatsOnlyRaced`: two shells that enter the same line at once both insert it.
- `OrderKept` does not count lines whose insert failed: the error is dropped
  (`history.rs:106`) and the line is not in the history. A shell that cannot read
  the newest row panics (`history.rs:83`).
- `SearchesFind`: the database picks one row by `LIKE`, which ignores case
  and knows the wildcards `_` and `%`; if the editor's match then fails on it,
  the search answers that there is none although there may be one further on.
- `WordsKept` excludes a function header without a body: `f() echo hi` runs
  `echo hi`.
- `Understood` writes no list with a second `&&` or `||`: the parser drops what
  follows it (`parser.rs:119` and `136`).
- `RefusedForGood` excludes a group or an `if` that is not finished on its line: it
  is refused there (`repl.rs:34`), and its other lines are commands of their own.
- `AssertionsHold` names the texts on which the lexer's assertions fail and the
  shell ends: a `$` that no parameter follows, which includes `$x` and `${#x}` (the
  name of a parameter has two letters at least; `${x}` is plain text), and
  `a=b=`. The documentation at `lexer.rs:148` knows no such limit.
- `Balanced`, and with it `WaitsWhileOpen`, leaves out texts in which an error
  inside `$( )` or `${ }` was dropped (`lexer.rs:523`, `614`): `$(x=)` is never
  closed.
- `NothingLost` leaves out comments. `#` starts one in the middle of a word too, and
  takes the newline with it: in a script `a # c` joins the next line to `a`.
- `ReadsAgain` leaves out what looks alike (`Lookalike`): a quoted colon in an
  assignment, a name and the `=` on the next line, brackets beside backquotes.
- `Globbing` promises nothing where the code and the documentation of `Glob::new`
  disagree about a match; such a path may be reported and may be missed. As
  documented and not as coded: a `*` at the start of a name may match nothing
  (`lib.rs:57`; `*a` does not find `a`), `**/x` may match `x` itself (any
  number of directories, `lib.rs:62`). As coded and not as documented: a last `**`
  matches hidden names too and, behind another `**`, several levels (`lib.rs:64` and
  `nodewalker.rs:137`: like `*`); a `*` or `?` behind an empty alternative matches a
  leading dot (`lib.rs:52`); behind `**`, where the rest of a pattern becomes one
  regular expression, `[!x]` matches a slash. The documentation does not say
  whether `**` passes hidden directories; both readings have it that it does not.
- An absolute pattern with `**` that leads out of the working directory is a
  panic (`recursivewalker.rs:58`), the one failure `Globbing` allows; `*` reports
  links to nowhere, `**/*` and literal names do not.
- `FoundOnce` is about entries that were there all the time: one removed and
  created again during the walk may be listed twice.
- `LandsWhereAsked`: without `-P`, `..` is removed with the name before it, so
  `cd nosuch/..` and `cd file/..` succeed and `..` behind a link is not where the
  link leads; in a relative path (only `cd -` with a relative `OLDPWD` has one)
  a `..` that leads out of the path is dropped: `d/../../d` is taken for `d`. `cd`
  sets neither `PWD` nor `OLDPWD`; with a relative `OLDPWD`, `cd -` leaves the
  shell with a relative working directory, and `HOME=-` is `cd -`.
- `StartsWhatItFound`: a relative entry of `PATH`, which includes the empty entry
  that an emptied or unset `PATH` is, is searched from the directory where the
  process was started, and the result executed from the shell's own; a bare
  name is searched again by `execvp`, in a default path where `PATH` is not set.
  A file is known by its path: a program replaced by another at the same path
  counts as the same.
- `PathAsAsked`: an emptied `PATH` is one empty entry. The last operand of
  `prepend` is in front afterwards even where `--dedup` found it elsewhere; `add
  --dedup` leaves an entry where it was. An operand with a colon is an error and
  changes nothing (`env.rs:153`).
- In `ShellSemantics`, as in the code and against the comment of `word_expand`
  (`shell_compiler/src/lib.rs:361`), one quoted part of a word keeps the whole
  word from being split.
- The lookahead of the parser is a queue and holds more than the one token that
  the comment of `unget_token` allows; nothing depends on it.

Fairness. `JobsPipelines` assumes weak fairness of `ShellStep` (the shell, when
it can take a step, is scheduled) and, for each child, of its exit with some
code: a program that can run forever exits in the end, since one that never does
is waited for forever, rightly. Signals, stops and the keyboard owe nothing.
`ShellAll` assumes weak fairness of the machine's step: `Machine::run` is a loop
that calls `step` until the program is done. `Ends` of `WalkerAll` assumes it of
`Step`: the walk is a loop in one thread, and its caller asks for results until
there are none. The changes of other processes owe nothing.

Deadlock is checked in every run; a machine that has returned stutters
(`Halted`), and so do a parser that has returned (`Done`), a lexer or a walk at its end (`Done`, `Ended`), a shell that has ended
(`Dead`, `Left`). At their bounds users still search, end the shell or
interrupt it.

## 4. The proofs

All for every value of the constants that satisfies the modules' assumptions and
the hypotheses named here, checked with TLAPS.

- `JobControlProofs`. `IInv` strengthens the safety properties with: the pids
  of frames and jobs are processes that were started; a process belongs to one
  job; a job is listed under its group id; a process's group is its job's or
  the shell's, and the latter only when it was too late to join; a cached
  status that says ended was collected from the kernel. The safety properties
  alone are not inductive: `NoJobLost`, say, needs that a job being built is not
  yet expected in the list, `GroupIntegrity` that a group whose leader is not
  reaped still exists. `Invariance` has one lemma per kind of step (of the stack
  of machines, the kernel, the job list), the other theorems follow from it:
  `TypeCorrect`, `Faithful`, `StatusNeverChanges`, `JobsNeverLost`,
  `GroupsKept`, `PromptInForeground`.
  Then, at the end of the module: `WaitsInForeground`, `NeverStuck` and `RunsInForeground`, for
  any number of processes and any programs that are one pipeline each
  (`PipelinesOnly`, the hypothesis; `a ; b` breaks all three, see above). What makes
  them inductive is `PipelineInv`, relative to `IInv`: while a stage is spawned the
  leader of its job is not reaped and the job has the terminal (`JobStarts`), the
  child is in its group before it runs (`ChildPlaced`), no process of a job was too late
  to join (`Grouped`), every machine but the innermost is at its last command
  (`ActsLast`), and a stop of the process that is waited for has been reported to
  nobody (`StopsAreNews`). Nothing is waited for before the last stage, which is why
  none of this can be lost between two stages.
- `RegisterAllocatorProofs`: free and used registers partition the frame, and none
  is lost; hence `NoAliasing` and `RegistersInFrame`. `Refinement`: every step of
  the allocator is a step of `Slots`. Taking a register from the free list
  (`ReuseTakes`) takes a slot nobody holds; growing (`GrowTakes`) is allowed in
  `Slots` only when every slot is held, which is where it is needed that no
  register is lost.
- `ShellMachineProofs`: frames tile the stack (`Invariance`), whatever the
  program; hence `NestedCommandsIsolated`. From the assumption that a frame size
  is a natural number (usize) only.
- `HistoryProofs`: `OrderIsKept`, for any number of shells. `OrderKept` alone is
  not inductive: when a line turns out to repeat a row that was the newest a
  while ago, it must be known that none of the shell's own lines is behind that
  row. `IInv` says so (`Recallable`: a shell that compares its line with a row
  has its other lines up to that row). `RepeatsAreRaces` needs that a shell about
  to insert has compared its line with the row it read (`Compared`), and
  `NoRepeatAlone`, for one shell, that this row is still the newest (`Fresh`).
  `SearchesAreRight`, for any number of shells and rows: an answer is the nearest
  row that holds the pattern, and where one is missed the database had picked
  another before it. `SearchInv` adds to `SearchesFind` that
  the rows an answer speaks of exist (`AnswerInRows`); that a nearest row exists
  where any does is `LeastNumber` or `GreatestNumber`.
- `PathsProofs`, for all files, environments, operands and commands, and any number
  of steps. `TypesInvariance`: the types, and what is known of a program that was
  found and waits to be started (`Types`, `JobIsFound`).
  - `WhichIsRight` and `PathIsAsAsked` need nothing else. The second is about every
    PATH and every list of operands: that `Deduped` keeps the first of every entry,
    that an edit changes the number of copies of its own entry only
    (`EditedOn`), and that `Only` keeps the order, each by induction over the
    entries or operands.
  - `StartsTheFound` assumes `LinksStay`: other processes do not put a link in the
    place of another entry, or an absolute path would lead elsewhere between search
    and start.
  - `LandsThere` assumes `DirectoriesStay`: a directory that holds something is
    neither removed nor replaced, and links lead to no other link (which `Enter`
    of `Files` does not follow). It shows that a path the text of which names
    directories only resolves to its normal form (`TextAgrees`, by induction over
    the names), and that what `canonicalize` returns resolves to itself.
  Both assumptions are about the constants alone, the files and what others do
  with them; `MCPaths` has TLC evaluate them.
- `WalkerProofs` and `PromiseProofs`, for every set of patterns and every finite
  file tree whose links lead to no other link, and any number of plain files that
  others create and remove meanwhile (`Volatile`).
  What a pattern means is `Meaning` as coded in all lemmas; the documented reading
  occurs in the last step alone.
  - `WalkerFindsOnce` assumes `PatternsAreRead`: a component that is plain text
    becomes a literal node, `**` a recursive one, any other a regular expression.
    `FoundOnce` says nothing about the walkers; what is inductive is that a path
    that matched all the time has one source (`OneSource`): a walker on the queue,
    a recursive walk that waits, a directory that is read and has not listed the
    next name yet, or one copy among the results, and never two of them. It needs
    that routes stand at the nodes their directories have reached and that a
    listing is one of the directory its route leads to (`WalkInv`).
  - `WalkerKeepsPromise` is the refinement of `Globbing`. It assumes
    `PatternsAreMeant`: the nodes of a pattern also match what the components mean
    as coded, and what is refused is what is broken. The lemmas show that all is found
    that matched all the time as coded (`steady`); what matched all the time in both
    readings (`always`) is among that (`AlwaysKept`), and what matched as coded at some
    time is among what matched in either (`sometime`). An entry that is a match is
    `Find`, or no step if an equal path was found before; a panic is `Fail`, the end `Finish`, a
    change of the files `Change`, all else a stutter. Three facts carry it.
    `Faithful`: the names of a route are those its components ask for, and where the
    pattern does not write them, of directories and links, which others leave alone; a
    listing shows its directory as it is or was at a moment when the file it shows
    would have matched, so nothing is reported that never matched. `Covered`: what
    matched all the time and is not found has a source that is sure to list it, so
    at the end all was found. `OneSource` is not enough for that: a listing may show
    a file that was removed, but owes only those that were there since it was opened.
    And `WalksGo`: the directories of a recursive walk are the prefixes of the
    innermost, by which walkdir's test for links that lead back (`LeadsBack`) is the
    one of the definition of what matches.
  - The two hypotheses are about data, not behaviour: how the text of a component is
    parsed and matched. `MCWalker` has TLC evaluate them for its patterns, with every
    name of its trees and every path of up to four names; no walk in those trees
    visits a longer one. That an arbitrary pattern is parsed as written is induction
    over texts, and left to TLC.
- `InductionFacts`. The library's induction theorems take an operator as a
  parameter, which the provers cannot instantiate; instead, a proof by induction
  takes the least of the counterexamples (`LeastNumber`) and refutes it, or, over
  sequences, shows that a set holds `<<>>` and is closed under `Append`
  (`AppendInduction` in `PathsProofs`). `FoldLeft` unfolds, through the module
  `Folds`, to a function that takes the greatest index off a set; `FoldExists` and
  `FoldsPrefixes` show that there is such a function, and that a fold over a
  sequence takes its prefixes one by one. Every recursion in `Paths` is such a fold.

What the proofs asked of the model. `LandsWhereAsked` was first stated for
every `..` before which the text names a place by its real name; the case of a
file before `..` and the one of a relative path would not go through, and TLC then showed both (`cd /b/x/..`, and
`cd -` with `OLDPWD` `d/../../d`): its exception says so now and the inputs of
`MCPaths` contain them. And a `CASE` whose arms overlap has, for the prover, an
unspecified value: where the code is an if-else chain, so is the model. In `Meaning`,
the levels below a directory were first counted up to the number of files, which
missed paths through several links, each of which opens the same files again
(`Below`); and `Covers` is a function of one argument, of sets of places to begin,
for the prover knows functions of one argument only.

Only model-checked: progress and termination (liveness and `ENABLED` are out of
the prover's reach: `PromptReturns`, `Terminates`, `Ends`), and everything about the
compiler, the lexer and the parser, which are `RECURSIVE` operators over commands
and texts, and with them the properties of `Shell`, `Grammar`, `Lexing` and `ReadLoop`.

## 5. Abstractions, and what is not modelled

- Strings are sequences of atoms (runs of characters nothing inspects, blanks,
  backslashes, `*`); UTF-8 only, so `OsString` is `String`.
- In `ShellMachine` file name generation is a table; opening a file succeeds or fails by name;
  descriptors are names of what they lead to. Reading, writing and the capacity
  of pipes are not modelled, so `{ a; b; } | c`, which waits for `a` before `c`
  exists, is a recorded hazard without a property.
- In `ShellMachine` a function call is the host's answer; nested machines are
  in `JobControl`, as sequences of commands.
- `command` or `builtin` alone takes the first of no arguments: a panic, which
  ends the shell in `Paths` (`shellhost.rs:103`). `{ a & }` waits for `a`: the parser
  forgets the `&` inside a group (`parser.rs:402`), and `Understood` writes none.
- Pids are used once; the stop signal that could hit a child between its
  signal reset and exec is not modelled.
- Positions and the wording of errors are left out; the reader's buffer, which
  is filled line by line, is the whole text. Subshells are parsed and not compiled.
- Patterns: in classes ranges, nested classes and the operators `&&`, `--`, `~~`, which
  the code hands to the regular expressions as they are, and sorting the results. Files: links to
  links, and removing what others are below. A pattern without a match is no
  argument, in `ShellMachine`.
- `Paths` has three variables and runs nothing: what a program does is
  `JobControl`'s. Printing (`pwd`, `export` and `path` without operands) is left out.
- Scripts (`job_control_enabled = false`) and Windows are not modelled. The instructions the
  compiler never emits (arithmetic, comparison) are left out; one of them stands
  in `MachineAny` for an instruction that fails.

## 6. Plan

Next, in this order:

1. `Descriptors`: reference-counted descriptors of `ioenv.rs`, pipes with a
   capacity, readers and writers as processes: end of file, the brace-group
   deadlock, descriptors left open after an error.
2. `Parser` composed with `ShellCompiler`: every command the parser returns is
   compiled or refused.
3. Nested machines: function calls in `ShellMachine`, with positional
   parameters and the environment handed back.

Proofs to add: the balance of scopes over a program of the machine; the descriptor
counts; the control of `ReadLoop` apart from the lexer it calls.
