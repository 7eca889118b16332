----------------------------- MODULE PathsProofs -----------------------------
(***************************************************************************)
(* Proofs about Paths.                                                      *)
(***************************************************************************)
EXTENDS Paths, InductionFacts, FiniteSetTheorems, SequenceTheorems, TLAPS

-----------------------------------------------------------------------------
(* Folds.                                                                  *)

\* A step into a directory leads to a path.
LEMMA EnterTyped ==
    ASSUME NEW files, Tidy(files), NEW place \in Seq(Name), NEW name \in Name
    PROVE  Enter(files, place, name) \in Seq(Name)
<1>1. Absent \in Seq(Name) /\ <<>> \in Seq(Name)
  BY DEF Absent, Name
<1>2. Append(place, name) \in Seq(Name)
  OBVIOUS
<1>3. place # <<>> => Front(place) \in Seq(Name)
  BY DEF Front
<1>4. ASSUME NEW path \in DOMAIN files
      PROVE  files[path].to \in Seq(Name)
  BY DEF Tidy
<1> DEFINE child == Append(place, name)
<1>5. child # <<>>
  <2>1. Len(child) = Len(place) + 1 /\ Len(place) \in Nat
    OBVIOUS
  <2> QED
    BY <2>1
<1>6. CASE ~IsDir(files, place)
  BY <1>1, <1>6 DEF Enter
<1>7. CASE IsDir(files, place) /\ name = Parent
  BY <1>1, <1>3, <1>7 DEF Enter
<1>8. CASE IsDir(files, place) /\ name = Current /\ name # Parent
  BY <1>8 DEF Enter
<1>9. CASE IsDir(files, place) /\ name # Current /\ name # Parent
  <2>1. CASE ~Known(files, child)
    BY <1>1, <1>9, <2>1 DEF Enter
  <2>2. CASE Known(files, child)
    <3>1. child \in DOMAIN files /\ files[child].to \in Seq(Name)
      BY <1>4, <1>5, <2>2 DEF Known
    <3>2. Enter(files, place, name) \in {files[child].to, Absent, child}
      <4> HIDE DEF child
      <4>1. CASE files[child].kind = "link"
        BY <1>9, <2>2, <4>1 DEF Enter, child
      <4>2. CASE files[child].kind # "link"
        BY <1>9, <2>2, <4>2 DEF Enter, child
      <4> QED
        BY <4>1, <4>2
    <3> QED
      BY <1>1, <1>2, <3>1, <3>2
  <2> QED
    BY <2>1, <2>2
<1> QED
  BY <1>6, <1>7, <1>8, <1>9

\* Path lookup goes from name to name.
LEMMA ResolveSteps ==
    ASSUME NEW files, Tidy(files), NEW names \in Seq(Name)
    PROVE  \E at \in [0 .. Len(names) -> Seq(Name)] :
             /\ at[0] = <<>> /\ at[Len(names)] = Resolve(files, names)
             /\ \A i \in 1 .. Len(names) : at[i] = Enter(files, at[i - 1], names[i])
<1> DEFINE n == Len(names)
           S == Seq(Name)
           Step == [p \in S \X (1 .. n) |-> Enter(files, p[1], names[p[2]])]
           Is(iter) == iter = [s \in SUBSET DOMAIN names |->
                                 IF s = {} THEN <<>>
                                 ELSE Enter(files, iter[s \ {Max(s)}], names[Max(s)])]
           iter == CHOOSE iter : Is(iter)
<1>1. n \in Nat /\ DOMAIN names = 1 .. n /\ (\A i \in 1 .. n : names[i] \in Name) /\ <<>> \in S
  OBVIOUS
<1>2. \A a \in S, i \in 1 .. n :
        Step[a, i] = Enter(files, a, names[i]) /\ Step[a, i] \in S
  BY <1>1, EnterTyped
<1>3. Step \in [S \X (1 .. n) -> S]
  BY <1>1, EnterTyped
<1>4. Resolve(files, names) = iter[DOMAIN names]
  BY Zenon DEF Resolve, FoldLeft, MapThenFoldSet
<1>5. \A s \in SUBSET (1 .. n) : s # {} => Max(s) \in 1 .. n
  <2> HIDE DEF n
  <2> QED
    BY <1>1, MaxIsGreatest
<1>6. \E f : Is(f)
  <2>1. PICK g \in [SUBSET (1 .. n) -> S] : Folded(g, n, <<>>, Step)
    <3> HIDE DEF n, S, Step
    <3> QED
      BY <1>1, <1>3, FoldExists DEF Foldable
  <2>2. ASSUME NEW s \in SUBSET (1 .. n)
        PROVE  g[s] = IF s = {} THEN <<>> ELSE Enter(files, g[s \ {Max(s)}], names[Max(s)])
    <3> HIDE DEF n, S, Step
    <3> QED
      BY <1>2, <1>5, <2>1 DEF Folded
  <2>3. Is(g)
    <3> HIDE DEF n, S, Step
    <3> QED
      BY <1>1, <2>2
  <2> QED
    BY <2>3
<1>7. Is(iter)
  <2> HIDE DEF Is
  <2> QED
    BY <1>6
<1>8. ASSUME NEW s \in SUBSET (1 .. n)
      PROVE  iter[s] = IF s = {} THEN <<>> ELSE Enter(files, iter[s \ {Max(s)}], names[Max(s)])
  <2> HIDE DEF n, iter
  <2> QED
    BY <1>1, <1>7
<1> HIDE DEF iter, Is, Step, n, S
<1>9. PICK at \in [0 .. n -> S] : Stepping(at, n, <<>>, iter[1 .. n], Step)
  <2>1. Folding(iter, n, <<>>, S, Step)
    BY <1>2, <1>5, <1>8 DEF Folding
  <2> QED
    BY <1>1, <1>3, <2>1, FoldsPrefixes
<1>10. \A i \in 1 .. n : at[i] = Enter(files, at[i - 1], names[i])
  <2>1. \A i \in 1 .. n : i - 1 \in 0 .. n
    BY <1>1
  <2> QED
    BY <1>2, <1>9, <2>1 DEF Stepping
<1> QED
  BY <1>1, <1>4, <1>9, <1>10 DEF n, S, Stepping

\* What Only has kept after each entry.
OnlyRun(at, entries, wanted) ==
    /\ at[0] = <<>> /\ at[Len(entries)] = Only(entries, wanted)
    /\ \A i \in 1 .. Len(entries) :
         at[i] = IF entries[i] \in wanted THEN Append(at[i - 1], entries[i]) ELSE at[i - 1]

\* Only goes over its entries, and keeps those that are wanted.
LEMMA OnlySteps ==
    ASSUME NEW E, NEW entries \in Seq(E), NEW wanted
    PROVE  \E at \in [0 .. Len(entries) -> Seq(ToSet(entries) \cap wanted)] :
             OnlyRun(at, entries, wanted)
<1> DEFINE n == Len(entries)
           S == Seq(ToSet(entries) \cap wanted)
           One(kept, i) == IF entries[i] \in wanted THEN Append(kept, entries[i]) ELSE kept
           Step == [p \in S \X (1 .. n) |-> One(p[1], p[2])]
           Is(iter) == iter = [s \in SUBSET DOMAIN entries |->
                                 IF s = {} THEN <<>> ELSE One(iter[s \ {Max(s)}], Max(s))]
           iter == CHOOSE iter : Is(iter)
<1>1. n \in Nat /\ DOMAIN entries = 1 .. n /\ (\A i \in 1 .. n : entries[i] \in ToSet(entries))
      /\ <<>> \in S
  BY DEF ToSet
<1>2. \A a \in S, i \in 1 .. n : Step[a, i] = One(a, i) /\ Step[a, i] \in S
  <2> SUFFICES ASSUME NEW a \in S, NEW i \in 1 .. n
               PROVE  One(a, i) \in S
    OBVIOUS
  <2>1. entries[i] \in wanted => entries[i] \in ToSet(entries) \cap wanted
    BY <1>1
  <2> HIDE DEF n
  <2> QED
    BY <2>1
<1>3. Step \in [S \X (1 .. n) -> S]
  <2> HIDE DEF One, S, n
  <2> QED
    BY <1>2
<1>4. Only(entries, wanted) = iter[DOMAIN entries]
  BY Zenon DEF Only, FoldLeft, MapThenFoldSet
<1>5. \A s \in SUBSET (1 .. n) : s # {} => Max(s) \in 1 .. n
  <2> HIDE DEF n
  <2> QED
    BY <1>1, MaxIsGreatest
<1>6. \E f : Is(f)
  <2>1. PICK g \in [SUBSET (1 .. n) -> S] : Folded(g, n, <<>>, Step)
    <3> HIDE DEF n, S, Step
    <3> QED
      BY <1>1, <1>3, FoldExists DEF Foldable
  <2>2. ASSUME NEW s \in SUBSET (1 .. n)
        PROVE  g[s] = IF s = {} THEN <<>> ELSE One(g[s \ {Max(s)}], Max(s))
    <3>1. CASE s = {}
      BY <2>1, <3>1 DEF Folded
    <3>2. CASE s # {}
      <4> HIDE DEF n, S, Step, One
      <4>1. g[s] = Step[g[s \ {Max(s)}], Max(s)]
        BY <2>1, <3>2 DEF Folded
      <4>2. g[s \ {Max(s)}] \in S /\ Max(s) \in 1 .. n
        BY <1>5, <3>2
      <4>3. Step[g[s \ {Max(s)}], Max(s)] = One(g[s \ {Max(s)}], Max(s))
        BY <1>2, <4>2
      <4> QED
        BY <3>2, <4>1, <4>3
    <3> QED
      BY <3>1, <3>2
  <2>3. Is(g)
    <3> HIDE DEF n, S, Step
    <3> QED
      BY <1>1, <2>2
  <2> QED
    BY <2>3
<1>7. Is(iter)
  <2> HIDE DEF Is
  <2> QED
    BY <1>6
<1>8. ASSUME NEW s \in SUBSET (1 .. n)
      PROVE  iter[s] = IF s = {} THEN <<>> ELSE One(iter[s \ {Max(s)}], Max(s))
  <2> HIDE DEF n, iter
  <2> QED
    BY <1>1, <1>7
<1> HIDE DEF iter, Is, Step, n, S
<1>9. PICK at \in [0 .. n -> S] : Stepping(at, n, <<>>, iter[1 .. n], Step)
  <2>1. Folding(iter, n, <<>>, S, Step)
    BY <1>2, <1>5, <1>8 DEF Folding
  <2> QED
    BY <1>1, <1>3, <2>1, FoldsPrefixes
<1>10. \A i \in 1 .. n : at[i] = One(at[i - 1], i)
  <2>1. \A i \in 1 .. n : i - 1 \in 0 .. n
    BY <1>1
  <2> HIDE DEF One
  <2> QED
    BY <1>2, <1>9, <2>1 DEF Stepping
<1> QED
  BY <1>1, <1>4, <1>9, <1>10 DEF n, S, Stepping, OnlyRun

\* Only gives entries that are wanted.
LEMMA OnlyTyped ==
    ASSUME NEW E, NEW entries \in Seq(E), NEW wanted
    PROVE  Only(entries, wanted) \in Seq(ToSet(entries) \cap wanted)
<1>1. PICK at \in [0 .. Len(entries) -> Seq(ToSet(entries) \cap wanted)] : OnlyRun(at, entries, wanted)
  BY OnlySteps
<1>2. Len(entries) \in 0 .. Len(entries)
  OBVIOUS
<1> QED
  BY <1>1, <1>2 DEF OnlyRun

\* What Deduped has kept after each entry.
DedupedRun(at, entries) ==
    /\ at[0] = <<>> /\ at[Len(entries)] = Deduped(entries)
    /\ \A i \in 1 .. Len(entries) :
         at[i] = IF Contains(at[i - 1], entries[i]) THEN at[i - 1] ELSE Append(at[i - 1], entries[i])

\* Deduped keeps an entry that it has not kept yet.
LEMMA DedupedSteps ==
    ASSUME NEW E, NEW entries \in Seq(E)
    PROVE  \E at \in [0 .. Len(entries) -> Seq(ToSet(entries))] : DedupedRun(at, entries)
<1> DEFINE n == Len(entries)
           S == Seq(ToSet(entries))
           One(a, i) == IF Contains(a, entries[i]) THEN a ELSE Append(a, entries[i])
           Step == [p \in S \X (1 .. n) |-> One(p[1], p[2])]
           Is(iter) == iter = [s \in SUBSET DOMAIN entries |->
                                 IF s = {} THEN <<>> ELSE One(iter[s \ {Max(s)}], Max(s))]
           iter == CHOOSE iter : Is(iter)
<1>1. n \in Nat /\ DOMAIN entries = 1 .. n /\ (\A i \in 1 .. n : entries[i] \in ToSet(entries)) /\ <<>> \in S
  BY DEF ToSet
<1>2. \A a \in S, i \in 1 .. n : Step[a, i] = One(a, i) /\ Step[a, i] \in S
  <2> SUFFICES ASSUME NEW a \in S, NEW i \in 1 .. n
               PROVE  One(a, i) \in S
    OBVIOUS
  <2> HIDE DEF n
  <2> QED
    BY <1>1
<1>3. Step \in [S \X (1 .. n) -> S]
  <2> HIDE DEF One, S, n
  <2> QED
    BY <1>2
<1>4. Deduped(entries) = iter[DOMAIN entries]
  BY Zenon DEF Deduped, FoldLeft, MapThenFoldSet
<1>5. \A s \in SUBSET (1 .. n) : s # {} => Max(s) \in 1 .. n
  <2> HIDE DEF n
  <2> QED
    BY <1>1, MaxIsGreatest
<1>6. \E f : Is(f)
  <2>1. PICK g \in [SUBSET (1 .. n) -> S] : Folded(g, n, <<>>, Step)
    <3> HIDE DEF n, S, Step
    <3> QED
      BY <1>1, <1>3, FoldExists DEF Foldable
  <2>2. ASSUME NEW s \in SUBSET (1 .. n)
        PROVE  g[s] = IF s = {} THEN <<>> ELSE One(g[s \ {Max(s)}], Max(s))
    <3>1. CASE s = {}
      BY <2>1, <3>1 DEF Folded
    <3>2. CASE s # {}
      <4> HIDE DEF n, S, Step, One
      <4>1. g[s] = Step[g[s \ {Max(s)}], Max(s)]
        BY <2>1, <3>2 DEF Folded
      <4>2. g[s \ {Max(s)}] \in S /\ Max(s) \in 1 .. n
        BY <1>5, <3>2
      <4>3. Step[g[s \ {Max(s)}], Max(s)] = One(g[s \ {Max(s)}], Max(s))
        BY <1>2, <4>2
      <4> QED
        BY <3>2, <4>1, <4>3
    <3> QED
      BY <3>1, <3>2
  <2>3. Is(g)
    <3> HIDE DEF n, S, Step
    <3> QED
      BY <1>1, <2>2
  <2> QED
    BY <2>3
<1>7. Is(iter)
  <2> HIDE DEF Is
  <2> QED
    BY <1>6
<1>8. ASSUME NEW s \in SUBSET (1 .. n)
      PROVE  iter[s] = IF s = {} THEN <<>> ELSE One(iter[s \ {Max(s)}], Max(s))
  <2> HIDE DEF n, iter
  <2> QED
    BY <1>1, <1>7
<1> HIDE DEF iter, Is, Step, n, S
<1>9. PICK at \in [0 .. n -> S] : Stepping(at, n, <<>>, iter[1 .. n], Step)
  <2>1. Folding(iter, n, <<>>, S, Step)
    BY <1>2, <1>5, <1>8 DEF Folding
  <2> QED
    BY <1>1, <1>3, <2>1, FoldsPrefixes
<1>10. \A i \in 1 .. n : at[i] = One(at[i - 1], i)
  <2>1. \A i \in 1 .. n : i - 1 \in 0 .. n
    BY <1>1
  <2> HIDE DEF One
  <2> QED
    BY <1>2, <1>9, <2>1 DEF Stepping
<1> QED
  BY <1>1, <1>4, <1>9, <1>10 DEF n, S, Stepping, DedupedRun

\* What the path builtin has of the entries while it goes over its operands.
Options == [dirs : Seq(Path), dedup : BOOLEAN, only_existing : BOOLEAN]
Places  == [seen : SUBSET Path, path : Seq(Path)]

\* One operand is added, moved or removed.
LEMMA EditTyped ==
    ASSUME NEW op \in {"add", "prepend", "remove"}, NEW spec \in Options,
           NEW at \in Places, NEW dir \in Path
    PROVE  Edit(op, spec, at, dir) \in Places
<1>1. \A s \in Seq(Path) : Without(s, dir) \in Seq(Path)
  <2> SUFFICES ASSUME NEW s \in Seq(Path)
               PROVE  Without(s, dir) \in Seq(Path)
    OBVIOUS
  <2>1. Without(s, dir) \in Seq(ToSet(s) \cap (ToSet(s) \ {dir}))
    BY OnlyTyped DEF Without
  <2>2. ToSet(s) \subseteq Path
    BY DEF ToSet
  <2> QED
    BY <2>1, <2>2
<1>2. at.path \in Seq(Path) /\ at.seen \in SUBSET Path /\ <<dir>> \in Seq(Path)
  BY DEF Places
<1>3. Append(at.path, dir) \in Seq(Path)
      /\ \A s \in Seq(Path) : <<dir>> \o s \in Seq(Path)
  BY <1>2
<1>4. CASE op = "add"
  BY <1>2, <1>3, <1>4 DEF Edit, Add, Places
<1>5. CASE op = "prepend"
  BY <1>1, <1>2, <1>3, <1>5 DEF Edit, Prepend, Places
<1>6. CASE op = "remove"
  BY <1>1, <1>2, <1>6 DEF Edit, Places
<1> QED
  BY <1>4, <1>5, <1>6

\* What the path builtin has of the entries after each of its operands.
Editing(at, op, spec, entries) ==
    /\ at[0] = [seen |-> ToSet(entries), path |-> entries]
    /\ at[Len(spec.dirs)] = Edited(op, spec, entries)
    /\ \A i \in 1 .. Len(spec.dirs) : at[i] = Edit(op, spec, at[i - 1], spec.dirs[i])

\* The paths named in a path command are gone over one by one.
LEMMA EditedSteps ==
    ASSUME NEW op \in {"add", "prepend", "remove"}, NEW spec \in Options,
           NEW entries \in Seq(Path)
    PROVE  \E at \in [0 .. Len(spec.dirs) -> Places] :
             Editing(at, op, spec, entries)
<1> DEFINE n == Len(spec.dirs)
           S == Places
           One(a, i) == Edit(op, spec, a, spec.dirs[i])
           Step == [p \in S \X (1 .. n) |-> One(p[1], p[2])]
           Is(iter) == iter = [s \in SUBSET DOMAIN spec.dirs |->
                                 IF s = {} THEN [seen |-> ToSet(entries), path |-> entries] ELSE One(iter[s \ {Max(s)}], Max(s))]
           iter == CHOOSE iter : Is(iter)
<1>1. n \in Nat /\ DOMAIN spec.dirs = 1 .. n /\ (\A i \in 1 .. n : spec.dirs[i] \in Path) /\ [seen |-> ToSet(entries), path |-> entries] \in S
  BY DEF Options, Places, ToSet
<1>2. \A a \in S, i \in 1 .. n : Step[a, i] = One(a, i) /\ Step[a, i] \in S
  <2> SUFFICES ASSUME NEW a \in S, NEW i \in 1 .. n
               PROVE  One(a, i) \in S
    OBVIOUS
  <2> HIDE DEF n
  <2> QED
    BY <1>1, EditTyped
<1>3. Step \in [S \X (1 .. n) -> S]
  <2> HIDE DEF One, S, n
  <2> QED
    BY <1>2
<1>4. Edited(op, spec, entries) = iter[DOMAIN spec.dirs]
  BY Zenon DEF Edited, FoldLeft, MapThenFoldSet
<1>5. \A s \in SUBSET (1 .. n) : s # {} => Max(s) \in 1 .. n
  <2> HIDE DEF n
  <2> QED
    BY <1>1, MaxIsGreatest
<1>6. \E f : Is(f)
  <2>1. PICK g \in [SUBSET (1 .. n) -> S] : Folded(g, n, [seen |-> ToSet(entries), path |-> entries], Step)
    <3> HIDE DEF n, S, Step
    <3> QED
      BY <1>1, <1>3, FoldExists DEF Foldable
  <2>2. ASSUME NEW s \in SUBSET (1 .. n)
        PROVE  g[s] = IF s = {} THEN [seen |-> ToSet(entries), path |-> entries] ELSE One(g[s \ {Max(s)}], Max(s))
    <3>1. CASE s = {}
      BY <2>1, <3>1 DEF Folded
    <3>2. CASE s # {}
      <4> HIDE DEF n, S, Step, One
      <4>1. g[s] = Step[g[s \ {Max(s)}], Max(s)]
        BY <2>1, <3>2 DEF Folded
      <4>2. g[s \ {Max(s)}] \in S /\ Max(s) \in 1 .. n
        BY <1>5, <3>2
      <4>3. Step[g[s \ {Max(s)}], Max(s)] = One(g[s \ {Max(s)}], Max(s))
        BY <1>2, <4>2
      <4> QED
        BY <3>2, <4>1, <4>3
    <3> QED
      BY <3>1, <3>2
  <2>3. Is(g)
    <3> HIDE DEF n, S, Step
    <3> QED
      BY <1>1, <2>2
  <2> QED
    BY <2>3
<1>7. Is(iter)
  <2> HIDE DEF Is
  <2> QED
    BY <1>6
<1>8. ASSUME NEW s \in SUBSET (1 .. n)
      PROVE  iter[s] = IF s = {} THEN [seen |-> ToSet(entries), path |-> entries] ELSE One(iter[s \ {Max(s)}], Max(s))
  <2> HIDE DEF n, iter
  <2> QED
    BY <1>1, <1>7
<1> HIDE DEF iter, Is, Step, n, S
<1>9. PICK at \in [0 .. n -> S] : Stepping(at, n, [seen |-> ToSet(entries), path |-> entries], iter[1 .. n], Step)
  <2>1. Folding(iter, n, [seen |-> ToSet(entries), path |-> entries], S, Step)
    BY <1>2, <1>5, <1>8 DEF Folding
  <2> QED
    BY <1>1, <1>3, <2>1, FoldsPrefixes
<1>10. \A i \in 1 .. n : at[i] = One(at[i - 1], i)
  <2>1. \A i \in 1 .. n : i - 1 \in 0 .. n
    BY <1>1
  <2> HIDE DEF One
  <2> QED
    BY <1>2, <1>9, <2>1 DEF Stepping
<1> QED
  BY <1>1, <1>4, <1>9, <1>10 DEF n, S, Stepping, Editing

\* What comes of that are paths again.
LEMMA EditedTyped ==
    ASSUME NEW op \in {"add", "prepend", "remove"}, NEW spec \in Options,
           NEW entries \in Seq(Path)
    PROVE  Edited(op, spec, entries) \in Places
<1>1. PICK at \in [0 .. Len(spec.dirs) -> Places] :
        Editing(at, op, spec, entries)
  BY EditedSteps
<1>2. Len(spec.dirs) \in 0 .. Len(spec.dirs)
  BY DEF Options
<1> QED
  BY <1>1, <1>2 DEF Editing

\* The text of a path is gone over name by name.
LEMMA NormalizeSteps ==
    ASSUME NEW names \in Seq(Name)
    PROVE  \E at \in [0 .. Len(names) -> Seq(Name)] :
             /\ at[0] = <<>> /\ at[Len(names)] = Normalize(Relative(names)).names
             /\ \A i \in 1 .. Len(names) : at[i] = Onward(at[i - 1], names[i])
<1> DEFINE n == Len(names)
           S == Seq(Name)
           One(a, i) == Onward(a, names[i])
           Step == [p \in S \X (1 .. n) |-> One(p[1], p[2])]
           Is(iter) == iter = [s \in SUBSET DOMAIN names |->
                                 IF s = {} THEN <<>> ELSE One(iter[s \ {Max(s)}], Max(s))]
           iter == CHOOSE iter : Is(iter)
<1>1. n \in Nat /\ DOMAIN names = 1 .. n /\ (\A i \in 1 .. n : names[i] \in Name) /\ <<>> \in S
  OBVIOUS
<1>2. \A a \in S, i \in 1 .. n : Step[a, i] = One(a, i) /\ Step[a, i] \in S
  <2> SUFFICES ASSUME NEW a \in S, NEW i \in 1 .. n
               PROVE  One(a, i) \in S
    OBVIOUS
  <2> HIDE DEF n
  <2> QED
    BY <1>1 DEF Onward, Front
<1>3. Step \in [S \X (1 .. n) -> S]
  <2> HIDE DEF One, S, n
  <2> QED
    BY <1>2
<1>4. Normalize(Relative(names)).names = iter[DOMAIN names]
  BY Zenon DEF Normalize, Relative, FoldLeft, MapThenFoldSet
<1>5. \A s \in SUBSET (1 .. n) : s # {} => Max(s) \in 1 .. n
  <2> HIDE DEF n
  <2> QED
    BY <1>1, MaxIsGreatest
<1>6. \E f : Is(f)
  <2>1. PICK g \in [SUBSET (1 .. n) -> S] : Folded(g, n, <<>>, Step)
    <3> HIDE DEF n, S, Step
    <3> QED
      BY <1>1, <1>3, FoldExists DEF Foldable
  <2>2. ASSUME NEW s \in SUBSET (1 .. n)
        PROVE  g[s] = IF s = {} THEN <<>> ELSE One(g[s \ {Max(s)}], Max(s))
    <3>1. CASE s = {}
      BY <2>1, <3>1 DEF Folded
    <3>2. CASE s # {}
      <4> HIDE DEF n, S, Step, One
      <4>1. g[s] = Step[g[s \ {Max(s)}], Max(s)]
        BY <2>1, <3>2 DEF Folded
      <4>2. g[s \ {Max(s)}] \in S /\ Max(s) \in 1 .. n
        BY <1>5, <3>2
      <4>3. Step[g[s \ {Max(s)}], Max(s)] = One(g[s \ {Max(s)}], Max(s))
        BY <1>2, <4>2
      <4> QED
        BY <3>2, <4>1, <4>3
    <3> QED
      BY <3>1, <3>2
  <2>3. Is(g)
    <3> HIDE DEF n, S, Step
    <3> QED
      BY <1>1, <2>2
  <2> QED
    BY <2>3
<1>7. Is(iter)
  <2> HIDE DEF Is
  <2> QED
    BY <1>6
<1>8. ASSUME NEW s \in SUBSET (1 .. n)
      PROVE  iter[s] = IF s = {} THEN <<>> ELSE One(iter[s \ {Max(s)}], Max(s))
  <2> HIDE DEF n, iter
  <2> QED
    BY <1>1, <1>7
<1> HIDE DEF iter, Is, Step, n, S
<1>9. PICK at \in [0 .. n -> S] : Stepping(at, n, <<>>, iter[1 .. n], Step)
  <2>1. Folding(iter, n, <<>>, S, Step)
    BY <1>2, <1>5, <1>8 DEF Folding
  <2> QED
    BY <1>1, <1>3, <2>1, FoldsPrefixes
<1>10. \A i \in 1 .. n : at[i] = One(at[i - 1], i)
  <2>1. \A i \in 1 .. n : i - 1 \in 0 .. n
    BY <1>1
  <2> HIDE DEF One
  <2> QED
    BY <1>2, <1>9, <2>1 DEF Stepping
<1> QED
  BY <1>1, <1>4, <1>9, <1>10 DEF n, S, Stepping

-----------------------------------------------------------------------------
(* Files that others change.                                               *)

\* Whatever others make of the files, they are files.
LEMMA MadeTidy ==
    ASSUME NEW files, IsMade(files)
    PROVE  Tidy(files)
<1>1. Tidy(Tree) /\ Tidy(Volatile)
  BY PathsAssumption
<1>2. PICK kept \in SUBSET DOMAIN Tree, made \in SUBSET DOMAIN Volatile : files = Made(kept, made)
  BY DEF IsMade
<1> QED
  BY <1>1, <1>2 DEF Made, Tidy

\* No entry is where a path leads that no entry has.
LEMMA AbsentHasNothing ==
    ASSUME NEW files, Tidy(files)
    PROVE  /\ Absent \notin DOMAIN files /\ ~IsDir(files, Absent)
           /\ \A name : Enter(files, Absent, name) = Absent
<1>1. Absent # <<>>
  BY DEF Absent
<1>2. Absent \notin DOMAIN files
  BY DEF Tidy
<1> QED
  BY <1>1, <1>2 DEF IsDir, Enter

\* One step leads to the same place whatever others have made or removed.
LEMMA SameStep ==
    ASSUME LinksStay, NEW files, IsMade(files), NEW other, IsMade(other),
           NEW place \in Seq(Name), NEW name \in Name,
           Enter(files, place, name) # Absent, Enter(other, place, name) # Absent
    PROVE  Enter(files, place, name) = Enter(other, place, name)
<1> DEFINE child == Append(place, name)
<1>1. child # <<>>
  <2>1. Len(child) = Len(place) + 1 /\ Len(place) \in Nat
    OBVIOUS
  <2> QED
    BY <2>1
<1>2. ASSUME NEW f, IsMade(f), NEW g, IsMade(g),
             child \in DOMAIN f, child \in DOMAIN g, f[child].kind = "link"
      PROVE  f[child] = g[child]
  <2> HIDE DEF child
  <2>1. PICK kept \in SUBSET DOMAIN Tree, made \in SUBSET DOMAIN Volatile : f = Made(kept, made)
    BY <1>2 DEF IsMade
  <2>2. PICK kept2 \in SUBSET DOMAIN Tree, made2 \in SUBSET DOMAIN Volatile : g = Made(kept2, made2)
    BY <1>2 DEF IsMade
  <2>3. \/ child \in DOMAIN Volatile /\ f[child] = Volatile[child]
        \/ child \in DOMAIN Tree /\ f[child] = Tree[child]
    BY <1>2, <2>1 DEF Made
  <2>4. \/ child \in DOMAIN Volatile /\ g[child] = Volatile[child]
        \/ child \in DOMAIN Tree /\ g[child] = Tree[child]
    BY <1>2, <2>2 DEF Made
  <2> QED
    BY <1>2, <2>3, <2>4 DEF LinksStay
<1> HIDE DEF child
<1>3. CASE name \in {Parent, Current}
  BY <1>3 DEF Enter
<1>4. CASE name \notin {Parent, Current}
  <2>1. Known(files, child) /\ Known(other, child)
    BY <1>4 DEF Enter, child
  <2>2. child \in DOMAIN files /\ child \in DOMAIN other
    BY <1>1, <2>1 DEF Known
  <2>3. CASE files[child].kind = "link" \/ other[child].kind = "link"
    <3>1. files[child] = other[child]
      BY <1>2, <2>2, <2>3
    <3> QED
      BY <1>4, <3>1 DEF Enter, child
  <2>4. CASE files[child].kind # "link" /\ other[child].kind # "link"
    BY <1>4, <2>4 DEF Enter, child
  <2> QED
    BY <2>3, <2>4
<1> QED
  BY <1>3, <1>4

\* Where a path leads at all, every part of it does.
LEMMA NeverAbsent ==
    ASSUME NEW files, Tidy(files), NEW n \in Nat, NEW names, NEW at, at[n] # Absent,
           \A i \in 1 .. n : at[i] = Enter(files, at[i - 1], names[i])
    PROVE  \A i \in 0 .. n : at[i] # Absent
<1> DEFINE T == {i \in 0 .. n : at[i] = Absent}
<1> SUFFICES ASSUME T # {}
             PROVE  FALSE
  OBVIOUS
<1>1. T \in SUBSET (0 .. n)
  OBVIOUS
<1> HIDE DEF T
<1>2. PICK m \in T : \A k \in T : k <= m
  BY <1>1, GreatestNumber
<1>3. m \in 0 .. n /\ at[m] = Absent
  BY DEF T
<1>4. m # n /\ m + 1 \in 1 .. n /\ (m + 1) - 1 = m
  BY <1>3
<1>5. at[m + 1] = Enter(files, at[m], names[m + 1])
  BY <1>4
<1>6. m + 1 \in T
  BY <1>3, <1>4, <1>5, AbsentHasNothing DEF T
<1> QED
  BY <1>2, <1>3, <1>6

\* A path leads to the same place whatever others have made or removed.
LEMMA SamePlace ==
    ASSUME LinksStay, NEW files, IsMade(files), NEW other, IsMade(other),
           NEW names \in Seq(Name),
           Resolve(files, names) # Absent, Resolve(other, names) # Absent
    PROVE  Resolve(files, names) = Resolve(other, names)
<1> DEFINE n == Len(names)
<1>1. Tidy(files) /\ Tidy(other) /\ n \in Nat /\ \A i \in 1 .. n : names[i] \in Name
  BY MadeTidy
<1>2. PICK at \in [0 .. n -> Seq(Name)] :
        /\ at[0] = <<>> /\ at[n] = Resolve(files, names)
        /\ \A i \in 1 .. n : at[i] = Enter(files, at[i - 1], names[i])
  BY <1>1, ResolveSteps
<1>3. PICK by \in [0 .. n -> Seq(Name)] :
        /\ by[0] = <<>> /\ by[n] = Resolve(other, names)
        /\ \A i \in 1 .. n : by[i] = Enter(other, by[i - 1], names[i])
  BY <1>1, ResolveSteps
<1> HIDE DEF n
<1>4. \A i \in 0 .. n : at[i] # Absent
  BY <1>1, <1>2, NeverAbsent
<1>5. \A i \in 0 .. n : by[i] # Absent
  BY <1>1, <1>3, NeverAbsent
<1> DEFINE T == {i \in 0 .. n : at[i] # by[i]}
<1>6. T = {}
  <2> SUFFICES ASSUME T # {}
               PROVE  FALSE
    OBVIOUS
  <2>1. T \in SUBSET Nat
    BY <1>1
  <2> HIDE DEF T
  <2>2. PICK i \in T : \A k \in T : i <= k
    BY <2>1, LeastNumber
  <2>3. i \in 0 .. n /\ at[i] # by[i] /\ i # 0
    BY <1>2, <1>3 DEF T
  <2>4. i \in 1 .. n /\ i - 1 \in 0 .. n /\ i - 1 \notin T
    BY <1>1, <2>2, <2>3
  <2>5. at[i - 1] = by[i - 1] /\ at[i - 1] \in Seq(Name)
    BY <2>4 DEF T
  <2>6. at[i] = Enter(files, at[i - 1], names[i]) /\ by[i] = Enter(other, at[i - 1], names[i])
    BY <1>2, <1>3, <2>4, <2>5
  <2>7. Enter(files, at[i - 1], names[i]) # Absent /\ Enter(other, at[i - 1], names[i]) # Absent
    BY <1>4, <1>5, <2>3, <2>6
  <2> QED
    BY <1>1, <2>3, <2>4, <2>5, <2>6, <2>7, SameStep
<1>7. n \in 0 .. n
  BY <1>1
<1>8. at[n] = by[n]
  BY <1>6, <1>7
<1> QED
  BY <1>2, <1>3, <1>8

-----------------------------------------------------------------------------
(* Types.                                                                  *)

\* Where a path leads is a path.
LEMMA PlaceTyped ==
    ASSUME NEW files, Tidy(files), NEW path \in Path
    PROVE  Place(files, path) \in Seq(Name)
<1>1. Absent \in Seq(Name) /\ Started \o path.names \in Seq(Name) /\ path.names \in Seq(Name)
  BY PathsAssumption DEF Absent, Name, Path
<1>2. \A names \in Seq(Name) : Resolve(files, names) \in Seq(Name)
  <2> SUFFICES ASSUME NEW names \in Seq(Name)
               PROVE  Resolve(files, names) \in Seq(Name)
    OBVIOUS
  <2>1. Len(names) \in 0 .. Len(names)
    OBVIOUS
  <2> QED
    BY <2>1, ResolveSteps
<1>3. CASE path.absolute
  <2>1. path # Empty
    BY <1>3 DEF Empty, Relative
  <2> QED
    BY <1>1, <1>2, <1>3, <2>1 DEF Place
<1>4. CASE ~path.absolute
  BY <1>1, <1>2, <1>4 DEF Place
<1> QED
  BY <1>3, <1>4

\* Taking . and .. out of a path, or following it, gives a path.
LEMMA CanonicalTyped ==
    ASSUME NEW files, Tidy(files), NEW path \in Path, NEW physical \in BOOLEAN
    PROVE  Canonicalize(files, path, physical) \in Path
<1>1. Absolute(Place(files, path)) \in Path
  BY PlaceTyped DEF Absolute, Path
<1>2. Normalize(path) \in Path
  <2>1. Normalize(path) = [path EXCEPT !.names = Normalize(Relative(path.names)).names]
    BY DEF Normalize, Relative, Path
  <2>2. path.names \in Seq(Name) /\ Len(path.names) \in 0 .. Len(path.names)
    BY DEF Path
  <2>3. Normalize(Relative(path.names)).names \in Seq(Name)
    BY <2>2, NormalizeSteps
  <2> QED
    BY <2>1, <2>3 DEF Path
<1> QED
  BY <1>1, <1>2 DEF Canonicalize

\* Joining gives a path.
LEMMA JoinTyped ==
    ASSUME NEW base \in Path, NEW path \in Path
    PROVE  Join(base, path) \in Path
<1>1. base.names \o path.names \in Seq(Name)
  BY DEF Path
<1>2. [base EXCEPT !.names = base.names \o path.names] \in Path
  BY <1>1 DEF Path
<1> QED
  BY <1>2 DEF Join

\* What the path builtin writes are paths.
LEMMA ApplyTyped ==
    ASSUME Types
    PROVE  /\ \A op \in {"add", "prepend", "remove"}, spec \in Specs : Apply(op, spec) \in Seq(Path)
           /\ Fixup \in Seq(Path)
<1>1. Specs \subseteq Options /\ env["PATH"] \in Seq(Path) /\ Empty \in Path
  <2>1. Specs \subseteq Options
    BY PathsAssumption DEF Options
  <2>2. env["PATH"] \in Seq(Path)
    BY DEF Types, Var
  <2>3. Empty \in Path
    BY DEF Empty, Relative, Path
  <2> QED
    BY <2>1, <2>2, <2>3
<1>2. \A s \in Seq(Path) : JoinPaths(s) \in Seq(Path)
  BY <1>1 DEF JoinPaths
<1>3. \A s \in Seq(Path) : ToSet(s) \subseteq Path
  BY DEF ToSet
<1>4. Deduped(env["PATH"]) \in Seq(Path)
  <2>1. Len(env["PATH"]) \in 0 .. Len(env["PATH"])
    BY <1>1
  <2>2. Deduped(env["PATH"]) \in Seq(ToSet(env["PATH"]))
    BY <1>1, <2>1, DedupedSteps DEF DedupedRun
  <2> QED
    BY <1>1, <1>3, <2>2
<1>5. ASSUME NEW op \in {"add", "prepend", "remove"}, NEW spec \in Specs,
             NEW entries \in Seq(Path)
      PROVE  Edited(op, spec, entries).path \in Seq(Path)
  <2>1. Len(spec.dirs) \in 0 .. Len(spec.dirs)
    BY <1>1 DEF Options
  <2>2. Edited(op, spec, entries) \in Places
    <3>1. spec \in Options
      BY <1>1
    <3> QED
      BY <3>1, EditedTyped
  <2> QED
    BY <2>2 DEF Places
<1>6. ASSUME NEW wanted
      PROVE  Only(Deduped(env["PATH"]), wanted) \in Seq(Path)
  <2>1. Only(Deduped(env["PATH"]), wanted) \in Seq(ToSet(Deduped(env["PATH"])) \cap wanted)
    BY <1>4, OnlyTyped
  <2> QED
    BY <1>3, <1>4, <2>1
<1> QED
  BY <1>1, <1>2, <1>4, <1>5, <1>6 DEF Apply, Fixup, SplitPaths

\* cd stays where it is, or goes to a directory.
LEMMA CdGoes ==
    ASSUME Types, Cd
    PROVE  \/ cwd' = cwd /\ last' = Nothing
           \/ \E asked \in Path, physical \in BOOLEAN :
                LET to == Canonicalize(tree, asked, physical)
                IN  /\ IsDirectory(tree, to) /\ cwd' = to
                    /\ last' = [kind |-> "cd", asked |-> asked, physical |-> physical]
<1>1. PICK operand \in Operands, physical \in BOOLEAN :
        LET given     == operand # Empty
            directory == IF given THEN operand ELSE Head(env["HOME"])
            curpath   == CASE directory.absolute -> directory
                           [] directory = Dash   -> Head(env["OLDPWD"])
                           [] OTHER              -> Join(cwd, directory)
            failed    == \/ ~given /\ ~IsSet("HOME")
                         \/ directory = Dash /\ ~IsSet("OLDPWD")
            to        == Canonicalize(tree, curpath, physical)
        IN  \/ cwd' = cwd /\ last' = Nothing
            \/ /\ ~failed /\ IsDirectory(tree, to) /\ cwd' = to
               /\ last' = [kind |-> "cd", asked |-> curpath, physical |-> physical]
  BY DEF Cd
<1> DEFINE given     == operand # Empty
           directory == IF given THEN operand ELSE Head(env["HOME"])
           curpath   == CASE directory.absolute -> directory
                          [] directory = Dash   -> Head(env["OLDPWD"])
                          [] OTHER              -> Join(cwd, directory)
           failed    == \/ ~given /\ ~IsSet("HOME")
                        \/ directory = Dash /\ ~IsSet("OLDPWD")
<1>2. ASSUME ~failed
      PROVE  curpath \in Path
  <2>1. env["HOME"] \in Seq(Path) /\ env["OLDPWD"] \in Seq(Path) /\ operand \in Path
    BY PathsAssumption DEF Types, Var
  <2>2. directory \in Path
    BY <1>2, <2>1 DEF IsSet, Unset
  <2>3. directory = Dash => Head(env["OLDPWD"]) \in Path /\ ~directory.absolute
    BY <1>2, <2>1 DEF IsSet, Unset, Dash, Relative
  <2>4. Join(cwd, directory) \in Path
    BY <2>2, JoinTyped DEF Types
  <2> HIDE DEF directory
  <2> QED
    BY <2>2, <2>3, <2>4
<1> DEFINE to == Canonicalize(tree, curpath, physical)
<1>3. \/ cwd' = cwd /\ last' = Nothing
      \/ /\ ~failed /\ IsDirectory(tree, to) /\ cwd' = to
         /\ last' = [kind |-> "cd", asked |-> curpath, physical |-> physical]
  BY <1>1
<1> HIDE DEF curpath, failed
<1> QED
  BY <1>2, <1>3

\* The variables and the working directory keep their types, and the files are
\* always ones that others can have left.
LEMMA TypesStep ==
    ASSUME Types, [Next]_vars
    PROVE  Types'
<1>1. ASSUME UNCHANGED <<env, cwd, tree>>
      PROVE  Types'
  BY <1>1 DEF Types, IsMade
<1>2. CASE Export
  <2>1. PICK assignment \in Exports : Set(assignment[1], <<assignment[2]>>)
    BY <1>2 DEF Export
  <2>2. assignment[1] \in Var /\ <<assignment[2]>> \in Seq(Path)
    BY PathsAssumption
  <2> QED
    BY <1>2, <2>1, <2>2 DEF Export, Set, Types, IsMade
<1>3. CASE UnsetVariable
  <2>1. Unset \in Seq(Path)
    BY DEF Unset
  <2> QED
    BY <1>3, <2>1 DEF UnsetVariable, Set, Types, IsMade
<1>4. CASE EditPath
  <2>1. PICK op \in {"add", "prepend", "remove"}, spec \in Specs : Set("PATH", Apply(op, spec)) \/ env' = env
    BY <1>4 DEF EditPath
  <2>2. Apply(op, spec) \in Seq(Path)
    BY ApplyTyped
  <2>3. env' \in {env, [env EXCEPT !["PATH"] = Apply(op, spec)]} /\ UNCHANGED <<cwd, tree>>
    BY <1>4, <2>1 DEF EditPath, Set
  <2> QED
    BY <2>2, <2>3 DEF Types, IsMade
<1>5. CASE FixPath
  <2>1. Fixup \in Seq(Path)
    BY ApplyTyped
  <2>2. env' = [env EXCEPT !["PATH"] = Fixup] /\ UNCHANGED <<cwd, tree>>
    BY <1>5 DEF FixPath, Set
  <2> QED
    BY <2>1, <2>2 DEF Types, IsMade
<1>6. CASE Cd
  <2>1. UNCHANGED <<env, tree>>
    BY <1>6 DEF Cd
  <2>2. cwd' \in Path
    <3>1. CASE cwd' = cwd
      BY <3>1 DEF Types
    <3>2. CASE cwd' # cwd
      <4>1. PICK asked \in Path, physical \in BOOLEAN : cwd' = Canonicalize(tree, asked, physical)
        BY <1>6, <3>2, CdGoes
      <4> QED
        BY <4>1, CanonicalTyped, MadeTidy DEF Types
    <3> QED
      BY <3>1, <3>2
  <2> QED
    BY <2>1, <2>2 DEF Types, IsMade
<1>7. CASE Search
  BY <1>1, <1>7 DEF Search
<1>8. CASE Start
  BY <1>1, <1>8 DEF Start
<1>9. CASE Change
  <2>1. PICK path \in DOMAIN Volatile :
          tree' = IF path \in DOMAIN tree THEN [p \in DOMAIN tree \ {path} |-> tree[p]]
                  ELSE [p \in DOMAIN tree \cup {path} |-> IF p = path THEN Volatile[path] ELSE tree[p]]
    BY <1>9 DEF Change
  <2>2. PICK kept \in SUBSET DOMAIN Tree, made \in SUBSET DOMAIN Volatile : tree = Made(kept, made)
    BY DEF Types, IsMade
  <2>3. DOMAIN tree = kept \cup made
    BY <2>2 DEF Made
  <2>4. CASE path \in DOMAIN tree
    <3>1. tree' = Made(kept \ {path}, made \ {path})
      BY <2>1, <2>2, <2>3, <2>4 DEF Made
    <3> QED
      BY <1>9, <3>1 DEF Types, IsMade, Change
  <2>5. CASE path \notin DOMAIN tree
    <3>1. tree' = Made(kept, made \cup {path})
      BY <2>1, <2>2, <2>3, <2>5 DEF Made
    <3> QED
      BY <1>9, <3>1 DEF Types, IsMade, Change
  <2> QED
    BY <2>4, <2>5
<1>10. CASE Ended
  BY <1>1, <1>10 DEF Ended, vars
<1>11. CASE UNCHANGED vars
  BY <1>1, <1>11 DEF vars
<1> QED
  BY <1>2, <1>3, <1>4, <1>5, <1>6, <1>7, <1>8, <1>9, <1>10, <1>11 DEF Next

-----------------------------------------------------------------------------
(* Commands.                                                               *)

\* A file that the search finds is a program, on an absolute or a relative path.
LEMMA FoundIsProgram ==
    ASSUME Types, NEW command \in Commands,
           Lookup(command.restriction, command.name).kind = "file"
    PROVE  LET path == Lookup(command.restriction, command.name).path
           IN  path \in Path /\ path.names # <<>> /\ Place(tree, path) \in DOMAIN tree
<1> DEFINE name  == command.name
           found == Lookup(command.restriction, name)
           paths == [i \in DOMAIN Searched |-> Join(Searched[i], name)]
           programs == {path \in ToSet(paths) : IsExecutable(tree, path)}
<1>1. name \in Path
  BY PathsAssumption
<1>2. name.names # <<>> /\ Candidates(name) # <<>> /\ found.path = Head(Candidates(name))
  BY DEF Lookup, Found
<1>3. Searched \in Seq(Path)
  <2>1. env["PATH"] \in Seq(Path) /\ Empty \in Path
    BY DEF Types, Var, Empty, Relative, Path
  <2> QED
    BY <2>1 DEF Searched, SplitPaths
<1>4. \A i \in DOMAIN Searched : Join(Searched[i], name) \in Path /\ Join(Searched[i], name).names # <<>>
  <2> SUFFICES ASSUME NEW i \in DOMAIN Searched
               PROVE  Join(Searched[i], name) \in Path /\ Join(Searched[i], name).names # <<>>
    OBVIOUS
  <2>1. Searched[i] \in Path
    BY <1>3
  <2>2. CASE name.absolute
    BY <1>1, <1>2, <2>2 DEF Join
  <2>3. CASE ~name.absolute
    <3>1. Join(Searched[i], name).names = Searched[i].names \o name.names
      BY <2>1, <2>3 DEF Join, Path
    <3>2. Searched[i].names \in Seq(Name) /\ name.names \in Seq(Name)
      BY <1>1, <2>1 DEF Path
    <3>3. Searched[i].names \o name.names # <<>>
      <4>1. Len(Searched[i].names) \in Nat /\ Len(name.names) \in Nat /\ Len(name.names) # 0
        BY <1>2, <3>2
      <4>2. Len(Searched[i].names \o name.names) = Len(Searched[i].names) + Len(name.names)
        BY <3>2
      <4> QED
        BY <4>1, <4>2
    <3>4. Join(Searched[i], name).names # <<>>
      BY <3>1, <3>3
    <3>5. Join(Searched[i], name) \in Path
      BY <1>1, <2>1, JoinTyped
    <3> QED
      BY <3>4, <3>5
  <2> QED
    BY <2>2, <2>3
<1>5. paths \in Seq(Path)
  <2>1. DOMAIN Searched = 1 .. Len(Searched) /\ Len(Searched) \in Nat
    BY <1>3
  <2>2. paths \in [1 .. Len(Searched) -> Path]
    BY <1>4, <2>1
  <2> QED
    BY <2>1, <2>2
<1>6. Candidates(name) = Only(paths, programs)
  BY DEF Candidates
<1>7. \A path \in programs : path \in Path /\ path.names # <<>> /\ Place(tree, path) \in DOMAIN tree
  BY <1>4 DEF ToSet, IsExecutable
<1> HIDE DEF programs, paths
<1>8. Candidates(name) \in Seq(ToSet(paths) \cap programs)
  BY <1>5, <1>6, OnlyTyped
<1>9. Head(Candidates(name)) \in programs
  BY <1>2, <1>8
<1> QED
  BY <1>2, <1>7, <1>9

\* What waits to be started was found, whatever step is next.
LEMMA JobStep ==
    ASSUME Types, JobIsFound, [Next]_vars
    PROVE  JobIsFound'
<1>1. ASSUME UNCHANGED <<job, last>>
      PROVE  JobIsFound'
  BY <1>1 DEF JobIsFound
<1>2. ASSUME job' = Empty
      PROVE  JobIsFound'
  BY <1>2 DEF JobIsFound
<1>3. CASE Export \/ UnsetVariable \/ EditPath \/ FixPath \/ Cd
  BY <1>2, <1>3 DEF Export, UnsetVariable, EditPath, FixPath, Cd, Idle
<1>4. CASE Search
  <2>1. PICK command \in Commands :
          LET found == Lookup(command.restriction, command.name)
          IN  /\ job' = IF found.kind = "file" THEN found.path ELSE Empty
              /\ last' = IF found.kind = "nothing" THEN [kind |-> "panic", restriction |-> command.restriction]
                         ELSE [kind |-> "found", name |-> command.name, restriction |-> command.restriction,
                               what |-> found, which |-> Which(command.name), place |-> Place(tree, found.path)]
    BY <1>4 DEF Search
  <2> DEFINE found == Lookup(command.restriction, command.name)
  <2>2. CASE found.kind # "file"
    BY <1>2, <2>1, <2>2
  <2>3. CASE found.kind = "file"
    <3>1. /\ job' = found.path /\ last'.kind = "found" /\ last'.what = found
          /\ last'.place = Place(tree, found.path)
      BY <2>1, <2>3
    <3>2. found.path \in Path /\ found.path.names # <<>> /\ Place(tree, found.path) \in DOMAIN tree
      BY <2>3, FoundIsProgram
    <3>3. PICK kept \in SUBSET DOMAIN Tree, made \in SUBSET DOMAIN Volatile : tree = Made(kept, made)
      BY DEF Types, IsMade
    <3>4. DOMAIN tree = kept \cup made
      BY <3>3 DEF Made
    <3> HIDE DEF found
    <3> QED
      BY <3>1, <3>2, <3>3, <3>4 DEF JobIsFound
  <2> QED
    BY <2>2, <2>3
<1>5. CASE Start
  BY <1>2, <1>5 DEF Start
<1>6. CASE Change
  <2>1. job' = job /\ (job # Empty => last' = last)
    BY <1>6 DEF Change
  <2> QED
    BY <2>1 DEF JobIsFound
<1>7. CASE Ended \/ UNCHANGED vars
  BY <1>1, <1>7 DEF Ended, vars
<1> QED
  BY <1>3, <1>4, <1>5, <1>6, <1>7 DEF Next

\* What is started is what was found.
LEMMA StartStep ==
    ASSUME LinksStay, Types, JobIsFound, StartsWhatItFound, [Next]_vars
    PROVE  StartsWhatItFound'
<1>1. ASSUME last'.kind # "started"
      PROVE  StartsWhatItFound'
  BY <1>1 DEF StartsWhatItFound
<1>2. ASSUME UNCHANGED <<last, cwd>>
      PROVE  StartsWhatItFound'
  BY <1>2 DEF StartsWhatItFound
<1>3. Nothing.kind # "started"
  BY DEF Nothing
<1>4. CASE Export \/ UnsetVariable \/ EditPath \/ FixPath
  BY <1>1, <1>3, <1>4 DEF Export, UnsetVariable, EditPath, FixPath
<1>5. CASE Cd
  <2>1. last'.kind \in {"cd", "nothing"}
    BY <1>5 DEF Cd, Nothing
  <2> QED
    BY <1>1, <2>1
<1>6. CASE Search
  <2>1. last'.kind \in {"panic", "found"}
    BY <1>6 DEF Search
  <2> QED
    BY <1>1, <2>1
<1>7. CASE Start
  <2> DEFINE place == Executed(tree, job)
             starts == /\ place \in DOMAIN tree /\ tree[place].kind = "program"
                       /\ IsDirectory(tree, cwd)
  <2>1. /\ job # Empty /\ cwd' = cwd
        /\ last' = IF starts THEN [kind |-> "started", path |-> last.what.path, place |-> place,
                                   meant |-> last.place]
                   ELSE Nothing
    BY <1>7 DEF Start
  <2>2. CASE ~starts
    BY <1>1, <1>3, <2>1, <2>2
  <2>3. CASE starts
    <3>1. /\ last'.kind = "started" /\ last'.path = last.what.path /\ last'.place = place
          /\ last'.meant = last.place /\ place \in DOMAIN tree
      BY <2>1, <2>3
    <3>2. job = last.what.path /\ job \in Path /\ job.names # <<>>
      BY <2>1 DEF JobIsFound
    <3>3. PICK kept \in SUBSET DOMAIN Tree, made \in SUBSET DOMAIN Volatile :
            last.place \in kept \cup made /\ last.place = Place(Made(kept, made), job)
      BY <2>1 DEF JobIsFound
    <3> DEFINE files == Made(kept, made)
    <3>4. IsMade(files) /\ IsMade(tree) /\ DOMAIN files = kept \cup made
      BY DEF IsMade, Types, Made
    <3>5. last.place # Absent /\ place # Absent
      BY <3>1, <3>3, <3>4, MadeTidy, AbsentHasNothing
    <3> HIDE DEF files, place, starts
    <3>6. CASE job.absolute
      <4>1. job # Empty /\ job.names \in Seq(Name)
        BY <2>1, <3>2 DEF Path
      <4>2. place = Resolve(tree, job.names)
        BY <3>6 DEF place, Executed, Place
      <4>3. last.place = Resolve(files, job.names)
        BY <3>3, <3>6 DEF files, Place
      <4>4. place = last.place
        BY <3>4, <3>5, <4>1, <4>2, <4>3, SamePlace
      <4> QED
        BY <3>1, <4>4 DEF StartsWhatItFound
    <3>7. CASE ~job.absolute /\ (cwd # Absolute(Started) \/ Len(job.names) = 1)
      BY <2>1, <3>1, <3>2, <3>7 DEF StartsWhatItFound
    <3>8. CASE ~job.absolute /\ cwd = Absolute(Started) /\ Len(job.names) # 1
      <4>1. Len(job.names) > 1
        <5>1. job.names \in Seq(Name)
          BY <3>2 DEF Path
        <5>2. Len(job.names) \in Nat /\ (Len(job.names) = 0 => job.names = <<>>)
          BY <5>1
        <5>3. Len(job.names) # 1 /\ Len(job.names) # 0
          BY <3>2, <3>8, <5>2
        <5>4. \A m \in Nat : m # 0 /\ m # 1 => m > 1
          OBVIOUS
        <5> QED
          BY <5>2, <5>3, <5>4
      <4>2. Join(Absolute(Started), cwd) = cwd /\ cwd.absolute /\ cwd.names = Started
        BY <3>8 DEF Join, Absolute
      <4>3. Join(cwd, job) = Absolute(Started \o job.names)
        BY <3>8 DEF Join, Absolute
      <4>4. place = Place(tree, Absolute(Started \o job.names))
        BY <3>8, <4>1, <4>2, <4>3 DEF place, Executed
      <4>5. place = Resolve(tree, Started \o job.names)
        BY <4>4 DEF Place, Absolute
      <4>6. last.place = Resolve(files, Started \o job.names)
        BY <2>1, <3>3, <3>8 DEF files, Place
      <4>7. Started \o job.names \in Seq(Name)
        BY <3>2, PathsAssumption DEF Path
      <4>8. place = last.place
        BY <3>4, <3>5, <4>5, <4>6, <4>7, SamePlace
      <4> QED
        BY <3>1, <4>8 DEF StartsWhatItFound
    <3> QED
      BY <3>6, <3>7, <3>8
  <2> QED
    BY <2>2, <2>3
<1>8. CASE Change
  <2>1. last' = Nothing \/ last' = last
    BY <1>8 DEF Change
  <2>2. cwd' = cwd
    BY <1>8 DEF Change
  <2> QED
    BY <1>1, <1>2, <1>3, <2>1, <2>2
<1>9. CASE Ended \/ UNCHANGED vars
  BY <1>2, <1>9 DEF Ended, vars
<1> QED
  BY <1>4, <1>5, <1>6, <1>7, <1>8, <1>9 DEF Next

\* The shell begins with an environment, a directory and files.
LEMMA InitTypes == Init => Types
<1> SUFFICES ASSUME Init
             PROVE  Types
  OBVIOUS
<1>1. env \in [Var -> Seq(Path)]
  <2>1. PICK inherited \in Inherited :
          env = [inherited EXCEPT !["PATH"] = AppendPath(inherited["PATH"], BinDir)]
    BY DEF Init
  <2>2. inherited \in [Var -> Seq(Path)] /\ inherited["PATH"] \in Seq(Path)
    BY PathsAssumption DEF Var
  <2>3. AppendPath(inherited["PATH"], BinDir) \in Seq(Path)
    <3>1. Append(inherited["PATH"], BinDir) \in Seq(Path)
      BY <2>2, PathsAssumption
    <3>2. Empty \in Path
      BY DEF Empty, Relative, Path
    <3> QED
      BY <3>1, <3>2 DEF AppendPath, JoinPaths, SplitPaths
  <2> HIDE DEF Var, Path
  <2> QED
    BY <2>1, <2>2, <2>3
<1>2. cwd \in Path
  BY PathsAssumption DEF Init, Absolute, Path
<1>3. tree = Made(DOMAIN Tree, {})
  <2>1. Tree = [path \in DOMAIN Tree |-> Tree[path]]
    BY PathsAssumption DEF Tidy
  <2> QED
    BY <2>1 DEF Init, Made
<1> QED
  BY <1>1, <1>2, <1>3 DEF Types, IsMade

\* The types, and what waits to be started, however the files change.
THEOREM TypesInvariance == Spec => [](Types /\ JobIsFound)
<1>1. Init => Types /\ JobIsFound
  BY InitTypes DEF Init, JobIsFound
<1>2. Types /\ JobIsFound /\ [Next]_vars => (Types /\ JobIsFound)'
  BY TypesStep, JobStep
<1> QED
  BY <1>1, <1>2, PTL DEF Spec

\* The program that is started is the file that the search had found, or its path
\* is relative: spawn_command starts what lookup named, shellhost.rs:143.
THEOREM StartsTheFound ==
    ASSUME LinksStay
    PROVE  Spec => []StartsWhatItFound
<1>1. Init => StartsWhatItFound
  BY DEF Init, StartsWhatItFound, Nothing
<1>2. Types /\ JobIsFound /\ StartsWhatItFound /\ [Next]_vars => StartsWhatItFound'
  BY StartStep
<1> QED
  BY <1>1, <1>2, TypesInvariance, PTL DEF Spec

\* which prints what a command of that name would run, and command and builtin keep
\* to their kind: WhichCommand and spawn_command agree.
THEOREM WhichIsRight == Spec => []WhichTellsTheTruth
<1>1. Init => WhichTellsTheTruth
  BY DEF Init, WhichTellsTheTruth, Nothing
<1>2. ASSUME WhichTellsTheTruth, [Next]_vars
      PROVE  WhichTellsTheTruth'
  <2>1. ASSUME last'.kind # "found" \/ last' = last
        PROVE  WhichTellsTheTruth'
    BY <1>2, <2>1 DEF WhichTellsTheTruth
  <2>2. CASE Export \/ UnsetVariable \/ EditPath \/ FixPath
    BY <2>1, <2>2 DEF Export, UnsetVariable, EditPath, FixPath, Nothing
  <2>3. CASE Cd
    <3>1. last'.kind \in {"cd", "nothing"}
      BY <2>3 DEF Cd, Nothing
    <3> QED
      BY <2>1, <3>1
  <2>4. CASE Search
    <3>1. PICK command \in Commands :
            LET found == Lookup(command.restriction, command.name)
            IN  last' = IF found.kind = "nothing"
                        THEN [kind |-> "panic", restriction |-> command.restriction]
                        ELSE [kind |-> "found", name |-> command.name,
                              restriction |-> command.restriction, what |-> found,
                              which |-> Which(command.name), place |-> Place(tree, found.path)]
      BY <2>4 DEF Search
    <3> DEFINE name  == command.name
               found == Lookup(command.restriction, name)
    <3>2. CASE found.kind = "nothing"
      BY <2>1, <3>1, <3>2
    <3>3. CASE found.kind # "nothing"
      <4>1. /\ last'.kind = "found" /\ last'.restriction = command.restriction
            /\ last'.what = found /\ last'.which = Which(name)
        BY <3>1, <3>3
      <4>2. name.names # <<>>
        BY <3>3 DEF Lookup, Found
      <4>3. command.restriction = "none" =>
              found = IF Which(name) = <<>> THEN Found("none", Empty) ELSE Head(Which(name))
        <5> SUFFICES ASSUME command.restriction = "none"
                     PROVE  found = IF Which(name) = <<>> THEN Found("none", Empty) ELSE Head(Which(name))
          OBVIOUS
        <5>1. CASE name \in Functions
          <6>1. found = Found("function", Empty)
            BY <4>2, <5>1 DEF Lookup
          <6> DEFINE rest == IF name \in Builtins THEN << Found("builtin", Empty) >> ELSE <<>>
          <6>2. Which(name) = << Found("function", Empty) >> \o rest
            <7>1. Len(<< Found("function", Empty) >> \o rest) = 1 + Len(rest) /\ Len(rest) \in Nat
              OBVIOUS
            <7> QED
              BY <5>1, <7>1 DEF Which
          <6>3. Len(Which(name)) = 1 + Len(rest) /\ Len(rest) \in Nat
            BY <6>2
          <6>4. Which(name) # <<>>
            BY <6>3
          <6>5. Head(Which(name)) = Found("function", Empty)
            BY <6>2
          <6> QED
            BY <6>1, <6>4, <6>5
        <5>2. CASE name \notin Functions /\ name \in Builtins
          <6>1. found = Found("builtin", Empty)
            BY <4>2, <5>2 DEF Lookup
          <6>2. Which(name) = << Found("builtin", Empty) >>
            BY <5>2 DEF Which
          <6> QED
            BY <6>1, <6>2
        <5>3. CASE name \notin Functions /\ name \notin Builtins /\ Candidates(name) # <<>>
          <6>1. found = Found("file", Head(Candidates(name)))
            BY <4>2, <5>3 DEF Lookup
          <6>2. Which(name) = << Found("file", Head(Candidates(name))) >>
            BY <5>3 DEF Which
          <6> QED
            BY <6>1, <6>2
        <5>4. CASE name \notin Functions /\ name \notin Builtins /\ Candidates(name) = <<>>
          <6>1. found = Found("none", Empty)
            BY <4>2, <5>4 DEF Lookup
          <6>2. Which(name) = <<>>
            BY <5>4 DEF Which
          <6> QED
            BY <6>1, <6>2
        <5> QED
          BY <5>1, <5>2, <5>3, <5>4
      <4>4. /\ command.restriction = "command" => found.kind # "builtin"
            /\ command.restriction = "builtin" => found.kind # "file"
        BY DEF Lookup, Found
      <4> HIDE DEF found
      <4> QED
        BY <4>1, <4>3, <4>4 DEF WhichTellsTheTruth
    <3> QED
      BY <3>2, <3>3
  <2>5. CASE Start
    <3>1. last'.kind \in {"started", "nothing"}
      BY <2>5 DEF Start, Nothing
    <3> QED
      BY <2>1, <3>1
  <2>6. CASE Change
    <3>1. last' = last \/ last' = Nothing
      BY <2>6 DEF Change
    <3> QED
      BY <2>1, <3>1 DEF Nothing
  <2>7. CASE Ended \/ UNCHANGED vars
    BY <2>1, <2>7 DEF Ended, vars
  <2> QED
    BY <1>2, <2>2, <2>3, <2>4, <2>5, <2>6, <2>7 DEF Next
<1> QED
  BY <1>1, <1>2, PTL DEF Spec

-----------------------------------------------------------------------------
(* Entries.                                                                *)

\* What holds of the empty sequence, and of a longer one where it holds of its
\* front, holds of every sequence.
LEMMA AppendInduction ==
    ASSUME NEW E, NEW G, <<>> \in G, \A s \in G \cap Seq(E), x \in E : Append(s, x) \in G
    PROVE  \A s \in Seq(E) : s \in G
<1> DEFINE T == {Len(s) : s \in Seq(E) \ G}
<1> SUFFICES ASSUME NEW other \in Seq(E), other \notin G
             PROVE  FALSE
  OBVIOUS
<1>1. T \in SUBSET Nat
  OBVIOUS
<1>9. T # {} /\ \A m \in T : \E s \in Seq(E) \ G : m = Len(s)
  OBVIOUS
<1>2. \A s \in Seq(E) : Len(s) \notin T => s \in G
  OBVIOUS
<1> HIDE DEF T
<1>3. PICK m \in T : \A k \in T : m <= k
  BY <1>1, <1>9, LeastNumber
<1>4. PICK s \in Seq(E) \ G : m = Len(s)
  BY <1>9
<1>5. m \in Nat /\ m # 0
  <2>1. Len(s) = 0 => s = <<>>
    OBVIOUS
  <2> QED
    BY <1>4, <2>1
<1> DEFINE r == SubSeq(s, 1, m - 1)
<1>6. r \in Seq(E) /\ Len(r) = m - 1 /\ s[m] \in E
  <2>1. \A i \in 1 .. (m - 1) : s[i] \in E
    BY <1>4, <1>5
  <2> QED
    BY <1>4, <1>5, <2>1
<1>7. s = Append(r, s[m])
  BY <1>4, <1>5, <1>6
<1>8. Len(r) \notin T
  BY <1>3, <1>5, <1>6
<1> HIDE DEF r
<1> QED
  BY <1>2, <1>4, <1>6, <1>7, <1>8

\* Only of nothing is nothing.
LEMMA OnlyEmpty ==
    ASSUME NEW wanted
    PROVE  Only(<<>>, wanted) = <<>>
<1>1. <<>> \in Seq({}) /\ Len(<<>>) = 0
  OBVIOUS
<1>2. PICK at : OnlyRun(at, <<>>, wanted)
  BY <1>1, OnlySteps
<1> QED
  BY <1>1, <1>2 DEF OnlyRun

\* Only goes on with a further entry.
LEMMA OnlyAppend ==
    ASSUME NEW E, NEW s \in Seq(E), NEW x \in E, NEW wanted
    PROVE  Only(Append(s, x), wanted) = IF x \in wanted THEN Append(Only(s, wanted), x) ELSE Only(s, wanted)
<1> DEFINE t == Append(s, x)
<1> DEFINE n == Len(s)
<1>1. n \in Nat /\ t \in Seq(E) /\ Len(t) = n + 1 /\ t[n + 1] = x /\ \A i \in 1 .. n : t[i] = s[i]
  OBVIOUS
<1> HIDE DEF t
<1>2. PICK at : OnlyRun(at, t, wanted)
  BY <1>1, OnlySteps
<1>3. PICK by : OnlyRun(by, s, wanted)
  BY OnlySteps
<1> HIDE DEF n
<1> DEFINE T == {i \in 0 .. n : at[i] # by[i]}
<1>4. T = {}
  <2> SUFFICES ASSUME T # {}
               PROVE  FALSE
    OBVIOUS
  <2>1. T \in SUBSET Nat
    BY <1>1
  <2> HIDE DEF T
  <2>2. PICK i \in T : \A k \in T : i <= k
    BY <2>1, LeastNumber
  <2>3. i \in 0 .. n /\ at[i] # by[i] /\ i # 0
    BY <1>2, <1>3 DEF T, OnlyRun
  <2>4. i \in 1 .. n /\ i \in 1 .. (n + 1) /\ i - 1 \in 0 .. n /\ i - 1 \notin T
    BY <1>1, <2>2, <2>3
  <2>5. at[i - 1] = by[i - 1]
    BY <2>4 DEF T
  <2>6. at[i] = (IF t[i] \in wanted THEN Append(at[i - 1], t[i]) ELSE at[i - 1]) /\ by[i] = (IF s[i] \in wanted THEN Append(by[i - 1], s[i]) ELSE by[i - 1])
    BY <1>1, <1>2, <1>3, <2>4 DEF OnlyRun, n
  <2> QED
    BY <1>1, <2>3, <2>4, <2>5, <2>6
<1>5. at[n] = by[n]
  <2>1. n \in 0 .. n
    BY <1>1
  <2> QED
    BY <1>4, <2>1
<1>6. n + 1 \in 1 .. (n + 1) /\ (n + 1) - 1 = n
  BY <1>1
<1>7. at[n + 1] = IF x \in wanted THEN Append(at[n], x) ELSE at[n]
  BY <1>1, <1>2, <1>6 DEF OnlyRun
<1>8. Only(t, wanted) = IF x \in wanted THEN Append(Only(s, wanted), x) ELSE Only(s, wanted)
  BY <1>1, <1>2, <1>3, <1>5, <1>7 DEF OnlyRun, n
<1> QED
  BY <1>8 DEF t

\* Deduped of nothing is nothing.
LEMMA DedupedEmpty == Deduped(<<>>) = <<>>
<1>1. <<>> \in Seq({}) /\ Len(<<>>) = 0
  OBVIOUS
<1>2. PICK at : DedupedRun(at, <<>>)
  BY <1>1, DedupedSteps
<1> QED
  BY <1>1, <1>2 DEF DedupedRun

\* Deduped goes on with a further entry.
LEMMA DedupedAppend ==
    ASSUME NEW E, NEW s \in Seq(E), NEW x \in E
    PROVE  Deduped(Append(s, x)) = IF Contains(Deduped(s), x) THEN Deduped(s) ELSE Append(Deduped(s), x)
<1> DEFINE t == Append(s, x)
<1> DEFINE n == Len(s)
<1>1. n \in Nat /\ t \in Seq(E) /\ Len(t) = n + 1 /\ t[n + 1] = x /\ \A i \in 1 .. n : t[i] = s[i]
  OBVIOUS
<1> HIDE DEF t
<1>2. PICK at : DedupedRun(at, t)
  BY <1>1, DedupedSteps
<1>3. PICK by : DedupedRun(by, s)
  BY DedupedSteps
<1> HIDE DEF n
<1> DEFINE T == {i \in 0 .. n : at[i] # by[i]}
<1>4. T = {}
  <2> SUFFICES ASSUME T # {}
               PROVE  FALSE
    OBVIOUS
  <2>1. T \in SUBSET Nat
    BY <1>1
  <2> HIDE DEF T
  <2>2. PICK i \in T : \A k \in T : i <= k
    BY <2>1, LeastNumber
  <2>3. i \in 0 .. n /\ at[i] # by[i] /\ i # 0
    BY <1>2, <1>3 DEF T, DedupedRun
  <2>4. i \in 1 .. n /\ i \in 1 .. (n + 1) /\ i - 1 \in 0 .. n /\ i - 1 \notin T
    BY <1>1, <2>2, <2>3
  <2>5. at[i - 1] = by[i - 1]
    BY <2>4 DEF T
  <2>6. at[i] = (IF Contains(at[i - 1], t[i]) THEN at[i - 1] ELSE Append(at[i - 1], t[i])) /\ by[i] = (IF Contains(by[i - 1], s[i]) THEN by[i - 1] ELSE Append(by[i - 1], s[i]))
    BY <1>1, <1>2, <1>3, <2>4 DEF DedupedRun, n
  <2> QED
    BY <1>1, <2>3, <2>4, <2>5, <2>6
<1>5. at[n] = by[n]
  <2>1. n \in 0 .. n
    BY <1>1
  <2> QED
    BY <1>4, <2>1
<1>6. n + 1 \in 1 .. (n + 1) /\ (n + 1) - 1 = n
  BY <1>1
<1>7. at[n + 1] = IF Contains(at[n], x) THEN at[n] ELSE Append(at[n], x)
  BY <1>1, <1>2, <1>6 DEF DedupedRun
<1>8. Deduped(t) = IF Contains(Deduped(s), x) THEN Deduped(s) ELSE Append(Deduped(s), x)
  BY <1>1, <1>2, <1>3, <1>5, <1>7 DEF DedupedRun, n
<1> QED
  BY <1>8 DEF t

\* Deduped gives entries that were there.
LEMMA DedupedTyped ==
    ASSUME NEW E, NEW s \in Seq(E)
    PROVE  Deduped(s) \in Seq(E)
<1>1. PICK at \in [0 .. Len(s) -> Seq(ToSet(s))] : DedupedRun(at, s)
  BY DedupedSteps
<1>2. Len(s) \in 0 .. Len(s) /\ ToSet(s) \subseteq E
  BY DEF ToSet
<1>3. Deduped(s) \in Seq(ToSet(s))
  BY <1>1, <1>2 DEF DedupedRun
<1> QED
  BY <1>2, <1>3

\* A further entry is one more entry.
LEMMA ToSetAppend ==
    ASSUME NEW E, NEW s \in Seq(E), NEW x \in E
    PROVE  ToSet(Append(s, x)) = ToSet(s) \cup {x}
<1> DEFINE n == Len(s)
           t == Append(s, x)
<1>1. n \in Nat /\ DOMAIN s = 1 .. n /\ DOMAIN t = 1 .. (n + 1)
  OBVIOUS
<1>2. t[n + 1] = x /\ \A i \in 1 .. n : t[i] = s[i]
  OBVIOUS
<1> HIDE DEF n, t
<1>3. \A i \in 1 .. n : i \in 1 .. (n + 1)
  BY <1>1
<1>4. n + 1 \in 1 .. (n + 1) /\ \A i \in 1 .. (n + 1) : i \in 1 .. n \/ i = n + 1
  BY <1>1
<1>5. ToSet(t) = ToSet(s) \cup {x}
  BY <1>1, <1>2, <1>3, <1>4 DEF ToSet
<1> QED
  BY <1>5 DEF t

\* An entry has as many copies as there are indices of it: none where it is not there.
LEMMA CopiesCount ==
    ASSUME NEW E, NEW s \in Seq(E), NEW e
    PROVE  /\ IsFiniteSet({i \in DOMAIN s : s[i] = e}) /\ Copies(s, e) \in Nat
           /\ Copies(s, e) > 0 <=> e \in ToSet(s)
<1> DEFINE I == {i \in DOMAIN s : s[i] = e}
<1>1. I \in SUBSET (1 .. Len(s)) /\ IsFiniteSet(1 .. Len(s))
  BY FS_Interval
<1>2. e \in ToSet(s) <=> I # {}
  BY DEF ToSet
<1> HIDE DEF I
<1>3. IsFiniteSet(I)
  BY <1>1, FS_Subset
<1>4. Cardinality(I) \in Nat /\ (Cardinality(I) = 0 <=> I = {})
  BY <1>3, FS_CardinalityType, FS_EmptySet
<1>5. Copies(s, e) = Cardinality(I)
  BY DEF Copies, I
<1> QED
  BY <1>2, <1>3, <1>4, <1>5 DEF I

\* Nothing has no copies.
LEMMA CopiesEmpty ==
    ASSUME NEW e
    PROVE  Copies(<<>>, e) = 0
<1>1. {i \in DOMAIN <<>> : <<>>[i] = e} = {}
  OBVIOUS
<1> QED
  BY <1>1, FS_EmptySet DEF Copies

\* A further entry is one copy more of itself.
LEMMA CopiesAppend ==
    ASSUME NEW E, NEW s \in Seq(E), NEW x \in E, NEW e
    PROVE  Copies(Append(s, x), e) = IF x = e THEN Copies(s, e) + 1 ELSE Copies(s, e)
<1> DEFINE I == {i \in DOMAIN s : s[i] = e}
           J == {i \in DOMAIN Append(s, x) : Append(s, x)[i] = e}
           n == Len(s)
<1>1. n \in Nat /\ n + 1 \notin I
  OBVIOUS
<1>2. J = IF x = e THEN I \cup {n + 1} ELSE I
  OBVIOUS
<1>3. IsFiniteSet(I)
  BY CopiesCount
<1>4. Copies(s, e) = Cardinality(I) /\ Copies(Append(s, x), e) = Cardinality(J)
  BY DEF Copies
<1> HIDE DEF I, J, n
<1> QED
  BY <1>1, <1>2, <1>3, <1>4, FS_AddElement

\* The same holds of an entry in front.
LEMMA CopiesFront ==
    ASSUME NEW E, NEW s \in Seq(E), NEW x \in E, NEW e
    PROVE  Copies(<<x>> \o s, e) = IF x = e THEN Copies(s, e) + 1 ELSE Copies(s, e)
<1> DEFINE G == {t \in Seq(E) : Copies(<<x>> \o t, e) = IF x = e THEN Copies(t, e) + 1 ELSE Copies(t, e)}
<1>1. <<>> \in G
  <2> DEFINE none == <<>>
  <2>1. <<x>> \o none = Append(none, x) /\ none \in Seq(E)
    OBVIOUS
  <2> HIDE DEF none
  <2>2. Copies(Append(none, x), e) = IF x = e THEN Copies(none, e) + 1 ELSE Copies(none, e)
    BY <2>1, CopiesAppend
  <2>3. none \in G
    BY <2>1, <2>2
  <2> QED
    BY <2>3 DEF none
<1>2. ASSUME NEW t \in G \cap Seq(E), NEW y \in E
      PROVE  Append(t, y) \in G
  <2> DEFINE u == <<x>> \o t
             v == Append(t, y)
             w == <<x>> \o v
  <2>1. u \in Seq(E) /\ v \in Seq(E) /\ w = Append(u, y)
    OBVIOUS
  <2> HIDE DEF u, w
  <2>2. Copies(w, e) = IF y = e THEN Copies(u, e) + 1 ELSE Copies(u, e)
    BY <2>1, CopiesAppend
  <2>3. Copies(v, e) = IF y = e THEN Copies(t, e) + 1 ELSE Copies(t, e)
    BY CopiesAppend
  <2>4. Copies(u, e) = IF x = e THEN Copies(t, e) + 1 ELSE Copies(t, e)
    BY DEF u
  <2> HIDE DEF v
  <2>5. Copies(w, e) = IF x = e THEN Copies(v, e) + 1 ELSE Copies(v, e)
    BY <2>2, <2>3, <2>4
  <2>6. v \in G
    BY <2>1, <2>5 DEF w
  <2> QED
    BY <2>6 DEF v
<1> HIDE DEF G
<1>3. s \in G
  BY <1>1, <1>2, AppendInduction
<1> QED
  BY <1>3 DEF G

\* Only keeps every copy of what is wanted, and no other.
LEMMA OnlyCopies ==
    ASSUME NEW E, NEW s \in Seq(E), NEW wanted, NEW e
    PROVE  Copies(Only(s, wanted), e) = IF e \in wanted THEN Copies(s, e) ELSE 0
<1> DEFINE G == {t \in Seq(E) : Copies(Only(t, wanted), e) = IF e \in wanted THEN Copies(t, e) ELSE 0}
<1>1. <<>> \in G
  <2>1. <<>> \in Seq(E) /\ <<>> \in Seq({})
    OBVIOUS
  <2>2. Copies(<<>>, e) = 0
    BY CopiesEmpty
  <2>3. Only(<<>>, wanted) = <<>>
    BY OnlyEmpty
  <2> QED
    BY <2>1, <2>2, <2>3
<1>2. ASSUME NEW t \in G \cap Seq(E), NEW y \in E
      PROVE  Append(t, y) \in G
  <2>1. Append(t, y) \in Seq(E)
    OBVIOUS
  <2>2. Only(Append(t, y), wanted) = IF y \in wanted THEN Append(Only(t, wanted), y) ELSE Only(t, wanted)
    BY OnlyAppend
  <2>3. Only(t, wanted) \in Seq(E)
    <3>1. Only(t, wanted) \in Seq(ToSet(t) \cap wanted)
      BY OnlyTyped
    <3>2. ToSet(t) \subseteq E
      BY DEF ToSet
    <3> QED
      BY <3>1, <3>2
  <2>4. Copies(Append(t, y), e) = IF y = e THEN Copies(t, e) + 1 ELSE Copies(t, e)
    BY CopiesAppend
  <2>5. Copies(Append(Only(t, wanted), y), e) = IF y = e THEN Copies(Only(t, wanted), e) + 1
                                                ELSE Copies(Only(t, wanted), e)
    BY <2>3, CopiesAppend
  <2>6. Copies(Only(t, wanted), e) = IF e \in wanted THEN Copies(t, e) ELSE 0
    OBVIOUS
  <2> DEFINE u == Append(t, y)
  <2> HIDE DEF G, u
  <2>7. Copies(Only(u, wanted), e) = IF e \in wanted THEN Copies(u, e) ELSE 0
    <3>1. Copies(u, e) = IF y = e THEN Copies(t, e) + 1 ELSE Copies(t, e)
      BY <2>4 DEF u
    <3>2. CASE y \in wanted
      <4>1. Copies(Only(u, wanted), e) = Copies(Append(Only(t, wanted), y), e)
        BY <2>2, <3>2 DEF u
      <4> QED
        BY <2>5, <2>6, <3>1, <3>2, <4>1
    <3>3. CASE y \notin wanted
      <4>1. Only(u, wanted) = Only(t, wanted)
        BY <2>2, <3>3 DEF u
      <4> QED
        BY <2>6, <3>1, <3>3, <4>1
    <3> QED
      BY <3>2, <3>3
  <2> QED
    BY <2>1, <2>7 DEF G, u
<1> HIDE DEF G
<1>3. s \in G
  BY <1>1, <1>2, AppendInduction
<1> QED
  BY <1>3 DEF G

\* Deduped leaves one copy of every entry.
LEMMA DedupedCopies ==
    ASSUME NEW E, NEW s \in Seq(E), NEW e
    PROVE  Copies(Deduped(s), e) = IF e \in ToSet(s) THEN 1 ELSE 0
<1> DEFINE G == {t \in Seq(E) : Copies(Deduped(t), e) = IF e \in ToSet(t) THEN 1 ELSE 0}
<1>1. <<>> \in G
  <2>1. <<>> \in Seq(E) /\ <<>> \in Seq({}) /\ e \notin ToSet(<<>>)
    BY DEF ToSet
  <2>2. Copies(<<>>, e) = 0
    BY CopiesEmpty
  <2> QED
    BY <2>1, <2>2, DedupedEmpty
<1>2. ASSUME NEW t \in G \cap Seq(E), NEW y \in E
      PROVE  Append(t, y) \in G
  <2>1. Append(t, y) \in Seq(E)
    OBVIOUS
  <2>2. Deduped(Append(t, y)) = IF Contains(Deduped(t), y) THEN Deduped(t) ELSE Append(Deduped(t), y)
    BY DedupedAppend
  <2>3. Deduped(t) \in Seq(E)
    BY DedupedTyped
  <2>4. Contains(Deduped(t), y) <=> y \in ToSet(Deduped(t))
    BY DEF Contains, ToSet
  <2>5. Copies(Append(Deduped(t), y), e) = IF y = e THEN Copies(Deduped(t), e) + 1
                                           ELSE Copies(Deduped(t), e)
    BY <2>3, CopiesAppend
  <2>6. Copies(Deduped(t), e) = IF e \in ToSet(t) THEN 1 ELSE 0
    OBVIOUS
  <2>7. ToSet(Append(t, y)) = ToSet(t) \cup {y}
    BY ToSetAppend
  <2>8. Copies(Deduped(t), e) > 0 <=> e \in ToSet(Deduped(t))
    BY <2>3, CopiesCount
  <2> DEFINE u == Append(t, y)
  <2> HIDE DEF G, u
  <2>9. Copies(Deduped(u), e) = IF e \in ToSet(u) THEN 1 ELSE 0
    <3>1. ToSet(u) = ToSet(t) \cup {y}
      BY <2>7 DEF u
    <3>2. CASE Contains(Deduped(t), y)
      <4>1. Deduped(u) = Deduped(t)
        BY <2>2, <3>2 DEF u
      <4>2. y = e => e \in ToSet(t)
        BY <2>4, <2>6, <2>8, <3>2
      <4> QED
        BY <2>6, <3>1, <4>1, <4>2
    <3>3. CASE ~Contains(Deduped(t), y)
      <4>1. Copies(Deduped(u), e) = Copies(Append(Deduped(t), y), e)
        BY <2>2, <3>3 DEF u
      <4>2. y = e => e \notin ToSet(t)
        BY <2>4, <2>6, <2>8, <3>3
      <4> QED
        BY <2>5, <2>6, <3>1, <4>1, <4>2
    <3> QED
      BY <3>2, <3>3
  <2> QED
    BY <2>1, <2>9 DEF G, u
<1> HIDE DEF G
<1>3. s \in G
  BY <1>1, <1>2, AppendInduction
<1> QED
  BY <1>3 DEF G

\* Only keeps the same of two sets that agree on the entries.
LEMMA OnlySame ==
    ASSUME NEW E, NEW s \in Seq(E), NEW wanted, NEW also, \A e \in E : e \in wanted <=> e \in also
    PROVE  Only(s, wanted) = Only(s, also)
<1> DEFINE G == {t \in Seq(E) : Only(t, wanted) = Only(t, also)}
<1>1. <<>> \in G
  BY OnlyEmpty
<1>2. ASSUME NEW t \in G \cap Seq(E), NEW y \in E
      PROVE  Append(t, y) \in G
  <2>1. Only(Append(t, y), wanted) = IF y \in wanted THEN Append(Only(t, wanted), y) ELSE Only(t, wanted)
    BY OnlyAppend
  <2>2. Only(Append(t, y), also) = IF y \in also THEN Append(Only(t, also), y) ELSE Only(t, also)
    BY OnlyAppend
  <2>3. Append(t, y) \in Seq(E) /\ Only(t, wanted) = Only(t, also)
    OBVIOUS
  <2>4. Only(Append(t, y), wanted) = Only(Append(t, y), also)
    BY <2>1, <2>2, <2>3
  <2> QED
    BY <2>3, <2>4
<1> HIDE DEF G
<1>3. s \in G
  BY <1>1, <1>2, AppendInduction
<1> QED
  BY <1>3 DEF G

\* Only starts with the first entry, where that is wanted.
LEMMA OnlyFront ==
    ASSUME NEW E, NEW s \in Seq(E), NEW x \in E, NEW wanted, x \notin wanted
    PROVE  Only(<<x>> \o s, wanted) = Only(s, wanted)
<1> DEFINE G == {t \in Seq(E) : Only(<<x>> \o t, wanted) = Only(t, wanted)}
<1>1. <<>> \in G
  <2> DEFINE none == <<>>
  <2>1. <<x>> \o none = Append(none, x) /\ none \in Seq(E)
    OBVIOUS
  <2> HIDE DEF none
  <2>2. Only(Append(none, x), wanted) = Only(none, wanted)
    BY <2>1, OnlyAppend
  <2>3. none \in G
    BY <2>1, <2>2
  <2> QED
    BY <2>3 DEF none
<1>2. ASSUME NEW t \in G \cap Seq(E), NEW y \in E
      PROVE  Append(t, y) \in G
  <2> DEFINE u == <<x>> \o t
             v == Append(t, y)
             w == <<x>> \o v
  <2>1. u \in Seq(E) /\ v \in Seq(E) /\ w = Append(u, y)
    OBVIOUS
  <2>2. Only(u, wanted) = Only(t, wanted)
    OBVIOUS
  <2> HIDE DEF u, w
  <2>3. Only(w, wanted) = IF y \in wanted THEN Append(Only(u, wanted), y) ELSE Only(u, wanted)
    BY <2>1, OnlyAppend
  <2>4. Only(v, wanted) = IF y \in wanted THEN Append(Only(t, wanted), y) ELSE Only(t, wanted)
    BY OnlyAppend
  <2> HIDE DEF v
  <2>5. Only(w, wanted) = Only(v, wanted)
    BY <2>2, <2>3, <2>4
  <2>6. v \in G
    BY <2>1, <2>5 DEF w
  <2> QED
    BY <2>6 DEF v
<1> HIDE DEF G
<1>3. s \in G
  BY <1>1, <1>2, AppendInduction
<1> QED
  BY <1>3 DEF G

\* Only keeps of what is wanted what is wanted too.
LEMMA OnlyOnly ==
    ASSUME NEW E, NEW s \in Seq(E), NEW wanted, NEW too, \A e \in E : e \in too => e \in wanted
    PROVE  Only(Only(s, wanted), too) = Only(s, too)
<1> DEFINE G == {t \in Seq(E) : Only(Only(t, wanted), too) = Only(t, too)}
<1>1. <<>> \in G
  <2>1. Only(Only(<<>>, wanted), too) = Only(<<>>, too) /\ <<>> \in Seq(E)
    BY OnlyEmpty
  <2> QED
    BY <2>1
<1>2. ASSUME NEW t \in G \cap Seq(E), NEW y \in E
      PROVE  Append(t, y) \in G
  <2> DEFINE u == Append(t, y)
             kept == Only(t, wanted)
  <2>1. u \in Seq(E) /\ Only(kept, too) = Only(t, too)
    OBVIOUS
  <2>2. kept \in Seq(E)
    <3>1. kept \in Seq(ToSet(t) \cap wanted)
      BY OnlyTyped
    <3>2. ToSet(t) \subseteq E
      BY DEF ToSet
    <3> QED
      BY <3>1, <3>2
  <2>3. Only(u, wanted) = IF y \in wanted THEN Append(kept, y) ELSE kept
    BY OnlyAppend
  <2>4. Only(u, too) = IF y \in too THEN Append(Only(t, too), y) ELSE Only(t, too)
    BY OnlyAppend
  <2> HIDE DEF u, kept
  <2>5. Only(Append(kept, y), too) = IF y \in too THEN Append(Only(kept, too), y) ELSE Only(kept, too)
    BY <2>2, OnlyAppend
  <2>6. Only(Only(u, wanted), too) = Only(u, too)
    <3>1. CASE y \in wanted
      BY <2>1, <2>3, <2>4, <2>5, <3>1
    <3>2. CASE y \notin wanted
      BY <2>1, <2>3, <2>4, <3>2
    <3> QED
      BY <3>1, <3>2
  <2>7. u \in G
    BY <2>1, <2>6
  <2> QED
    BY <2>7 DEF u
<1> HIDE DEF G
<1>3. s \in G
  BY <1>1, <1>2, AppendInduction
<1> QED
  BY <1>3 DEF G

\* The others do not depend on which set of all entries they are taken from.
LEMMA OthersAre ==
    ASSUME NEW E, NEW s \in Seq(E), NEW named
    PROVE  Others(s, named) = Only(s, E \ named)
<1>1. s \in Seq(ToSet(s)) /\ ToSet(s) \subseteq E
  <2>1. DOMAIN s = 1 .. Len(s) /\ \A i \in 1 .. Len(s) : s[i] \in ToSet(s)
    BY DEF ToSet
  <2> QED
    BY <2>1 DEF ToSet
<1>2. \A e \in ToSet(s) : e \in ToSet(s) \ named <=> e \in E \ named
  BY <1>1
<1> QED
  BY <1>1, <1>2, OnlySame DEF Others

\* What an operand of the path builtin does to the entries that it does not name.
LEMMA EditKeepsOthers ==
    ASSUME NEW op \in {"add", "prepend", "remove"}, NEW spec \in Options,
           NEW at \in Places, NEW dir \in Path, NEW named, dir \in named
    PROVE  Others(Edit(op, spec, at, dir).path, named) = Others(at.path, named)
<1> DEFINE old   == at.path
           new   == Edit(op, spec, at, dir).path
           other == Path \ named
           less  == Without(old, dir)
<1>1. old \in Seq(Path) /\ new \in Seq(Path) /\ dir \notin other /\ less \in Seq(Path)
  <2>1. Edit(op, spec, at, dir) \in Places
    BY EditTyped
  <2>2. less \in Seq(ToSet(old) \cap (ToSet(old) \ {dir}))
    BY OnlyTyped DEF Without, Places
  <2>3. ToSet(old) \subseteq Path
    BY DEF ToSet, Places
  <2>4. less \in Seq(Path)
    BY <2>2, <2>3
  <2> HIDE DEF less
  <2> QED
    BY <2>1, <2>4 DEF Places
<1>2. Only(less, other) = Only(old, other)
  <2>1. old \in Seq(ToSet(old))
    <3>1. DOMAIN old = 1 .. Len(old) /\ \A i \in 1 .. Len(old) : old[i] \in ToSet(old)
      BY <1>1 DEF ToSet
    <3> QED
      BY <1>1, <3>1
  <2>2. \A e \in ToSet(old) : e \in other => e \in ToSet(old) \ {dir}
    BY <1>1
  <2> HIDE DEF other, old
  <2> QED
    BY <2>1, <2>2, OnlyOnly DEF less, Without
<1>3. new \in {old, less, Append(old, dir), <<dir>> \o old, <<dir>> \o less}
  <2>1. CASE op = "add"
    BY <2>1 DEF Edit, Add
  <2>2. CASE op = "prepend"
    BY <2>2 DEF Edit, Prepend
  <2>3. CASE op = "remove"
    BY <2>3 DEF Edit, Places
  <2> QED
    BY <2>1, <2>2, <2>3
<1> HIDE DEF old, new, less, other
<1>4. /\ Only(Append(old, dir), other) = Only(old, other)
      /\ Only(<<dir>> \o old, other) = Only(old, other)
      /\ Only(<<dir>> \o less, other) = Only(less, other)
  BY <1>1, OnlyAppend, OnlyFront
<1>5. Only(new, other) = Only(old, other)
  BY <1>2, <1>3, <1>4
<1>6. Others(new, named) = Only(new, other) /\ Others(old, named) = Only(old, other)
  BY <1>1, OthersAre DEF other
<1> QED
  BY <1>5, <1>6 DEF new, old

\* What is left out has no copies, the rest keeps its copies.
LEMMA WithoutCopies ==
    ASSUME NEW s \in Seq(Path), NEW dir, NEW e
    PROVE  /\ Without(s, dir) \in Seq(Path)
           /\ Copies(Without(s, dir), e) = IF e = dir THEN 0 ELSE Copies(s, e)
<1>1. Without(s, dir) \in Seq(Path)
  <2>1. Without(s, dir) \in Seq(ToSet(s) \cap (ToSet(s) \ {dir}))
    BY OnlyTyped DEF Without
  <2>2. ToSet(s) \subseteq Path
    BY DEF ToSet
  <2> QED
    BY <2>1, <2>2
<1> DEFINE wanted == ToSet(s) \ {dir}
<1>2. e \in wanted <=> e # dir /\ e \in ToSet(s)
  OBVIOUS
<1> HIDE DEF wanted
<1>3. Copies(Only(s, wanted), e) = IF e \in wanted THEN Copies(s, e) ELSE 0
  BY OnlyCopies
<1>4. Copies(s, e) \in Nat /\ (Copies(s, e) > 0 <=> e \in ToSet(s))
  BY CopiesCount
<1> QED
  BY <1>1, <1>2, <1>3, <1>4 DEF Without, wanted

\* What an operand of the path builtin does to the entries: to the others nothing.
LEMMA EditCopies ==
    ASSUME NEW op \in {"add", "prepend", "remove"}, NEW spec \in Options,
           NEW at \in Places, NEW dir \in Path
    PROVE  LET new    == Edit(op, spec, at, dir)
               known  == spec.dedup /\ dir \in at.seen
               barred == spec.only_existing /\ ~IsDirectory(tree, dir)
           IN  /\ op = "remove" => new.seen = at.seen
               /\ op # "remove" => new.seen = at.seen \cup {dir}
               /\ \A e \in Path : e # dir => Copies(new.path, e) = Copies(at.path, e)
               /\ op = "remove" => Copies(new.path, dir) = 0
               /\ op = "add" /\ known => Copies(new.path, dir) = Copies(at.path, dir)
               /\ op = "prepend" /\ known => Copies(new.path, dir) = IF barred THEN 0 ELSE 1
               /\ op # "remove" /\ ~known =>
                    Copies(new.path, dir) = IF barred THEN Copies(at.path, dir)
                                            ELSE Copies(at.path, dir) + 1
<1> DEFINE s      == at.path
           new    == Edit(op, spec, at, dir)
           known  == spec.dedup /\ dir \in at.seen
           barred == spec.only_existing /\ ~IsDirectory(tree, dir)
           less   == Without(s, dir)
<1>1. s \in Seq(Path) /\ at.seen \subseteq Path
  BY DEF Places
<1>2. less \in Seq(Path) /\ \A e \in Path : Copies(less, e) = IF e = dir THEN 0 ELSE Copies(s, e)
  <2> HIDE DEF s
  <2> QED
    BY <1>1, WithoutCopies
<1> HIDE DEF s, less
<1>3. \A e \in Path : Copies(Append(s, dir), e) = IF dir = e THEN Copies(s, e) + 1 ELSE Copies(s, e)
  BY <1>1, CopiesAppend
<1>4. \A e \in Path : Copies(<<dir>> \o s, e) = IF dir = e THEN Copies(s, e) + 1 ELSE Copies(s, e)
  BY <1>1, CopiesFront
<1>5. \A e \in Path : Copies(<<dir>> \o less, e) = IF dir = e THEN Copies(less, e) + 1 ELSE Copies(less, e)
  BY <1>2, CopiesFront
<1>6. CASE op = "remove"
  <2>1. new.seen = at.seen /\ new.path = less
    BY <1>6 DEF Edit, Places, less, s
  <2> HIDE DEF new
  <2> QED
    BY <1>2, <1>6, <2>1 DEF new, s
<1>7. CASE op = "add"
  <2>1. known => new = at
    BY <1>7 DEF Edit, Add
  <2>2. ~known => new.seen = at.seen \cup {dir} /\ new.path = IF barred THEN s ELSE Append(s, dir)
    BY <1>7 DEF Edit, Add, s
  <2>3. known => new.seen = at.seen \cup {dir} /\ new.path = s
    BY <2>1 DEF s
  <2> HIDE DEF new
  <2> DEFINE more == Append(s, dir)
  <2>4. ~known => new.path = IF barred THEN s ELSE more
    BY <2>2
  <2>5. \A e \in Path : Copies(more, e) = IF dir = e THEN Copies(s, e) + 1 ELSE Copies(s, e)
    BY <1>3
  <2> HIDE DEF more
  <2>6. \A e \in Path : e # dir => Copies(new.path, e) = Copies(s, e)
    BY <2>3, <2>4, <2>5
  <2>7. known => Copies(new.path, dir) = Copies(s, dir)
    BY <2>3
  <2>8. ~known => Copies(new.path, dir) = IF barred THEN Copies(s, dir) ELSE Copies(s, dir) + 1
    BY <2>4, <2>5
  <2> QED
    BY <1>7, <2>2, <2>3, <2>6, <2>7, <2>8 DEF new, s
<1>8. CASE op = "prepend"
  <2> DEFINE path == IF known THEN less ELSE s
             more == <<dir>> \o path
  <2>1. new.seen = at.seen \cup {dir} /\ new.path = IF barred THEN path ELSE more
    BY <1>8 DEF Edit, Prepend, less, s
  <2>2. \A e \in Path : Copies(more, e) = IF dir = e THEN Copies(path, e) + 1 ELSE Copies(path, e)
    BY <1>4, <1>5
  <2>3. \A e \in Path : Copies(path, e) = IF known /\ e = dir THEN 0 ELSE Copies(s, e)
    BY <1>2
  <2> HIDE DEF new, more, path
  <2>4. \A e \in Path : e # dir => Copies(new.path, e) = Copies(s, e)
    BY <2>1, <2>2, <2>3
  <2>5. known => Copies(new.path, dir) = IF barred THEN 0 ELSE 1
    BY <2>1, <2>2, <2>3
  <2>6. ~known => Copies(new.path, dir) = IF barred THEN Copies(s, dir) ELSE Copies(s, dir) + 1
    BY <2>1, <2>2, <2>3
  <2> QED
    BY <1>8, <2>1, <2>4, <2>5, <2>6 DEF new, s
<1> QED
  BY <1>6, <1>7, <1>8

\* What holds of the entries after the first i operands: the others are as they were;
\* everything that is there was seen; no copies are added where none are wanted, nothing
\* that is not a directory; the operands are gone or seen, and what was seen is there.
EditedSoFar(at, op, spec, entries, i) ==
    /\ Others(at.path, ToSet(spec.dirs)) = Others(entries, ToSet(spec.dirs))
    /\ \A e \in Path : Copies(at.path, e) > 0 => e \in at.seen
    /\ spec.dedup => \A e \in Path : Copies(at.path, e) <= 1
    /\ spec.only_existing =>
         \A e \in Path : Copies(at.path, e) > Copies(entries, e) => IsDirectory(tree, e)
    /\ op = "remove" => \A j \in 1 .. i : Copies(at.path, spec.dirs[j]) = 0
    /\ op # "remove" => \A j \in 1 .. i : spec.dirs[j] \in at.seen
    /\ op # "remove" =>
         \A e \in at.seen : (spec.only_existing => IsDirectory(tree, e)) => Copies(at.path, e) > 0

\* Each operand keeps that.
LEMMA EditedOn ==
    ASSUME NEW op \in {"add", "prepend", "remove"}, NEW spec \in Options, NEW entries \in Seq(Path),
           NEW at \in Places, NEW i \in 1 .. Len(spec.dirs), EditedSoFar(at, op, spec, entries, i - 1)
    PROVE  EditedSoFar(Edit(op, spec, at, spec.dirs[i]), op, spec, entries, i)
<1> DEFINE dir    == spec.dirs[i]
           named  == ToSet(spec.dirs)
           new    == Edit(op, spec, at, dir)
           known  == spec.dedup /\ dir \in at.seen
           barred == spec.only_existing /\ ~IsDirectory(tree, dir)
<1>1. dir \in Path /\ dir \in named /\ Len(spec.dirs) \in Nat /\ spec.dirs \in Seq(Path)
  BY DEF Options, ToSet
<1>2. \A j \in 1 .. i : j = i \/ j \in 1 .. (i - 1)
  BY <1>1
<1>3. \A j \in 1 .. i : spec.dirs[j] \in Path
  BY <1>1
<1> HIDE DEF dir, named
<1>4. Others(new.path, named) = Others(at.path, named)
  BY <1>1, EditKeepsOthers
<1>5. /\ op = "remove" => new.seen = at.seen
      /\ op # "remove" => new.seen = at.seen \cup {dir}
      /\ \A e \in Path : e # dir => Copies(new.path, e) = Copies(at.path, e)
      /\ op = "remove" => Copies(new.path, dir) = 0
      /\ op = "add" /\ known => Copies(new.path, dir) = Copies(at.path, dir)
      /\ op = "prepend" /\ known => Copies(new.path, dir) = IF barred THEN 0 ELSE 1
      /\ op # "remove" /\ ~known =>
           Copies(new.path, dir) = IF barred THEN Copies(at.path, dir)
                                   ELSE Copies(at.path, dir) + 1
  BY <1>1, EditCopies
<1>6. at.path \in Seq(Path) /\ at.seen \subseteq Path
  BY DEF Places
<1>7. \A e \in Path : Copies(at.path, e) \in Nat /\ Copies(entries, e) \in Nat
  BY <1>6, CopiesCount
<1>8. EditedSoFar(at, op, spec, entries, i - 1)
  OBVIOUS
<1> HIDE DEF new
<1> DEFINE c(e) == Copies(at.path, e)
           d(e) == Copies(new.path, e)
<1>9. \A e \in Path : d(e) > 0 => e \in new.seen
  <2> SUFFICES ASSUME NEW e \in Path, d(e) > 0
               PROVE  e \in new.seen
    OBVIOUS
  <2>1. e # dir => e \in at.seen
    BY <1>5, <1>8 DEF EditedSoFar
  <2> QED
    BY <1>5, <2>1
<1>10. ASSUME spec.dedup
       PROVE  \A e \in Path : d(e) <= 1
  <2>1. \A e \in Path : c(e) <= 1 /\ c(e) \in Nat
    BY <1>7, <1>8, <1>10 DEF EditedSoFar
  <2>2. ~known => c(dir) = 0
    <3>1. c(dir) > 0 => dir \in at.seen
      BY <1>1, <1>8 DEF EditedSoFar
    <3> QED
      BY <1>1, <1>7, <1>10, <3>1
  <2>3. d(dir) <= 1
    <3>1. CASE op = "remove"
      BY <1>5, <3>1
    <3>2. CASE op = "add" /\ known
      BY <1>1, <1>5, <2>1, <3>2
    <3>3. CASE op = "prepend" /\ known
      BY <1>5, <3>3
    <3>4. CASE op # "remove" /\ ~known
      BY <1>5, <2>2, <3>4
    <3> QED
      BY <3>1, <3>2, <3>3, <3>4
  <2> QED
    BY <1>5, <2>1, <2>3
<1>11. ASSUME spec.only_existing, NEW e \in Path, d(e) > Copies(entries, e)
       PROVE  IsDirectory(tree, e)
  <2>1. c(e) > Copies(entries, e) => IsDirectory(tree, e)
    BY <1>8, <1>11 DEF EditedSoFar
  <2>2. CASE e # dir
    BY <1>5, <1>11, <2>1, <2>2
  <2>3. CASE e = dir /\ barred
    <3>1. d(e) = 0 \/ d(e) = c(e)
      BY <1>5, <2>3
    <3>2. d(e) # 0
      BY <1>7, <1>11
    <3> QED
      BY <1>11, <2>1, <3>1, <3>2
  <2>4. CASE e = dir /\ ~barred
    BY <1>11, <2>4
  <2> QED
    BY <2>2, <2>3, <2>4
<1>12. ASSUME op = "remove", NEW j \in 1 .. i
       PROVE  Copies(new.path, spec.dirs[j]) = 0
  <2>1. CASE spec.dirs[j] = dir
    BY <1>5, <1>12, <2>1
  <2>2. CASE spec.dirs[j] # dir
    <3>1. j \in 1 .. (i - 1)
      BY <1>2, <2>2 DEF dir
    <3>2. c(spec.dirs[j]) = 0
      BY <1>8, <1>12, <3>1 DEF EditedSoFar
    <3> QED
      BY <1>3, <1>5, <2>2, <3>2
  <2> QED
    BY <2>1, <2>2
<1>13. ASSUME op # "remove", NEW j \in 1 .. i
       PROVE  spec.dirs[j] \in new.seen
  <2>1. CASE j = i
    BY <1>5, <1>13, <2>1 DEF dir
  <2>2. CASE j \in 1 .. (i - 1)
    <3>1. spec.dirs[j] \in at.seen
      BY <1>8, <1>13, <2>2 DEF EditedSoFar
    <3> QED
      BY <1>5, <1>13, <3>1
  <2> QED
    BY <1>2, <2>1, <2>2
<1>14. ASSUME op # "remove", NEW e \in new.seen, spec.only_existing => IsDirectory(tree, e)
       PROVE  d(e) > 0
  <2>1. e \in at.seen => c(e) > 0
    BY <1>8, <1>14 DEF EditedSoFar
  <2>2. CASE e # dir
    <3>1. e \in at.seen
      BY <1>5, <1>14, <2>2
    <3> QED
      BY <1>5, <1>6, <2>1, <2>2, <3>1
  <2>3. CASE e = dir
    <3>1. ~barred
      BY <1>14, <2>3
    <3>2. CASE op = "add" /\ known
      BY <1>5, <2>1, <2>3, <3>2
    <3>3. CASE op = "prepend" /\ known
      BY <1>5, <2>3, <3>1, <3>3
    <3>4. CASE ~known
      <4>1. d(e) = c(e) + 1
        BY <1>5, <1>14, <2>3, <3>1, <3>4
      <4> QED
        BY <1>1, <1>7, <2>3, <4>1
    <3> QED
      BY <1>14, <3>2, <3>3, <3>4
  <2> QED
    BY <2>2, <2>3
<1>15. Others(new.path, named) = Others(entries, named)
  BY <1>4, <1>8 DEF EditedSoFar, named
<1>16. EditedSoFar(new, op, spec, entries, i)
  BY <1>9, <1>10, <1>11, <1>12, <1>13, <1>14, <1>15 DEF EditedSoFar, named
<1> QED
  BY <1>16 DEF new, dir

\* After all operands it holds too.
LEMMA EditedAll ==
    ASSUME NEW op \in {"add", "prepend", "remove"}, NEW spec \in Options, NEW entries \in Seq(Path),
           spec.dedup => \A e \in Path : Copies(entries, e) <= 1
    PROVE  /\ EditedSoFar(Edited(op, spec, entries), op, spec, entries, Len(spec.dirs))
           /\ Len(spec.dirs) > 0 =>
                \E at \in Places :
                  Edited(op, spec, entries) = Edit(op, spec, at, spec.dirs[Len(spec.dirs)])
<1> DEFINE n == Len(spec.dirs)
<1>1. n \in Nat
  BY DEF Options
<1>2. PICK at \in [0 .. n -> Places] : Editing(at, op, spec, entries)
  BY EditedSteps
<1>3. EditedSoFar(at[0], op, spec, entries, 0)
  <2>1. at[0] = [seen |-> ToSet(entries), path |-> entries]
    BY <1>2 DEF Editing
  <2>2. \A e \in Path : Copies(entries, e) \in Nat /\ (Copies(entries, e) > 0 <=> e \in ToSet(entries))
    BY CopiesCount
  <2>3. ToSet(entries) \subseteq Path
    BY DEF ToSet
  <2>4. at[0].path = entries /\ at[0].seen = ToSet(entries) /\ 1 .. 0 = {}
    BY <2>1
  <2>5. \A e \in Path : ~(Copies(entries, e) > Copies(entries, e))
    BY <2>2
  <2> QED
    BY <2>2, <2>3, <2>4, <2>5 DEF EditedSoFar
<1>4. ASSUME NEW i \in 1 .. n, EditedSoFar(at[i - 1], op, spec, entries, i - 1)
      PROVE  EditedSoFar(at[i], op, spec, entries, i)
  <2>1. at[i] = Edit(op, spec, at[i - 1], spec.dirs[i])
    BY <1>2 DEF Editing
  <2>2. at[i - 1] \in Places
    <3>1. i - 1 \in 0 .. n
      BY <1>1
    <3> QED
      BY <3>1
  <2> QED
    BY <1>4, <2>1, <2>2, EditedOn
<1> HIDE DEF n
<1> DEFINE T == {i \in 0 .. n : ~EditedSoFar(at[i], op, spec, entries, i)}
<1>5. T = {}
  <2> SUFFICES ASSUME T # {}
               PROVE  FALSE
    OBVIOUS
  <2>1. T \in SUBSET Nat
    BY <1>1
  <2> HIDE DEF T
  <2>2. PICK i \in T : \A k \in T : i <= k
    BY <2>1, LeastNumber
  <2>3. i \in 0 .. n /\ ~EditedSoFar(at[i], op, spec, entries, i) /\ i # 0
    BY <1>3 DEF T
  <2>4. i \in 1 .. n /\ i - 1 \in 0 .. n /\ i - 1 \notin T
    BY <1>1, <2>2, <2>3
  <2>5. EditedSoFar(at[i - 1], op, spec, entries, i - 1)
    BY <2>4 DEF T
  <2> QED
    BY <1>4, <2>3, <2>4, <2>5
<1>6. n \in 0 .. n /\ (n > 0 => n \in 1 .. n /\ n - 1 \in 0 .. n)
  BY <1>1
<1>7. at[n] = Edited(op, spec, entries)
  BY <1>2 DEF Editing, n
<1>8. EditedSoFar(at[n], op, spec, entries, n)
  BY <1>5, <1>6
<1>9. n > 0 => at[n] = Edit(op, spec, at[n - 1], spec.dirs[n]) /\ at[n - 1] \in Places
  BY <1>2, <1>6 DEF Editing, n
<1> QED
  BY <1>7, <1>8, <1>9 DEF n

\* Add, prepend and remove do what their operands say, on every path.
LEMMA AppliedAsAsked ==
    ASSUME NEW op \in {"add", "prepend", "remove"}, NEW spec \in Options, NEW old \in Seq(Path)
    PROVE  LET entries == IF spec.dedup THEN Deduped(old) ELSE old
           IN  AsOperandsSay(old, Edited(op, spec, entries).path, op, spec)
<1> DEFINE entries == IF spec.dedup THEN Deduped(old) ELSE old
           made    == Edited(op, spec, entries)
           new     == made.path
           dirs    == spec.dirs
           n       == Len(dirs)
           all     == {new[i] : i \in DOMAIN new} \cup {old[i] : i \in DOMAIN old}
           named   == {dirs[i] : i \in DOMAIN dirs}
<1>1. entries \in Seq(Path) /\ dirs \in Seq(Path) /\ n \in Nat
  BY DedupedTyped DEF Options
<1>2. ASSUME NEW e \in Path
      PROVE  /\ spec.dedup => Copies(entries, e) <= 1
             /\ Copies(entries, e) <= Copies(old, e)
             /\ Copies(old, e) \in Nat /\ Copies(entries, e) \in Nat
  <2>1. Copies(Deduped(old), e) = IF e \in ToSet(old) THEN 1 ELSE 0
    BY DedupedCopies
  <2>2. Copies(old, e) \in Nat /\ (Copies(old, e) > 0 <=> e \in ToSet(old))
    BY CopiesCount
  <2> QED
    BY <2>1, <2>2
<1> HIDE DEF entries
<1>3. spec.dedup => \A e \in Path : Copies(entries, e) <= 1
  BY <1>2
<1>4. /\ EditedSoFar(made, op, spec, entries, n)
      /\ n > 0 => \E at \in Places : made = Edit(op, spec, at, dirs[n])
  BY <1>1, <1>3, EditedAll
<1>5. made \in Places
  BY <1>1, EditedTyped
<1>6. new \in Seq(Path) /\ made.seen \subseteq Path
  BY <1>5 DEF Places
<1>7. named = ToSet(dirs) /\ DOMAIN dirs = 1 .. n
  BY <1>1 DEF ToSet
<1>8. named \subseteq Path /\ \A e \in named : \E j \in 1 .. n : e = dirs[j]
  BY <1>1, <1>7
<1> HIDE DEF made, named
<1>9. all \subseteq Path
  BY <1>6
<1> HIDE DEF all, n, dirs
<1>10. Others(new, named) = Others(entries, named)
  BY <1>4, <1>7 DEF EditedSoFar, dirs
<1>11. spec.dedup => \A e \in all : Copies(new, e) <= 1
  BY <1>4, <1>9 DEF EditedSoFar
<1>12. ASSUME spec.only_existing, NEW e \in named, Copies(new, e) > Copies(old, e)
       PROVE  IsDirectory(tree, e)
  <2>1. e \in Path /\ Copies(new, e) \in Nat
    BY <1>6, <1>8, CopiesCount
  <2>2. Copies(new, e) > Copies(entries, e)
    BY <1>2, <1>12, <2>1
  <2> QED
    BY <1>4, <1>12, <2>1, <2>2 DEF EditedSoFar
<1>13. ASSUME op = "remove", NEW e \in named
       PROVE  Copies(new, e) = 0
  BY <1>4, <1>8, <1>13 DEF EditedSoFar, dirs
<1>14. ASSUME op # "remove", NEW e \in named, Wanted(spec, e)
       PROVE  Copies(new, e) > 0
  <2>1. e \in made.seen
    BY <1>4, <1>8, <1>14 DEF EditedSoFar, dirs
  <2> QED
    BY <1>4, <1>14, <2>1 DEF EditedSoFar, Wanted
<1>15. InFrontOrBehind(new, op, spec)
  <2> SUFFICES ASSUME dirs # <<>>, Wanted(spec, Last(dirs))
               PROVE  /\ op = "prepend" => new[1] = Last(dirs)
                      /\ op = "add" /\ ~spec.dedup => new[Len(new)] = Last(dirs)
    BY DEF InFrontOrBehind, dirs
  <2>1. n > 0 /\ Last(dirs) = dirs[n] /\ dirs[n] \in Path
    <3>1. n # 0 /\ n \in Nat
      BY <1>1 DEF n
    <3> QED
      BY <1>1, <3>1 DEF Last, n
  <2>2. PICK at \in Places : made = Edit(op, spec, at, dirs[n])
    BY <1>4, <2>1
  <2>3. at.path \in Seq(Path)
    BY DEF Places
  <2>4. CASE op = "add" /\ ~spec.dedup
    <3>1. new = Append(at.path, dirs[n])
      BY <2>1, <2>2, <2>4 DEF Edit, Add, Wanted
    <3>2. new[Len(new)] = dirs[n]
      BY <2>1, <2>3, <3>1
    <3> QED
      BY <2>1, <2>4, <3>2
  <2>5. CASE op = "prepend"
    <3>1. PICK before : new = <<dirs[n]>> \o before /\ (before = at.path \/ before = Without(at.path, dirs[n]))
      BY <2>1, <2>2, <2>5 DEF Edit, Prepend, Wanted
    <3>2. before \in Seq(Path)
      <4>1. PICK wanted : Without(at.path, dirs[n]) = Only(at.path, wanted)
        BY DEF Without
      <4>2. Only(at.path, wanted) \in Seq(ToSet(at.path) \cap wanted) /\ ToSet(at.path) \subseteq Path
        BY <2>3, OnlyTyped DEF ToSet
      <4>3. Without(at.path, dirs[n]) \in Seq(Path)
        BY <4>1, <4>2
      <4> QED
        BY <2>3, <3>1, <4>3
    <3>3. new[1] = dirs[n]
      BY <2>1, <3>1, <3>2
    <3> QED
      BY <2>1, <2>5, <3>3
  <2> QED
    BY <2>4, <2>5
<1>16. AsOperandsSay(old, new, op, spec)
  <2> HIDE DEF new
  <2> QED
    BY <1>10, <1>11, <1>12, <1>13, <1>14, <1>15
       DEF AsOperandsSay, entries, all, named, dirs
<1> QED
  BY <1>16 DEF made, entries

\* Fixup leaves one copy of every directory.
LEMMA FixedAsAsked ==
    ASSUME NEW old \in Seq(Path)
    PROVE  LET entries == Deduped(old)
           IN  AsFixed(old, Only(entries, {entry \in ToSet(entries) : IsDirectory(tree, entry)}))
<1> DEFINE entries == Deduped(old)
           wanted  == {entry \in ToSet(entries) : IsDirectory(tree, entry)}
           new     == Only(entries, wanted)
<1>1. entries \in Seq(Path)
  BY DedupedTyped
<1>2. \A e : Copies(entries, e) = IF e \in ToSet(old) THEN 1 ELSE 0
  BY DedupedCopies
<1>3. \A e : e \in wanted <=> e \in ToSet(entries) /\ IsDirectory(tree, e)
  OBVIOUS
<1> HIDE DEF wanted, entries
<1>4. new \in Seq(ToSet(entries) \cap wanted)
  BY <1>1, OnlyTyped
<1>5. \A e : Copies(new, e) = IF e \in wanted THEN Copies(entries, e) ELSE 0
  BY <1>1, OnlyCopies
<1>6. \A e : e \in ToSet(entries) <=> e \in ToSet(old)
  <2> SUFFICES ASSUME NEW e
               PROVE  e \in ToSet(entries) <=> e \in ToSet(old)
    OBVIOUS
  <2>1. Copies(entries, e) > 0 <=> e \in ToSet(entries)
    BY <1>1, CopiesCount
  <2> QED
    BY <1>2, <2>1
<1>7. \A e \in ToSet(old) : IsDirectory(tree, e) => Copies(new, e) = 1
  BY <1>2, <1>3, <1>5, <1>6
<1>8. \A i \in DOMAIN new : new[i] \in ToSet(entries) /\ new[i] \in wanted
  BY <1>4
<1> HIDE DEF new
<1>9. \A i \in DOMAIN new : new[i] \in ToSet(old) /\ IsDirectory(tree, new[i])
  BY <1>3, <1>6, <1>8
<1>10. \A i \in DOMAIN old : old[i] \in ToSet(old)
  BY DEF ToSet
<1>11. AsFixed(old, new)
  BY <1>7, <1>9, <1>10 DEF AsFixed
<1> QED
  BY <1>11 DEF new, wanted, entries

\* The path builtin does what its options say, whatever the PATH was: PathSpec::apply,
\* env.rs:100, and path fixup.
THEOREM PathIsAsAsked == Spec => []PathAsAsked
<1>1. Init => PathAsAsked
  BY DEF Init, PathAsAsked, Nothing
<1>2. ASSUME Types, JobIsFound, PathAsAsked, [Next]_vars
      PROVE  PathAsAsked'
  <2>1. ASSUME last'.kind # "path"
        PROVE  PathAsAsked'
    BY <2>1 DEF PathAsAsked
  <2>2. env["PATH"] \in Seq(Path) /\ Specs \subseteq Options
    <3>1. env["PATH"] \in Seq(Path)
      BY <1>2 DEF Types, Var
    <3>2. Specs \subseteq Options
      BY PathsAssumption DEF Options
    <3> QED
      BY <3>1, <3>2
  <2>3. CASE Export \/ UnsetVariable
    BY <2>1, <2>3 DEF Export, UnsetVariable, Nothing
  <2>4. CASE EditPath
    <3> SUFFICES ASSUME last'.kind = "path"
                 PROVE  PathAsAsked'
      BY DEF PathAsAsked
    <3>1. PICK op \in {"add", "prepend", "remove"}, spec \in Specs :
            /\ env' = [env EXCEPT !["PATH"] = Apply(op, spec)]
            /\ last' = [kind |-> "path", op |-> op, spec |-> spec, was |-> env["PATH"]]
      BY <2>4 DEF EditPath, Set, Nothing
    <3>10. PICK old : old = env["PATH"]
      OBVIOUS
    <3> DEFINE entries == IF spec.dedup THEN Deduped(old) ELSE old
    <3>11. PICK new : new = Edited(op, spec, entries).path
      OBVIOUS
    <3>2. tree' = tree /\ spec \in Options
      BY <2>2, <2>4 DEF EditPath
    <3>3. last'.kind = "path" /\ last'.op = op /\ last'.spec = spec /\ last'.was = old
      BY <3>1, <3>10
    <3>4. env'["PATH"] = Apply(op, spec)
      BY <1>2, <3>1 DEF Types, Var
    <3>5. Apply(op, spec) = IF new = <<>> THEN <<Empty>> ELSE new
      BY <3>10, <3>11 DEF Apply, JoinPaths, SplitPaths
    <3>6. AsOperandsSay(old, new, op, spec)
      BY <2>2, <3>2, <3>10, <3>11, AppliedAsAsked
    <3>7. new \in {env'["PATH"]} \cup (IF env'["PATH"] = <<Empty>> THEN {<<>>} ELSE {})
      BY <3>4, <3>5
    <3>8. \A path : IsDirectory(tree', path) <=> IsDirectory(tree, path)
      BY <3>2
    <3> HIDE DEF entries
    <3>9. AsOperandsSay(old, new, op, spec)'
      BY <3>6, <3>8 DEF AsOperandsSay, InFrontOrBehind, Wanted
    <3> QED
      BY <3>1, <3>3, <3>7, <3>9 DEF PathAsAsked
  <2>5. CASE FixPath
    <3>9. PICK old : old = env["PATH"]
      OBVIOUS
    <3> DEFINE entries == Deduped(old)
    <3>10. PICK new : new = Only(entries, {entry \in ToSet(entries) : IsDirectory(tree, entry)})
      OBVIOUS
    <3>1. /\ env' = [env EXCEPT !["PATH"] = Fixup] /\ tree' = tree
          /\ last' = [kind |-> "path", op |-> "fixup", spec |-> Nothing, was |-> env["PATH"]]
      BY <2>5 DEF FixPath, Set
    <3>2. last'.kind = "path" /\ last'.op = "fixup" /\ last'.was = old
      BY <3>1, <3>9
    <3>3. env'["PATH"] = Fixup
      BY <1>2, <3>1 DEF Types, Var
    <3>4. Fixup = IF new = <<>> THEN <<Empty>> ELSE new
      BY <3>9, <3>10 DEF Fixup, JoinPaths, SplitPaths
    <3>5. AsFixed(old, new)
      BY <2>2, <3>9, <3>10, FixedAsAsked
    <3> HIDE DEF entries
    <3>6. new \in {env'["PATH"]} \cup (IF env'["PATH"] = <<Empty>> THEN {<<>>} ELSE {})
      BY <3>3, <3>4
    <3>7. \A path : IsDirectory(tree', path) <=> IsDirectory(tree, path)
      BY <3>1
    <3>8. AsFixed(old, new)'
      BY <3>5, <3>7 DEF AsFixed
    <3> QED
      BY <3>2, <3>6, <3>8 DEF PathAsAsked
  <2>6. CASE Cd
    <3>1. last'.kind \in {"cd", "nothing"}
      BY <2>6 DEF Cd, Nothing
    <3> QED
      BY <2>1, <3>1
  <2>7. CASE Search
    <3>1. last'.kind \in {"panic", "found"}
      BY <2>7 DEF Search
    <3> QED
      BY <2>1, <3>1
  <2>8. CASE Start
    <3>1. last'.kind \in {"started", "nothing"}
      BY <2>8 DEF Start, Nothing
    <3> QED
      BY <2>1, <3>1
  <2>9. CASE Change
    <3>1. last'.kind \in {"found", "nothing"}
      BY <1>2, <2>9 DEF Change, Nothing, JobIsFound
    <3> QED
      BY <2>1, <3>1
  <2>10. CASE Ended \/ UNCHANGED vars
    <3>1. last' = last /\ env' = env /\ tree' = tree
      BY <2>10 DEF Ended, vars
    <3> SUFFICES ASSUME last.kind = "path"
                 PROVE  PathAsAsked'
      BY <3>1 DEF PathAsAsked
    <3>2. PICK was, op, spec : was = last.was /\ op = last.op /\ spec = last.spec
      OBVIOUS
    <3>3. PICK new \in {env["PATH"]} \cup (IF env["PATH"] = <<Empty>> THEN {<<>>} ELSE {}) :
            IF op = "fixup" THEN AsFixed(was, new) ELSE AsOperandsSay(was, new, op, spec)
      BY <1>2, <3>2 DEF PathAsAsked
    <3>4. \A path : IsDirectory(tree', path) <=> IsDirectory(tree, path)
      BY <3>1
    <3>5. IF op = "fixup" THEN AsFixed(was, new)' ELSE AsOperandsSay(was, new, op, spec)'
      BY <3>3, <3>4 DEF AsFixed, AsOperandsSay, InFrontOrBehind, Wanted
    <3> QED
      BY <3>1, <3>2, <3>3, <3>5 DEF PathAsAsked
  <2> QED
    BY <1>2, <2>3, <2>4, <2>5, <2>6, <2>7, <2>8, <2>9, <2>10 DEF Next
<1> QED
  BY <1>1, <1>2, TypesInvariance, PTL DEF Spec

-----------------------------------------------------------------------------
(* Changing the directory.                                                 *)

\* Where the names of a path lead, one after another.
ResolveRun(at, files, names) ==
    /\ at[0] = <<>> /\ at[Len(names)] = Resolve(files, names)
    /\ \A i \in 1 .. Len(names) : at[i] = Enter(files, at[i - 1], names[i])

\* Every path is gone along so.
LEMMA ResolveRuns ==
    ASSUME NEW files, Tidy(files), NEW names \in Seq(Name)
    PROVE  \E at : ResolveRun(at, files, names)
  BY ResolveSteps DEF ResolveRun

\* No names lead to the root.
LEMMA ResolveEmpty ==
    ASSUME NEW files, Tidy(files)
    PROVE  Resolve(files, <<>>) = <<>>
<1>1. <<>> \in Seq(Name) /\ Len(<<>>) = 0
  OBVIOUS
<1>2. PICK at : ResolveRun(at, files, <<>>)
  BY <1>1, ResolveRuns
<1> QED
  BY <1>1, <1>2 DEF ResolveRun

\* A further name is one step more.
LEMMA ResolveAppend ==
    ASSUME NEW files, Tidy(files), NEW s \in Seq(Name), NEW x \in Name
    PROVE  Resolve(files, Append(s, x)) = Enter(files, Resolve(files, s), x)
<1> DEFINE t == Append(s, x)
<1> DEFINE n == Len(s)
<1>1. n \in Nat /\ t \in Seq(Name) /\ Len(t) = n + 1 /\ t[n + 1] = x /\ \A i \in 1 .. n : t[i] = s[i]
  OBVIOUS
<1> HIDE DEF t
<1>2. PICK at : ResolveRun(at, files, t)
  BY <1>1, ResolveRuns
<1>3. PICK by : ResolveRun(by, files, s)
  BY ResolveRuns
<1> HIDE DEF n
<1> DEFINE T == {i \in 0 .. n : at[i] # by[i]}
<1>4. T = {}
  <2> SUFFICES ASSUME T # {}
               PROVE  FALSE
    OBVIOUS
  <2>1. T \in SUBSET Nat
    BY <1>1
  <2> HIDE DEF T
  <2>2. PICK i \in T : \A k \in T : i <= k
    BY <2>1, LeastNumber
  <2>3. i \in 0 .. n /\ at[i] # by[i] /\ i # 0
    BY <1>2, <1>3 DEF T, ResolveRun
  <2>4. i \in 1 .. n /\ i \in 1 .. (n + 1) /\ i - 1 \in 0 .. n /\ i - 1 \notin T
    BY <1>1, <2>2, <2>3
  <2>5. at[i - 1] = by[i - 1]
    BY <2>4 DEF T
  <2>6. at[i] = (Enter(files, at[i - 1], t[i])) /\ by[i] = (Enter(files, by[i - 1], s[i]))
    BY <1>1, <1>2, <1>3, <2>4 DEF ResolveRun, n
  <2> QED
    BY <1>1, <2>3, <2>4, <2>5, <2>6
<1>5. at[n] = by[n]
  <2>1. n \in 0 .. n
    BY <1>1
  <2> QED
    BY <1>4, <2>1
<1>6. n + 1 \in 1 .. (n + 1) /\ (n + 1) - 1 = n
  BY <1>1
<1>7. at[n + 1] = Enter(files, at[n], x)
  BY <1>1, <1>2, <1>6 DEF ResolveRun
<1>8. Resolve(files, t) = Enter(files, Resolve(files, s), x)
  BY <1>1, <1>2, <1>3, <1>5, <1>7 DEF ResolveRun, n
<1> QED
  BY <1>8 DEF t

\* What is left of some names when . and .. are taken out.
Text(names) == Normalize(Relative(names)).names
TextRun(at, names) ==
    /\ at[0] = <<>> /\ at[Len(names)] = Text(names)
    /\ \A i \in 1 .. Len(names) : at[i] = Onward(at[i - 1], names[i])

\* Every text is gone over so.
LEMMA TextRuns ==
    ASSUME NEW names \in Seq(Name)
    PROVE  \E at : TextRun(at, names)
  BY NormalizeSteps DEF TextRun, Text

\* Nothing is left of nothing.
LEMMA TextEmpty ==
    Text(<<>>) = <<>>
<1>1. <<>> \in Seq(Name) /\ Len(<<>>) = 0
  OBVIOUS
<1>2. PICK at : TextRun(at, <<>>)
  BY <1>1, TextRuns
<1> QED
  BY <1>1, <1>2 DEF TextRun

\* A further name is kept, or takes one out.
LEMMA TextAppend ==
    ASSUME NEW s \in Seq(Name), NEW x \in Name
    PROVE  Text(Append(s, x)) = Onward(Text(s), x)
<1> DEFINE t == Append(s, x)
<1> DEFINE n == Len(s)
<1>1. n \in Nat /\ t \in Seq(Name) /\ Len(t) = n + 1 /\ t[n + 1] = x /\ \A i \in 1 .. n : t[i] = s[i]
  OBVIOUS
<1> HIDE DEF t
<1>2. PICK at : TextRun(at, t)
  BY <1>1, TextRuns
<1>3. PICK by : TextRun(by, s)
  BY TextRuns
<1> HIDE DEF n
<1> DEFINE T == {i \in 0 .. n : at[i] # by[i]}
<1>4. T = {}
  <2> SUFFICES ASSUME T # {}
               PROVE  FALSE
    OBVIOUS
  <2>1. T \in SUBSET Nat
    BY <1>1
  <2> HIDE DEF T
  <2>2. PICK i \in T : \A k \in T : i <= k
    BY <2>1, LeastNumber
  <2>3. i \in 0 .. n /\ at[i] # by[i] /\ i # 0
    BY <1>2, <1>3 DEF T, TextRun
  <2>4. i \in 1 .. n /\ i \in 1 .. (n + 1) /\ i - 1 \in 0 .. n /\ i - 1 \notin T
    BY <1>1, <2>2, <2>3
  <2>5. at[i - 1] = by[i - 1]
    BY <2>4 DEF T
  <2>6. at[i] = (Onward(at[i - 1], t[i])) /\ by[i] = (Onward(by[i - 1], s[i]))
    BY <1>1, <1>2, <1>3, <2>4 DEF TextRun, n
  <2> QED
    BY <1>1, <2>3, <2>4, <2>5, <2>6
<1>5. at[n] = by[n]
  <2>1. n \in 0 .. n
    BY <1>1
  <2> QED
    BY <1>4, <2>1
<1>6. n + 1 \in 1 .. (n + 1) /\ (n + 1) - 1 = n
  BY <1>1
<1>7. at[n + 1] = Onward(at[n], x)
  BY <1>1, <1>2, <1>6 DEF TextRun
<1>8. Text(t) = Onward(Text(s), x)
  BY <1>1, <1>2, <1>3, <1>5, <1>7 DEF TextRun, n
<1> QED
  BY <1>8 DEF t

\* What is left of names are names.
LEMMA TextTyped ==
    ASSUME NEW s \in Seq(Name)
    PROVE  Text(s) \in Seq(Name)
<1>1. Len(s) \in 0 .. Len(s)
  OBVIOUS
<1> QED
  BY <1>1, NormalizeSteps DEF Text

\* A place that is no link: the root, or an entry.
Direct(files, place) == place = <<>> \/ (place \in DOMAIN files /\ files[place].kind # "link")

\* Files that are a tree: entries lie in directories, and no link leads to a link.
Sound(files) ==
    /\ Tidy(files)
    /\ \A path \in DOMAIN files :
         /\ Last(path) \notin {Current, Parent} /\ IsDir(files, Front(path))
         /\ IsLink(files, path) => ~IsLink(files, files[path].to)

\* The files are such a tree.
LEMMA SoundTree ==
    ASSUME DirectoriesStay, Types, Steady
    PROVE  Sound(tree)
<1>1. PICK kept \in SUBSET DOMAIN Tree, made \in SUBSET DOMAIN Volatile : tree = Made(kept, made)
  BY DEF Types, IsMade
<1>2. Tidy(tree)
  BY MadeTidy DEF Types
<1>3. ASSUME NEW path \in DOMAIN tree
      PROVE  \/ path \in DOMAIN Tree /\ tree[path] = Tree[path]
             \/ path \in DOMAIN Volatile /\ tree[path] = Volatile[path]
  BY <1>1 DEF Made
<1>4. ASSUME NEW path \in DOMAIN tree
      PROVE  Last(path) \notin {Current, Parent} /\ IsDir(tree, Front(path))
  <2>1. path \in DOMAIN Tree \cup DOMAIN Volatile
    BY <1>3
  <2>2. Last(path) \notin {Current, Parent}
    BY <2>1 DEF DirectoriesStay
  <2>3. Front(path) # <<>> => /\ Front(path) \in DOMAIN Tree \ DOMAIN Volatile
                              /\ Tree[Front(path)].kind = "dir"
    BY <2>1 DEF DirectoriesStay
  <2> QED
    BY <2>2, <2>3 DEF Steady, IsDir
<1>5. ASSUME NEW path \in DOMAIN tree, IsLink(tree, path)
      PROVE  ~IsLink(tree, tree[path].to)
  <2> DEFINE to == tree[path].to
  <2>1. \/ IsLink(Tree, path) /\ tree[path] = Tree[path]
        \/ IsLink(Volatile, path) /\ tree[path] = Volatile[path]
    BY <1>3, <1>5 DEF IsLink
  <2>2. ~IsLink(Tree, to) /\ ~IsLink(Volatile, to)
    BY <2>1 DEF DirectoriesStay, IsLink
  <2> QED
    BY <1>3, <2>2 DEF IsLink
<1> QED
  BY <1>2, <1>4, <1>5 DEF Sound

\* What others leave alone stays so.
LEMMA SteadyStep ==
    ASSUME Steady, [Next]_vars
    PROVE  Steady'
<1>1. ASSUME tree' = tree
      PROVE  Steady'
  BY <1>1 DEF Steady
<1>2. CASE Change
  <2>1. PICK path \in DOMAIN Volatile :
          tree' = IF path \in DOMAIN tree THEN [p \in DOMAIN tree \ {path} |-> tree[p]]
                  ELSE [p \in DOMAIN tree \cup {path} |-> IF p = path THEN Volatile[path] ELSE tree[p]]
    BY <1>2 DEF Change
  <2>2. \A p \in DOMAIN tree : p # path => p \in DOMAIN tree' /\ tree'[p] = tree[p]
    BY <2>1
  <2> QED
    BY <2>2 DEF Steady
<1>3. CASE Export \/ UnsetVariable \/ EditPath \/ FixPath \/ Cd \/ Search \/ Start \/ Ended
  BY <1>1, <1>3 DEF Export, UnsetVariable, EditPath, FixPath, Cd, Search, Start, Ended, vars
<1>4. CASE UNCHANGED vars
  BY <1>1, <1>4 DEF vars
<1> QED
  BY <1>2, <1>3, <1>4 DEF Next

\* A step from such a place leads to one, or nowhere.
LEMMA EnterDirect ==
    ASSUME NEW files, Sound(files), NEW place \in Seq(Name), NEW name \in Name,
           Direct(files, place) \/ place = Absent
    PROVE  Direct(files, Enter(files, place, name)) \/ Enter(files, place, name) = Absent
<1> DEFINE child == Append(place, name)
<1>1. child # <<>>
  <2>1. Len(child) = Len(place) + 1 /\ Len(place) \in Nat
    OBVIOUS
  <2> QED
    BY <2>1
<1>2. CASE ~IsDir(files, place)
  BY <1>2 DEF Enter
<1>3. CASE IsDir(files, place) /\ name = Parent
  <2>1. CASE place = <<>>
    BY <1>3, <2>1 DEF Enter, Direct
  <2>2. CASE place # <<>>
    <3>1. place \in DOMAIN files
      BY <1>3, <2>2 DEF IsDir
    <3>2. IsDir(files, Front(place))
      BY <3>1 DEF Sound
    <3>3. Direct(files, Front(place))
      BY <3>2 DEF IsDir, Direct
    <3> QED
      BY <1>3, <2>2, <3>3 DEF Enter
  <2> QED
    BY <2>1, <2>2
<1>4. CASE IsDir(files, place) /\ name = Current /\ name # Parent
  <2>1. Direct(files, place)
    BY <1>4 DEF IsDir, Direct
  <2> QED
    BY <1>4, <2>1 DEF Enter
<1>5. CASE IsDir(files, place) /\ name # Current /\ name # Parent
  <2> HIDE DEF child
  <2>1. CASE ~Known(files, child)
    BY <1>5, <2>1 DEF Enter, child
  <2>2. CASE Known(files, child) /\ files[child].kind # "link"
    <3>1. Enter(files, place, name) = child
      BY <1>5, <2>2 DEF Enter, child
    <3> QED
      BY <1>1, <2>2, <3>1 DEF Direct, Known
  <2>3. CASE Known(files, child) /\ files[child].kind = "link"
    <3> DEFINE to == files[child].to
    <3>1. Enter(files, place, name) = IF Known(files, to) THEN to ELSE Absent
      BY <1>5, <2>3 DEF Enter, child
    <3>2. child \in DOMAIN files /\ IsLink(files, child)
      BY <1>1, <2>3 DEF Known, IsLink
    <3>3. ~IsLink(files, to)
      BY <3>2 DEF Sound
    <3>4. Known(files, to) => Direct(files, to)
      BY <3>3 DEF Known, Direct, IsLink
    <3> QED
      BY <3>1, <3>4
  <2> QED
    BY <2>1, <2>2, <2>3
<1> QED
  BY <1>2, <1>3, <1>4, <1>5

\* A path leads to such a place, or nowhere.
LEMMA ResolvesDirect ==
    ASSUME NEW files, Sound(files), NEW names \in Seq(Name)
    PROVE  /\ Resolve(files, names) \in Seq(Name)
           /\ Direct(files, Resolve(files, names)) \/ Resolve(files, names) = Absent
<1> DEFINE G == {s \in Seq(Name) : /\ Resolve(files, s) \in Seq(Name)
                                   /\ Direct(files, Resolve(files, s)) \/ Resolve(files, s) = Absent}
<1>0. Tidy(files)
  BY DEF Sound
<1>1. <<>> \in G
  <2>1. Resolve(files, <<>>) = <<>> /\ <<>> \in Seq(Name)
    BY <1>0, ResolveEmpty
  <2> QED
    BY <2>1 DEF Direct
<1>2. ASSUME NEW t \in G \cap Seq(Name), NEW y \in Name
      PROVE  Append(t, y) \in G
  <2> DEFINE place == Resolve(files, t)
  <2>1. place \in Seq(Name) /\ (Direct(files, place) \/ place = Absent) /\ Append(t, y) \in Seq(Name)
    OBVIOUS
  <2>2. Resolve(files, Append(t, y)) = Enter(files, place, y)
    BY <1>0, ResolveAppend
  <2> HIDE DEF place
  <2>3. Enter(files, place, y) \in Seq(Name)
    BY <1>0, <2>1, EnterTyped
  <2>4. Direct(files, Enter(files, place, y)) \/ Enter(files, place, y) = Absent
    BY <2>1, EnterDirect
  <2> QED
    BY <2>1, <2>2, <2>3, <2>4
<1> HIDE DEF G
<1>3. names \in G
  BY <1>1, <1>2, AppendInduction
<1> QED
  BY <1>3 DEF G

\* The path of such a place leads there, and has neither . nor .. in it.
LEMMA DirectResolves ==
    ASSUME NEW files, Sound(files), NEW names \in Seq(Name), Direct(files, names)
    PROVE  Resolve(files, names) = names /\ {Parent, Current} \cap ToSet(names) = {}
<1> DEFINE Fine(s) == Resolve(files, s) = s /\ {Parent, Current} \cap ToSet(s) = {}
           G == {s \in Seq(Name) : Direct(files, s) => Fine(s)}
<1>0. Tidy(files)
  BY DEF Sound
<1>1. <<>> \in G
  <2>1. Resolve(files, <<>>) = <<>> /\ <<>> \in Seq(Name)
    BY <1>0, ResolveEmpty
  <2>2. ToSet(<<>>) = {}
    BY DEF ToSet
  <2> QED
    BY <2>1, <2>2
<1>2. ASSUME NEW t \in G \cap Seq(Name), NEW y \in Name
      PROVE  Append(t, y) \in G
  <2> DEFINE u == Append(t, y)
  <2>1. u \in Seq(Name) /\ (Direct(files, t) => Fine(t)) /\ u # <<>>
    <3>1. Len(u) = Len(t) + 1 /\ Len(t) \in Nat
      OBVIOUS
    <3>2. u \in Seq(Name) /\ (Direct(files, t) => Fine(t))
      OBVIOUS
    <3>3. u # <<>>
      BY <3>1
    <3> QED
      BY <3>2, <3>3
  <2>2. Front(u) = t /\ Last(u) = y
    BY DEF Front, Last
  <2>3. Resolve(files, u) = Enter(files, Resolve(files, t), y)
    BY <1>0, ResolveAppend
  <2>4. ToSet(u) = ToSet(t) \cup {y}
    BY ToSetAppend
  <2> HIDE DEF u, G
  <2>5. ASSUME Direct(files, u)
        PROVE  Fine(u)
    <3>1. u \in DOMAIN files /\ files[u].kind # "link"
      BY <2>1, <2>5 DEF Direct
    <3>2. IsDir(files, t) /\ y # Parent /\ y # Current
      BY <2>2, <3>1 DEF Sound
    <3>3. Fine(t)
      BY <2>1, <3>2 DEF IsDir, Direct
    <3>4. Enter(files, t, y) = u
      BY <3>1, <3>2 DEF Enter, Known, u
    <3> QED
      BY <2>3, <2>4, <3>2, <3>3, <3>4
  <2>6. u \in G
    <3> HIDE DEF Fine
    <3> QED
      BY <2>1, <2>5 DEF G
  <2> QED
    BY <2>6 DEF u
<1> HIDE DEF G
<1>3. names \in G
  BY <1>1, <1>2, AppendInduction
<1> QED
  BY <1>3 DEF G

\* What is left of a text has neither . nor .. in it.
LEMMA TextPlain ==
    ASSUME NEW names \in Seq(Name)
    PROVE  {Parent, Current} \cap ToSet(Text(names)) = {}
<1> DEFINE G == {s \in Seq(Name) : {Parent, Current} \cap ToSet(Text(s)) = {}}
<1>1. <<>> \in G
  <2>1. Text(<<>>) = <<>> /\ <<>> \in Seq(Name)
    BY TextEmpty
  <2>2. ToSet(<<>>) = {}
    BY DEF ToSet
  <2> QED
    BY <2>1, <2>2
<1>2. ASSUME NEW t \in G \cap Seq(Name), NEW y \in Name
      PROVE  Append(t, y) \in G
  <2> DEFINE left == Text(t)
  <2>1. Append(t, y) \in Seq(Name) /\ {Parent, Current} \cap ToSet(left) = {}
    OBVIOUS
  <2>2. Text(Append(t, y)) = Onward(left, y)
    BY TextAppend
  <2>3. left \in Seq(Name)
    BY TextTyped
  <2> HIDE DEF left
  <2>4. ToSet(Onward(left, y)) \subseteq ToSet(left) \cup {y} /\ (y \in {Parent, Current} => ToSet(Onward(left, y)) \subseteq ToSet(left))
    <3>1. Parent # Current
      BY DEF Parent, Current
    <3>2. CASE y = Current
      BY <3>1, <3>2 DEF Onward
    <3>3. CASE y = Parent /\ left = <<>>
      BY <3>1, <3>3 DEF Onward
    <3>4. CASE y = Parent /\ left # <<>>
      <4>1. Onward(left, y) = Front(left)
        BY <3>1, <3>4 DEF Onward
      <4>2. ToSet(Front(left)) \subseteq ToSet(left)
        BY <2>3, <3>4 DEF ToSet, Front
      <4> QED
        BY <4>1, <4>2
    <3>5. CASE y # Parent /\ y # Current
      <4>1. Onward(left, y) = Append(left, y)
        BY <3>5 DEF Onward
      <4>2. ToSet(Append(left, y)) = ToSet(left) \cup {y}
        BY <2>3, ToSetAppend
      <4> QED
        BY <3>5, <4>1, <4>2
    <3> QED
      BY <3>2, <3>3, <3>4, <3>5
  <2>5. {Parent, Current} \cap ToSet(Onward(left, y)) = {}
    BY <2>1, <2>4
  <2> QED
    BY <2>1, <2>2, <2>5
<1> HIDE DEF G
<1>3. names \in G
  BY <1>1, <1>2, AppendInduction
<1> QED
  BY <1>3 DEF G

\* A text and what is left of it lead to the same place from a directory, or the text
\* leads nowhere and the rest of it not to a directory.
Agreed(files, base, s) ==
    LET place == Resolve(files, base \o s)
        text  == Resolve(files, base \o Text(s))
    IN  place = text \/ (place = Absent /\ ~IsDir(files, text))

\* Each .. follows a directory that the text before it names.
Upwards(files, base, s) ==
    \A i \in 1 .. Len(s) :
      LET before == SubSeq(s, 1, i - 1)
      IN  s[i] = Parent =>
            /\ IsDir(files, Resolve(files, base \o before))
            /\ Resolve(files, base \o before) = base \o Text(before)
            /\ base = <<>> \/ Text(before) # <<>>

\* Where the first names of a path are such a text, so are fewer of them.
LEMMA UpwardsBefore ==
    ASSUME NEW files, NEW base \in Seq(Name), NEW s \in Seq(Name), NEW x \in Name,
           Upwards(files, base, Append(s, x))
    PROVE  /\ Upwards(files, base, s)
           /\ x = Parent => /\ IsDir(files, Resolve(files, base \o s))
                            /\ Resolve(files, base \o s) = base \o Text(s)
                            /\ base = <<>> \/ Text(s) # <<>>
<1> DEFINE t == Append(s, x)
           n == Len(s)
<1>1. n \in Nat /\ Len(t) = n + 1 /\ t[n + 1] = x /\ \A i \in 1 .. n : t[i] = s[i]
  OBVIOUS
<1>2. \A i \in 1 .. n : SubSeq(t, 1, i - 1) = SubSeq(s, 1, i - 1)
  OBVIOUS
<1>3. SubSeq(t, 1, n) = s
  OBVIOUS
<1>4. Upwards(files, base, t)
  OBVIOUS
<1> HIDE DEF t
<1>5. \A i \in 1 .. n : i \in 1 .. (n + 1)
  BY <1>1
<1>6. n + 1 \in 1 .. (n + 1) /\ (n + 1) - 1 = n
  BY <1>1
<1> HIDE DEF n
<1>7. Upwards(files, base, s)
  <2> SUFFICES ASSUME NEW i \in 1 .. n, s[i] = Parent
               PROVE  LET before == SubSeq(s, 1, i - 1)
                      IN  /\ IsDir(files, Resolve(files, base \o before))
                          /\ Resolve(files, base \o before) = base \o Text(before)
                          /\ base = <<>> \/ Text(before) # <<>>
    BY DEF Upwards, n
  <2>1. t[i] = Parent /\ i \in 1 .. Len(t) /\ SubSeq(t, 1, i - 1) = SubSeq(s, 1, i - 1)
    BY <1>1, <1>2, <1>5
  <2> QED
    BY <1>4, <2>1 DEF Upwards
<1>8. ASSUME x = Parent
      PROVE  /\ IsDir(files, Resolve(files, base \o s))
             /\ Resolve(files, base \o s) = base \o Text(s)
             /\ base = <<>> \/ Text(s) # <<>>
  <2>1. t[n + 1] = Parent /\ n + 1 \in 1 .. Len(t) /\ SubSeq(t, 1, (n + 1) - 1) = s
    BY <1>1, <1>3, <1>6, <1>8
  <2> QED
    BY <1>4, <2>1 DEF Upwards
<1> QED
  BY <1>7, <1>8

\* A step keeps that, or goes up from a directory that the text names.
LEMMA AgreedOn ==
    ASSUME NEW files, Sound(files), NEW base \in Seq(Name), NEW s \in Seq(Name), NEW x \in Name,
           Agreed(files, base, s),
           x = Parent => /\ IsDir(files, Resolve(files, base \o s))
                         /\ Resolve(files, base \o s) = base \o Text(s)
                         /\ base = <<>> \/ Text(s) # <<>>
    PROVE  Agreed(files, base, Append(s, x))
<1> DEFINE place == Resolve(files, base \o s)
           left  == Text(s)
           text  == Resolve(files, base \o left)
           t     == Append(s, x)
           there == Resolve(files, base \o t)
           then  == Resolve(files, base \o Text(t))
<1>1. Tidy(files) /\ Parent # Current
  BY DEF Sound, Parent, Current
<1>2. left \in Seq(Name)
  BY TextTyped
<1> HIDE DEF left
<1>3. Text(t) = Onward(left, x)
  BY TextAppend DEF left
<1>4. there = Enter(files, place, x)
  <2> DEFINE from == base \o s
             to   == base \o t
  <2>1. from \in Seq(Name) /\ to = Append(from, x)
    OBVIOUS
  <2> HIDE DEF from, to
  <2>2. Resolve(files, to) = Enter(files, Resolve(files, from), x)
    BY <1>1, <2>1, ResolveAppend
  <2> QED
    BY <2>2 DEF from, to
<1>5. place = text \/ (place = Absent /\ ~IsDir(files, text))
  BY DEF Agreed, left
<1> HIDE DEF t
<1>6. ~IsDir(files, Absent)
  BY <1>1, AbsentHasNothing
<1>7. there = then \/ (there = Absent /\ ~IsDir(files, then))
  <2>1. CASE x = Current
    <3>1. Text(t) = left
      BY <1>1, <1>3, <2>1 DEF Onward
    <3>2. there = IF IsDir(files, place) THEN place ELSE Absent
      BY <1>1, <1>4, <2>1 DEF Enter
    <3> HIDE DEF there, place
    <3> QED
      BY <1>5, <3>1, <3>2
  <2>2. CASE x = Parent
    <3> DEFINE here == base \o left
    <3>1. IsDir(files, place) /\ place = here /\ (base = <<>> \/ left # <<>>)
      BY <2>2 DEF left
    <3>2. CASE left = <<>>
      <4>1. base = <<>> /\ here = <<>>
        BY <3>1, <3>2
      <4>2. there = <<>>
        BY <1>4, <2>2, <3>1, <4>1 DEF Enter
      <4>3. Text(t) = <<>>
        BY <1>1, <1>3, <2>2, <3>2 DEF Onward
      <4>4. base \o <<>> = <<>>
        BY <4>1
      <4>5. then = <<>>
        BY <1>1, <4>3, <4>4, ResolveEmpty
      <4> QED
        BY <4>2, <4>5
    <3>3. CASE left # <<>>
      <4>1. here # <<>> /\ Front(here) = base \o Front(left) /\ Front(here) \in Seq(Name)
        <5>1. Len(left) \in Nat /\ Len(left) # 0 /\ Len(base) \in Nat
          BY <1>2, <3>3
        <5>2. Len(here) = Len(base) + Len(left)
          BY <1>2
        <5>3. here # <<>>
          BY <5>1, <5>2
        <5>4. Front(here) = base \o Front(left)
          BY <1>2, <5>1, <5>2 DEF Front
        <5>5. Front(here) \in Seq(Name)
          BY <1>2, <5>1, <5>2 DEF Front
        <5> QED
          BY <5>3, <5>4, <5>5
      <4> HIDE DEF here
      <4>2. there = Front(here)
        BY <1>4, <2>2, <3>1, <4>1 DEF Enter
      <4>3. Text(t) = Front(left)
        BY <1>1, <1>3, <2>2, <3>3 DEF Onward
      <4>4. then = Resolve(files, Front(here))
        BY <4>1, <4>3
      <4>5. here \in DOMAIN files
        BY <3>1, <4>1 DEF IsDir
      <4>6. IsDir(files, Front(here))
        BY <4>5 DEF Sound
      <4>7. Direct(files, Front(here))
        BY <4>6 DEF IsDir, Direct
      <4>8. Resolve(files, Front(here)) = Front(here)
        BY <4>1, <4>7, DirectResolves
      <4> QED
        BY <4>2, <4>4, <4>8
    <3> QED
      BY <3>2, <3>3
  <2>3. CASE x # Parent /\ x # Current
    <3>1. Text(t) = Append(left, x)
      BY <1>3, <2>3 DEF Onward
    <3>2. then = Enter(files, text, x)
      <4> DEFINE from == base \o left
                 to   == base \o Append(left, x)
      <4>1. from \in Seq(Name) /\ to = Append(from, x)
        BY <1>2
      <4> HIDE DEF from, to
      <4>2. Resolve(files, to) = Enter(files, Resolve(files, from), x)
        BY <1>1, <4>1, ResolveAppend
      <4> QED
        BY <3>1, <4>2 DEF from, to
    <3>3. CASE place = text
      <4> HIDE DEF there, then, place, text
      <4> QED
        BY <1>4, <3>2, <3>3
    <3>4. CASE place = Absent /\ ~IsDir(files, text)
      <4> HIDE DEF there, then, place, text
      <4>1. there = Absent
        BY <1>4, <1>6, <3>4 DEF Enter
      <4>2. then = Absent
        BY <3>2, <3>4 DEF Enter
      <4> QED
        BY <4>1, <4>2
    <3> QED
      BY <1>5, <3>3, <3>4
  <2> QED
    BY <2>1, <2>2, <2>3
<1> QED
  BY <1>7 DEF Agreed, t

\* A text leads where it names, if each .. in it does so.
LEMMA TextAgrees ==
    ASSUME NEW files, Sound(files), NEW base \in Seq(Name), NEW names \in Seq(Name),
           Upwards(files, base, names)
    PROVE  Agreed(files, base, names)
<1> DEFINE G == {s \in Seq(Name) : Upwards(files, base, s) => Agreed(files, base, s)}
<1>1. <<>> \in G
  <2>1. Text(<<>>) = <<>> /\ <<>> \in Seq(Name)
    BY TextEmpty
  <2>2. Agreed(files, base, <<>>)
    BY <2>1 DEF Agreed
  <2> QED
    BY <2>1, <2>2
<1>2. ASSUME NEW t \in G \cap Seq(Name), NEW y \in Name
      PROVE  Append(t, y) \in G
  <2>1. Append(t, y) \in Seq(Name) /\ (Upwards(files, base, t) => Agreed(files, base, t))
    OBVIOUS
  <2>2. ASSUME Upwards(files, base, Append(t, y))
        PROVE  Agreed(files, base, Append(t, y))
    BY <2>1, <2>2, UpwardsBefore, AgreedOn
  <2> QED
    BY <2>1, <2>2
<1> HIDE DEF G
<1>3. names \in G
  BY <1>1, <1>2, AppendInduction
<1> QED
  BY <1>3 DEF G

\* What LandsWhereAsked says of a directory that was asked for.
Lands(asked, physical, to) ==
    /\ IsDirectory(tree, to)
    /\ {Parent, Current} \cap {to.names[i] : i \in DOMAIN to.names} = {}
    /\ physical => to.absolute /\ Place(tree, to) = to.names
    /\ physical \/ PlainUps(asked) => Place(tree, to) = Place(tree, asked)

\* Taking . and .. out of a path changes its names only.
LEMMA NormalizeIs ==
    ASSUME NEW path \in Path
    PROVE  /\ Normalize(path) \in Path /\ Normalize(path).absolute = path.absolute
           /\ Normalize(path).names = Text(path.names)
<1>1. Normalize(path) = [path EXCEPT !.names = Normalize(Relative(path.names)).names]
  BY DEF Normalize, Relative, Path
<1> DEFINE left == Text(path.names)
<1>2. Normalize(path) = [path EXCEPT !.names = left]
  BY <1>1 DEF Text
<1>3. left \in Seq(Name)
  <2>1. path.names \in Seq(Name)
    BY DEF Path
  <2> QED
    BY <2>1, TextTyped
<1> HIDE DEF left
<1>4. [path EXCEPT !.names = left] \in Path /\ [path EXCEPT !.names = left].absolute = path.absolute
      /\ [path EXCEPT !.names = left].names = left
  BY <1>3 DEF Path
<1> QED
  BY <1>2, <1>4 DEF left

\* Where a directory without . and .. in its text is, wherever it was asked for.
LEMMA LandsText ==
    ASSUME Sound(tree), NEW asked \in Path, IsDirectory(tree, Normalize(asked))
    PROVE  Lands(asked, FALSE, Normalize(asked))
<1> DEFINE to    == Normalize(asked)
           names == asked.names
           base  == IF asked.absolute THEN <<>> ELSE Started
<1>1. names \in Seq(Name) /\ base \in Seq(Name)
  BY PathsAssumption DEF Path
<1>2. to \in Path /\ to.absolute = asked.absolute /\ to.names = Text(names)
  BY NormalizeIs
<1>3. Text(names) \in Seq(Name)
  BY <1>1, TextTyped
<1>4. Tidy(tree) /\ ~IsDir(tree, Absent)
  BY AbsentHasNothing DEF Sound
<1>5. to # Empty /\ asked # Empty
  <2>1. Place(tree, to) # Absent
    BY <1>4 DEF IsDirectory
  <2>2. to # Empty
    <3> HIDE DEF to
    <3> QED
      BY <2>1 DEF Place, Empty, Relative
  <2>3. Text(<<>>) = <<>>
    BY TextEmpty
  <2>4. Place(tree, Empty) = Absent /\ Empty.absolute = FALSE /\ Empty.names = <<>>
    BY DEF Place, Empty, Relative
  <2>5. ASSUME asked = Empty
        PROVE  to = Empty
    <3>1. to.absolute = FALSE /\ to.names = <<>>
      BY <1>2, <2>3, <2>4, <2>5
    <3> HIDE DEF to
    <3> QED
      BY <1>2, <3>1 DEF Empty, Relative, Path
  <2> QED
    BY <2>2, <2>5
<1> HIDE DEF to, names
<1>6. \A path \in Path : path # Empty /\ path.absolute = asked.absolute =>
                           Place(tree, path) = Resolve(tree, base \o path.names)
  <2> SUFFICES ASSUME NEW path \in Path, path # Empty, path.absolute = asked.absolute
               PROVE  Place(tree, path) = Resolve(tree, base \o path.names)
    OBVIOUS
  <2>1. path.names \in Seq(Name)
    BY DEF Path
  <2>2. <<>> \o path.names = path.names
    BY <2>1
  <2> QED
    BY <2>2 DEF Place
<1>7. to \in Path
  BY <1>2
<1>8. Place(tree, to) = Resolve(tree, base \o Text(names)) /\ Place(tree, asked) = Resolve(tree, base \o names)
  BY <1>2, <1>5, <1>6, <1>7 DEF names
<1>9. ASSUME PlainUps(asked)
      PROVE  Upwards(tree, base, names)
  <2> SUFFICES ASSUME NEW i \in 1 .. Len(names), names[i] = Parent
               PROVE  LET before == SubSeq(names, 1, i - 1)
                      IN  /\ IsDir(tree, Resolve(tree, base \o before))
                          /\ Resolve(tree, base \o before) = base \o Text(before)
                          /\ base = <<>> \/ Text(before) # <<>>
    BY DEF Upwards
  <2> DEFINE before == SubSeq(names, 1, i - 1)
             path   == Before(asked, i)
  <2>1. before \in Seq(Name)
    BY <1>1
  <2>2. path \in Path /\ path.absolute = asked.absolute /\ path.names = before
    <3> HIDE DEF before
    <3>1. path = [asked EXCEPT !.names = before]
      BY DEF Before, names, before
    <3> HIDE DEF path
    <3> QED
      BY <2>1, <3>1 DEF Path
  <2>3. i \in DOMAIN asked.names /\ asked.names[i] = Parent
    BY <1>1 DEF names
  <2> HIDE DEF path, before
  <2>4. /\ IsDirectory(tree, path)
        /\ Place(tree, path) = Join(Absolute(Started), Normalize(path)).names
        /\ path.absolute \/ Normalize(path).names # <<>>
    BY <1>9, <2>2, <2>3 DEF PlainUps, path
  <2>5. Normalize(path).absolute = asked.absolute /\ Normalize(path).names = Text(before)
    BY <2>2, NormalizeIs
  <2>6. path # Empty
    <3>1. Place(tree, path) # Absent
      BY <1>4, <2>4 DEF IsDirectory
    <3> QED
      BY <3>1 DEF Place, Empty, Relative
  <2>7. Place(tree, path) = Resolve(tree, base \o before)
    BY <1>6, <2>1, <2>2, <2>6 DEF Path
  <2>8. Text(before) \in Seq(Name)
    BY <2>1, TextTyped
  <2>9. Join(Absolute(Started), Normalize(path)).names = base \o Text(before)
    <3>1. <<>> \o Text(before) = Text(before)
      BY <2>8
    <3> QED
      BY <2>5, <3>1 DEF Join, Absolute
  <2> QED
    BY <2>2, <2>4, <2>5, <2>7, <2>9 DEF IsDirectory, before
<1>10. ASSUME PlainUps(asked)
       PROVE  Place(tree, to) = Place(tree, asked)
  <2>1. Agreed(tree, base, names)
    BY <1>1, <1>9, <1>10, TextAgrees
  <2>2. IsDir(tree, Resolve(tree, base \o Text(names)))
    BY <1>8 DEF IsDirectory, to
  <2> HIDE DEF base
  <2> QED
    BY <1>8, <2>1, <2>2 DEF Agreed
<1>11. {Parent, Current} \cap {to.names[i] : i \in DOMAIN to.names} = {}
  <2>1. {Parent, Current} \cap ToSet(Text(names)) = {}
    BY <1>1, TextPlain
  <2> QED
    BY <1>2, <2>1 DEF ToSet
<1> QED
  BY <1>10, <1>11 DEF Lands, to

\* Where a directory without links in its path is, wherever it was asked for.
LEMMA LandsPlace ==
    ASSUME Sound(tree), NEW asked \in Path, IsDirectory(tree, Absolute(Place(tree, asked)))
    PROVE  Lands(asked, TRUE, Absolute(Place(tree, asked)))
<1> DEFINE place == Place(tree, asked)
           to    == Absolute(place)
<1>1. Tidy(tree) /\ ~IsDir(tree, Absent) /\ \A name : Enter(tree, Absent, name) = Absent
  BY AbsentHasNothing DEF Sound
<1>2. to.absolute /\ to.names = place
  BY DEF Absolute
<1>3. Place(tree, to) = Resolve(tree, place)
  BY <1>2 DEF Place
<1>4. Direct(tree, place) \/ place = Absent
  <2>1. asked.names \in Seq(Name) /\ Started \o asked.names \in Seq(Name)
    BY PathsAssumption DEF Path
  <2> QED
    BY <2>1, ResolvesDirect DEF Place
<1>5. place \in Seq(Name)
  BY <1>1, PlaceTyped
<1>6. place # Absent
  <2> SUFFICES ASSUME place = Absent
               PROVE  FALSE
    OBVIOUS
  <2> DEFINE none == <<>>
             name == <<>>
  <2>1. none \in Seq(Name) /\ name \in Name /\ Absent = Append(none, name)
    BY DEF Absent, Name
  <2>2. Absent \notin DOMAIN tree /\ Absent # <<>> /\ name # Parent /\ name # Current
    BY <1>1, AbsentHasNothing DEF Absent, Parent, Current
  <2> HIDE DEF none, name
  <2>3. Resolve(tree, none) = none /\ none = <<>>
    BY <1>1, ResolveEmpty DEF none
  <2>4. Resolve(tree, Absent) = Enter(tree, none, name)
    BY <1>1, <2>1, <2>3, ResolveAppend
  <2>5. Enter(tree, none, name) = Absent
    BY <2>1, <2>2, <2>3 DEF Enter, Known
  <2>6. Place(tree, to) = Absent
    BY <1>3, <2>4, <2>5
  <2> QED
    BY <1>1, <2>6 DEF IsDirectory
<1> HIDE DEF place
<1>7. Direct(tree, place)
  BY <1>4, <1>6
<1>8. Resolve(tree, place) = place /\ {Parent, Current} \cap ToSet(place) = {}
  BY <1>5, <1>7, DirectResolves
<1>9. {Parent, Current} \cap {to.names[i] : i \in DOMAIN to.names} = {}
  BY <1>2, <1>8 DEF ToSet
<1>10. Place(tree, to) = place
  BY <1>3, <1>8
<1>11. IsDirectory(tree, to)
  BY DEF place
<1> HIDE DEF to
<1>12. Lands(asked, TRUE, to)
  BY <1>2, <1>9, <1>10, <1>11 DEF Lands, place
<1> QED
  BY <1>12 DEF to, place

\* After cd the shell is where the operand leads: CdCommand, workingdir.rs:118.
THEOREM LandsThere ==
    ASSUME DirectoriesStay
    PROVE  Spec => []LandsWhereAsked
<1>1. Init => LandsWhereAsked /\ Steady
  BY DEF Init, LandsWhereAsked, Nothing, Steady
<1>2. ASSUME Types, JobIsFound, Steady, LandsWhereAsked, [Next]_vars
      PROVE  LandsWhereAsked'
  <2>1. ASSUME last'.kind # "cd"
        PROVE  LandsWhereAsked'
    BY <2>1 DEF LandsWhereAsked
  <2>2. CASE Cd
    <3>1. UNCHANGED tree
      BY <2>2 DEF Cd
    <3>2. CASE last' = Nothing
      BY <2>1, <3>2 DEF Nothing
    <3>3. CASE last' # Nothing
      <4>1. PICK asked \in Path, physical \in BOOLEAN :
              LET to == Canonicalize(tree, asked, physical)
              IN  /\ IsDirectory(tree, to) /\ cwd' = to
                  /\ last' = [kind |-> "cd", asked |-> asked, physical |-> physical]
        BY <1>2, <2>2, <3>3, CdGoes
      <4>2. Sound(tree)
        BY <1>2, SoundTree
      <4>3. Lands(asked, physical, cwd')
        <5>1. CASE physical = TRUE
          BY <4>1, <4>2, <5>1, LandsPlace DEF Canonicalize
        <5>2. CASE physical = FALSE
          BY <4>1, <4>2, <5>2, LandsText DEF Canonicalize
        <5> QED
          BY <5>1, <5>2
      <4>4. last'.kind = "cd" /\ last'.asked = asked /\ last'.physical = physical
        BY <4>1
      <4> QED
        BY <3>1, <4>3, <4>4 DEF LandsWhereAsked, Lands, PlainUps, IsDirectory, Place
    <3> QED
      BY <3>2, <3>3
  <2>3. CASE Export \/ UnsetVariable \/ EditPath \/ FixPath
    BY <2>1, <2>3 DEF Export, UnsetVariable, EditPath, FixPath, Nothing
  <2>4. CASE Search
    <3>1. last'.kind \in {"panic", "found"}
      BY <2>4 DEF Search
    <3> QED
      BY <2>1, <3>1
  <2>5. CASE Start
    <3>1. last'.kind \in {"started", "nothing"}
      BY <2>5 DEF Start, Nothing
    <3> QED
      BY <2>1, <3>1
  <2>6. CASE Change
    <3>1. last'.kind \in {"found", "nothing"}
      BY <1>2, <2>6 DEF Change, Nothing, JobIsFound
    <3> QED
      BY <2>1, <3>1
  <2>7. CASE Ended \/ UNCHANGED vars
    <3>1. last' = last /\ cwd' = cwd /\ tree' = tree
      BY <2>7 DEF Ended, vars
    <3> QED
      BY <1>2, <3>1 DEF LandsWhereAsked, PlainUps, IsDirectory, Place
  <2> QED
    BY <1>2, <2>2, <2>3, <2>4, <2>5, <2>6, <2>7 DEF Next
<1>3. Steady /\ [Next]_vars => Steady'
  BY SteadyStep
<1> QED
  BY <1>1, <1>2, <1>3, TypesInvariance, PTL DEF Spec

=============================================================================
