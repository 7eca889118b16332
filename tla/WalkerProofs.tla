---------------------------- MODULE WalkerProofs -----------------------------
(***************************************************************************)
(* Proofs about Walker: whatever others do to the files, nothing that was  *)
(* there all the time is found twice.                                      *)
(***************************************************************************)
EXTENDS Walker, InductionFacts, FiniteSetTheorems, SequenceTheorems, TLAPS

-----------------------------------------------------------------------------
(* Files.                                                                  *)

\* A step into a directory leads to a path.
LEMMA EnterTyped ==
    ASSUME NEW files, Tidy(files), NEW place \in Seq(Name), NEW name \in Name
    PROVE  Enter(files, place, name) \in Seq(Name)
<1>1. Absent \in Seq(Name) /\ <<>> \in Seq(Name)
  BY DEF Absent, Name
<1>2. Append(place, name) \in Seq(Name)
  OBVIOUS
<1>3. place # <<>> => Front(place) \in Seq(Name)
  BY DEF Front
<1>4. ASSUME NEW path \in DOMAIN files
      PROVE  files[path].to \in Seq(Name)
  BY DEF Tidy
<1> DEFINE child == Append(place, name)
<1>5. child # <<>>
  <2>1. Len(child) = Len(place) + 1 /\ Len(place) \in Nat
    OBVIOUS
  <2> QED
    BY <2>1
<1>6. CASE ~IsDir(files, place)
  BY <1>1, <1>6 DEF Enter
<1>7. CASE IsDir(files, place) /\ name = Parent
  BY <1>1, <1>3, <1>7 DEF Enter
<1>8. CASE IsDir(files, place) /\ name = Current /\ name # Parent
  BY <1>8 DEF Enter
<1>9. CASE IsDir(files, place) /\ name # Current /\ name # Parent
  <2>1. CASE ~Known(files, child)
    BY <1>1, <1>9, <2>1 DEF Enter
  <2>2. CASE Known(files, child)
    <3>1. child \in DOMAIN files /\ files[child].to \in Seq(Name)
      BY <1>4, <1>5, <2>2 DEF Known
    <3>2. Enter(files, place, name) \in {files[child].to, Absent, child}
      <4> HIDE DEF child
      <4>1. CASE files[child].kind = "link"
        BY <1>9, <2>2, <4>1 DEF Enter, child
      <4>2. CASE files[child].kind # "link"
        BY <1>9, <2>2, <4>2 DEF Enter, child
      <4> QED
        BY <4>1, <4>2
    <3> QED
      BY <1>1, <1>2, <3>1, <3>2
  <2> QED
    BY <2>1, <2>2
<1> QED
  BY <1>6, <1>7, <1>8, <1>9

\* Path lookup goes from name to name.
LEMMA ResolveSteps ==
    ASSUME NEW files, Tidy(files), NEW names \in Seq(Name)
    PROVE  \E at \in [0 .. Len(names) -> Seq(Name)] :
             /\ at[0] = <<>> /\ at[Len(names)] = Resolve(files, names)
             /\ \A i \in 1 .. Len(names) : at[i] = Enter(files, at[i - 1], names[i])
<1> DEFINE n == Len(names)
           S == Seq(Name)
           Turn == [p \in S \X (1 .. n) |-> Enter(files, p[1], names[p[2]])]
           Is(iter) == iter = [s \in SUBSET DOMAIN names |->
                                 IF s = {} THEN <<>>
                                 ELSE Enter(files, iter[s \ {Max(s)}], names[Max(s)])]
           iter == CHOOSE iter : Is(iter)
<1>1. n \in Nat /\ DOMAIN names = 1 .. n /\ (\A i \in 1 .. n : names[i] \in Name) /\ <<>> \in S
  OBVIOUS
<1>2. \A a \in S, i \in 1 .. n :
        Turn[a, i] = Enter(files, a, names[i]) /\ Turn[a, i] \in S
  BY <1>1, EnterTyped
<1>3. Turn \in [S \X (1 .. n) -> S]
  BY <1>1, EnterTyped
<1>4. Resolve(files, names) = iter[DOMAIN names]
  BY Zenon DEF Resolve, FoldLeft, MapThenFoldSet
<1>5. \A s \in SUBSET (1 .. n) : s # {} => Max(s) \in 1 .. n
  <2> HIDE DEF n
  <2> QED
    BY <1>1, MaxIsGreatest
<1>6. \E f : Is(f)
  <2>1. PICK g \in [SUBSET (1 .. n) -> S] : Folded(g, n, <<>>, Turn)
    <3> HIDE DEF n, S, Turn
    <3> QED
      BY <1>1, <1>3, FoldExists DEF Foldable
  <2>2. ASSUME NEW s \in SUBSET (1 .. n)
        PROVE  g[s] = IF s = {} THEN <<>> ELSE Enter(files, g[s \ {Max(s)}], names[Max(s)])
    <3> HIDE DEF n, S, Turn
    <3> QED
      BY <1>2, <1>5, <2>1 DEF Folded
  <2>3. Is(g)
    <3> HIDE DEF n, S, Turn
    <3> QED
      BY <1>1, <2>2
  <2> QED
    BY <2>3
<1>7. Is(iter)
  <2> HIDE DEF Is
  <2> QED
    BY <1>6
<1>8. ASSUME NEW s \in SUBSET (1 .. n)
      PROVE  iter[s] = IF s = {} THEN <<>> ELSE Enter(files, iter[s \ {Max(s)}], names[Max(s)])
  <2> HIDE DEF n, iter
  <2> QED
    BY <1>1, <1>7
<1> HIDE DEF iter, Is, Turn, n, S
<1>9. PICK at \in [0 .. n -> S] : Stepping(at, n, <<>>, iter[1 .. n], Turn)
  <2>1. Folding(iter, n, <<>>, S, Turn)
    BY <1>2, <1>5, <1>8 DEF Folding
  <2> QED
    BY <1>1, <1>3, <2>1, FoldsPrefixes
<1>10. \A i \in 1 .. n : at[i] = Enter(files, at[i - 1], names[i])
  <2>1. \A i \in 1 .. n : i - 1 \in 0 .. n
    BY <1>1
  <2> QED
    BY <1>2, <1>9, <2>1 DEF Stepping
<1> QED
  BY <1>1, <1>4, <1>9, <1>10 DEF n, S, Stepping

\* Where the names of a path lead, one after another.
ResolveRun(at, files, names) ==
    /\ at[0] = <<>> /\ at[Len(names)] = Resolve(files, names)
    /\ \A i \in 1 .. Len(names) : at[i] = Enter(files, at[i - 1], names[i])

\* Every path is gone along so.
LEMMA ResolveRuns ==
    ASSUME NEW files, Tidy(files), NEW names \in Seq(Name)
    PROVE  \E at : ResolveRun(at, files, names)
  BY ResolveSteps DEF ResolveRun

\* No names lead to the root.
LEMMA ResolveEmpty ==
    ASSUME NEW files, Tidy(files)
    PROVE  Resolve(files, <<>>) = <<>>
<1>1. <<>> \in Seq(Name) /\ Len(<<>>) = 0
  OBVIOUS
<1>2. PICK at : ResolveRun(at, files, <<>>)
  BY <1>1, ResolveRuns
<1> QED
  BY <1>1, <1>2 DEF ResolveRun

\* A further name is one step more.
LEMMA ResolveAppend ==
    ASSUME NEW files, Tidy(files), NEW s \in Seq(Name), NEW x \in Name
    PROVE  Resolve(files, Append(s, x)) = Enter(files, Resolve(files, s), x)
<1> DEFINE t == Append(s, x)
<1> DEFINE n == Len(s)
<1>1. n \in Nat /\ t \in Seq(Name) /\ Len(t) = n + 1 /\ t[n + 1] = x /\ \A i \in 1 .. n : t[i] = s[i]
  OBVIOUS
<1> HIDE DEF t
<1>2. PICK at : ResolveRun(at, files, t)
  BY <1>1, ResolveRuns
<1>3. PICK by : ResolveRun(by, files, s)
  BY ResolveRuns
<1> HIDE DEF n
<1> DEFINE T == {i \in 0 .. n : at[i] # by[i]}
<1>4. T = {}
  <2> SUFFICES ASSUME T # {}
               PROVE  FALSE
    OBVIOUS
  <2>1. T \in SUBSET Nat
    BY <1>1
  <2> HIDE DEF T
  <2>2. PICK i \in T : \A k \in T : i <= k
    BY <2>1, LeastNumber
  <2>3. i \in 0 .. n /\ at[i] # by[i] /\ i # 0
    BY <1>2, <1>3 DEF T, ResolveRun
  <2>4. i \in 1 .. n /\ i \in 1 .. (n + 1) /\ i - 1 \in 0 .. n /\ i - 1 \notin T
    BY <1>1, <2>2, <2>3
  <2>5. at[i - 1] = by[i - 1]
    BY <2>4 DEF T
  <2>6. at[i] = (Enter(files, at[i - 1], t[i])) /\ by[i] = (Enter(files, by[i - 1], s[i]))
    BY <1>1, <1>2, <1>3, <2>4 DEF ResolveRun, n
  <2> QED
    BY <1>1, <2>3, <2>4, <2>5, <2>6
<1>5. at[n] = by[n]
  <2>1. n \in 0 .. n
    BY <1>1
  <2> QED
    BY <1>4, <2>1
<1>6. n + 1 \in 1 .. (n + 1) /\ (n + 1) - 1 = n
  BY <1>1
<1>7. at[n + 1] = Enter(files, at[n], x)
  BY <1>1, <1>2, <1>6 DEF ResolveRun
<1>8. Resolve(files, t) = Enter(files, Resolve(files, s), x)
  BY <1>1, <1>2, <1>3, <1>5, <1>7 DEF ResolveRun, n
<1> QED
  BY <1>8 DEF t

\* What holds of the empty sequence, and of a longer one where it holds of its
\* front, holds of every sequence.
LEMMA AppendInduction ==
    ASSUME NEW E, NEW G, <<>> \in G, \A s \in G \cap Seq(E), x \in E : Append(s, x) \in G
    PROVE  \A s \in Seq(E) : s \in G
<1> DEFINE T == {Len(s) : s \in Seq(E) \ G}
<1> SUFFICES ASSUME NEW other \in Seq(E), other \notin G
             PROVE  FALSE
  OBVIOUS
<1>1. T \in SUBSET Nat
  OBVIOUS
<1>9. T # {} /\ \A m \in T : \E s \in Seq(E) \ G : m = Len(s)
  OBVIOUS
<1>2. \A s \in Seq(E) : Len(s) \notin T => s \in G
  OBVIOUS
<1> HIDE DEF T
<1>3. PICK m \in T : \A k \in T : m <= k
  BY <1>1, <1>9, LeastNumber
<1>4. PICK s \in Seq(E) \ G : m = Len(s)
  BY <1>9
<1>5. m \in Nat /\ m # 0
  <2>1. Len(s) = 0 => s = <<>>
    OBVIOUS
  <2> QED
    BY <1>4, <2>1
<1> DEFINE r == SubSeq(s, 1, m - 1)
<1>6. r \in Seq(E) /\ Len(r) = m - 1 /\ s[m] \in E
  <2>1. \A i \in 1 .. (m - 1) : s[i] \in E
    BY <1>4, <1>5
  <2> QED
    BY <1>4, <1>5, <2>1
<1>7. s = Append(r, s[m])
  BY <1>4, <1>5, <1>6
<1>8. Len(r) \notin T
  BY <1>3, <1>5, <1>6
<1> HIDE DEF r
<1> QED
  BY <1>2, <1>4, <1>6, <1>7, <1>8

\* An entry lies in a directory, and has a name of its own.
LEMMA EntryIsTidy ==
    ASSUME NEW files, Tidy(files), NEW path \in DOMAIN files
    PROVE  /\ path \in Seq(Name) /\ path # <<>> /\ IsName(Last(path)) /\ IsDir(files, Front(path))
           /\ files[path].kind \in {"file", "dir", "link"} /\ files[path].to \in Seq(Name)
  BY DEF Tidy, IsPath

\* A path is its front and its last name.
LEMMA FrontAndLast ==
    ASSUME NEW S, NEW path \in Seq(S), path # <<>>
    PROVE  /\ Front(path) \in Seq(S) /\ Last(path) \in S
           /\ path = Append(Front(path), Last(path)) /\ Len(path) = Len(Front(path)) + 1
<1>1. PICK n \in Nat : n = Len(path) /\ n # 0
  <2>1. Len(path) = 0 => path = <<>>
    OBVIOUS
  <2> QED
    BY <2>1
<1> DEFINE front == SubSeq(path, 1, n - 1)
<1>2. front \in Seq(S) /\ Len(front) = n - 1 /\ path[n] \in S
  <2>1. \A i \in 1 .. (n - 1) : path[i] \in S
    BY <1>1
  <2> QED
    BY <1>1, <2>1
<1>3. path = Append(front, path[n])
  BY <1>1, <1>2
<1>4. Front(path) = front /\ Last(path) = path[n]
  BY <1>1 DEF Front, Last
<1> HIDE DEF front
<1> QED
  BY <1>1, <1>2, <1>3, <1>4

\* One name more makes a path with that last name.
LEMMA AppendParts ==
    ASSUME NEW S, NEW path \in Seq(S), NEW name \in S
    PROVE  /\ Append(path, name) \in Seq(S) /\ Append(path, name) # <<>>
           /\ Front(Append(path, name)) = path /\ Last(Append(path, name)) = name
           /\ Len(Append(path, name)) = Len(path) + 1
<1> DEFINE t == Append(path, name)
<1>1. t \in Seq(S) /\ Len(t) = Len(path) + 1 /\ Len(path) \in Nat /\ t[Len(path) + 1] = name
      /\ \A i \in 1 .. Len(path) : t[i] = path[i]
  OBVIOUS
<1>2. t # <<>>
  BY <1>1
<1>3. Front(t) = path
  BY DEF Front
<1>4. Last(t) = name
  BY <1>1 DEF Last
<1> QED
  BY <1>1, <1>2, <1>3, <1>4

\* No entry is where a path leads that no entry has.
LEMMA AbsentHasNothing ==
    ASSUME NEW files, Tidy(files)
    PROVE  Absent \in Seq(Name) /\ Absent \notin DOMAIN files /\ Absent # <<>> /\ ~IsDir(files, Absent)
<1>1. Absent \in Seq(Name) /\ Absent # <<>> /\ Last(Absent) = <<>>
  BY DEF Absent, Name, Last
<1>2. Absent \notin DOMAIN files
  BY <1>1, EntryIsTidy DEF IsName
<1> QED
  BY <1>1, <1>2 DEF IsDir

\* A directory lists the names of its entries.
LEMMA NamesAre ==
    ASSUME NEW files, Tidy(files), NEW place \in Seq(Name), NEW name
    PROVE  name \in Names(files, place) <=> name \in Name /\ Append(place, name) \in DOMAIN files
<1>1. ASSUME name \in Names(files, place)
      PROVE  name \in Name /\ Append(place, name) \in DOMAIN files
  <2>1. PICK path \in DOMAIN files : Front(path) = place /\ name = Last(path)
    BY <1>1 DEF Names
  <2> QED
    BY <2>1, EntryIsTidy, FrontAndLast DEF IsName
<1>2. ASSUME name \in Name, Append(place, name) \in DOMAIN files
      PROVE  name \in Names(files, place)
  <2> DEFINE child == Append(place, name)
  <2>1. Front(child) = place /\ Last(child) = name
    BY <1>2, AppendParts
  <2> HIDE DEF child
  <2>2. child \in DOMAIN files
    BY <1>2 DEF child
  <2> QED
    BY <2>1, <2>2 DEF Names
<1> QED
  BY <1>1, <1>2

\* Only a directory lists names, and none of them is special.
LEMMA NamesLie ==
    ASSUME NEW files, Tidy(files), NEW place \in Seq(Name), NEW name \in Names(files, place)
    PROVE  IsDir(files, place) /\ IsName(name)
<1>1. PICK path \in DOMAIN files : Front(path) = place /\ name = Last(path)
  BY DEF Names
<1> QED
  BY <1>1, EntryIsTidy

\* One step goes on from a directory only.
LEMMA EnterFromDir ==
    ASSUME NEW files, NEW place, NEW name, Enter(files, place, name) # Absent
    PROVE  IsDir(files, place)
  BY DEF Enter

\* The step to an entry leads to it, or to where it leads.
LEMMA EnterEntry ==
    ASSUME NEW files, Tidy(files), NEW place \in Seq(Name), NEW name \in Names(files, place),
           NEW child, child = Append(place, name)
    PROVE  /\ child \in DOMAIN files
           /\ Enter(files, place, name) =
                IF files[child].kind # "link" THEN child
                ELSE IF Known(files, files[child].to) THEN files[child].to ELSE Absent
<1>1. IsDir(files, place) /\ IsName(name) /\ child \in DOMAIN files
  BY NamesAre, NamesLie
<1> QED
  BY <1>1 DEF Enter, IsName, Known

\* Where names lead is a place.
LEMMA ResolveTyped ==
    ASSUME NEW files, Tidy(files), NEW names \in Seq(Name)
    PROVE  Resolve(files, names) \in Seq(Name)
<1>1. Len(names) \in 0 .. Len(names)
  OBVIOUS
<1> QED
  BY <1>1, ResolveSteps

\* The promise sees the same files.
LEMMA SameFiles ==
    ASSUME NEW files, NEW path, NEW place
    PROVE  /\ Promise!Coded!Resolve(files, path) = Resolve(files, path)
           /\ Promise!Coded!Names(files, place) = Names(files, place)
           /\ Promise!Coded!KindAt(files, path) = files[path].kind
           /\ Promise!Coded!Absent = Absent /\ Promise!Coded!Parent = Parent
<1>1. Promise!Coded!Resolve(files, path) = Resolve(files, path)
  BY Zenon DEF Promise!Coded!Resolve, Resolve, Promise!Coded!FoldLeft, FoldLeft,
        Promise!Coded!MapThenFoldSet, MapThenFoldSet,
       Promise!Coded!Enter, Enter, Promise!Coded!IsDir, IsDir, Promise!Coded!Known, Known,
        Promise!Coded!Front, Front, Promise!Coded!Absent, Absent,
       Promise!Coded!Parent, Parent, Promise!Coded!Current, Current, Promise!Coded!Max, Max
<1>2. Promise!Coded!Names(files, place) = Names(files, place)
  BY Zenon DEF Promise!Coded!Names, Names, Promise!Coded!Front, Front, Promise!Coded!Last, Last
<1> QED
  BY <1>1, <1>2 DEF Promise!Coded!KindAt, KindAt, Promise!Coded!Absent, Absent, Promise!Coded!Parent, Parent

\* A path below a directory leads to a place, and one name more a step further.
LEMMA SpotSteps ==
    ASSUME NEW files, Tidy(files), NEW base \in Seq(Name), NEW path \in Seq(Name)
    PROVE  /\ Promise!Coded!Spot(files, base, path) \in Seq(Name)
           /\ Promise!Coded!Spot(files, base, <<>>) = Resolve(files, base)
           /\ \A name \in Name : Promise!Coded!Spot(files, base, Append(path, name)) =
                                   Enter(files, Promise!Coded!Spot(files, base, path), name)
<1>1. base \o path \in Seq(Name) /\ base \o <<>> = base
  OBVIOUS
<1>2. ASSUME NEW name \in Name
      PROVE  Resolve(files, base \o Append(path, name)) = Enter(files, Resolve(files, base \o path), name)
  <2> DEFINE full == base \o path
  <2>1. base \o Append(path, name) = Append(full, name)
    OBVIOUS
  <2> HIDE DEF full
  <2>2. full \in Seq(Name)
    BY <1>1 DEF full
  <2>3. Resolve(files, Append(full, name)) = Enter(files, Resolve(files, full), name)
    BY <2>2, ResolveAppend
  <2> QED
    BY <2>1, <2>3 DEF full
<1>3. Resolve(files, base \o path) \in Seq(Name)
  BY <1>1, ResolveTyped
<1> QED
  BY <1>1, <1>2, <1>3, SameFiles DEF Promise!Coded!Spot

\* A walk that starts further down sees the same places.
LEMMA SpotFurther ==
    ASSUME NEW files, NEW base \in Seq(Name), NEW dir \in Seq(Name), NEW path \in Seq(Name)
    PROVE  Promise!Coded!Spot(files, base \o dir, path) = Promise!Coded!Spot(files, base, dir \o path)
<1>1. (base \o dir) \o path = base \o (dir \o path)
  OBVIOUS
<1> QED
  BY <1>1 DEF Promise!Coded!Spot

-----------------------------------------------------------------------------
(* What others change.                                                     *)

\* The directories and the links of a tree are in another one too.
Kept(files, other) ==
    \A path \in DOMAIN files : files[path].kind # "file" => path \in DOMAIN other /\ other[path] = files[path]

\* One step that leads to a directory still does.
LEMMA EnterKept ==
    ASSUME NEW files, Tidy(files), NEW other, Tidy(other), Kept(files, other), Kept(other, files),
           NEW place \in Seq(Name), NEW name \in Name, IsDir(files, Enter(files, place, name))
    PROVE  Enter(other, place, name) = Enter(files, place, name)
<1> DEFINE child == Append(place, name)
<1>1. child # <<>> /\ child \in Seq(Name)
  BY AppendParts
<1>2. \A path : IsDir(files, path) <=> IsDir(other, path)
  BY DEF Kept, IsDir
<1>3. Enter(files, place, name) # Absent
  BY AbsentHasNothing
<1>4. IsDir(files, place) /\ IsDir(other, place)
  BY <1>2, <1>3, EnterFromDir
<1>5. CASE name \in {Parent, Current}
  BY <1>4, <1>5 DEF Enter
<1>6. CASE name \notin {Parent, Current}
  <2> HIDE DEF child
  <2>1. child \in DOMAIN files
    BY <1>1, <1>3, <1>6 DEF Enter, Known, child
  <2>2. CASE files[child].kind = "file"
    <3>1. Enter(files, place, name) = child
      BY <1>4, <1>6, <2>1, <2>2 DEF Enter, Known, child
    <3> QED
      BY <1>1, <2>2, <3>1 DEF IsDir
  <2>3. CASE files[child].kind # "file"
    <3>1. child \in DOMAIN other /\ other[child] = files[child]
      BY <2>1, <2>3 DEF Kept
    <3>2. CASE files[child].kind # "link"
      BY <1>4, <1>6, <2>1, <3>1, <3>2 DEF Enter, Known, child
    <3>3. CASE files[child].kind = "link"
      <4> DEFINE to == files[child].to
      <4>1. Known(files, to) /\ Enter(files, place, name) = to
        BY <1>3, <1>4, <1>6, <2>1, <3>3 DEF Enter, Known, child
      <4>2. IsDir(other, to)
        BY <1>2, <4>1
      <4>3. Known(other, to)
        BY <4>2 DEF IsDir, Known
      <4> QED
        BY <1>4, <1>6, <3>1, <3>3, <4>1, <4>3 DEF Enter, Known, child
    <3> QED
      BY <3>2, <3>3
  <2> QED
    BY <2>2, <2>3
<1> QED
  BY <1>5, <1>6

\* A path that leads to a directory still leads there.
LEMMA ResolveKept ==
    ASSUME NEW files, Tidy(files), NEW other, Tidy(other), Kept(files, other), Kept(other, files),
           NEW names \in Seq(Name), IsDir(files, Resolve(files, names))
    PROVE  Resolve(other, names) = Resolve(files, names)
<1> DEFINE G == {s \in Seq(Name) : IsDir(files, Resolve(files, s)) => Resolve(other, s) = Resolve(files, s)}
<1>1. <<>> \in G
  BY ResolveEmpty
<1>2. ASSUME NEW s \in G \cap Seq(Name), NEW x \in Name
      PROVE  Append(s, x) \in G
  <2> DEFINE t == Append(s, x)
  <2>1. t \in Seq(Name) /\ s \in Seq(Name)
    OBVIOUS
  <2>2. Resolve(files, t) = Enter(files, Resolve(files, s), x)
    BY ResolveAppend
  <2>3. Resolve(other, t) = Enter(other, Resolve(other, s), x)
    BY ResolveAppend
  <2>4. Resolve(files, s) \in Seq(Name)
    BY ResolveTyped
  <2> HIDE DEF t
  <2>5. ASSUME IsDir(files, Resolve(files, t))
        PROVE  Resolve(other, t) = Resolve(files, t)
    <3>1. IsDir(files, Resolve(files, s))
      BY <2>2, <2>5, AbsentHasNothing, EnterFromDir
    <3>2. Resolve(other, s) = Resolve(files, s)
      BY <3>1
    <3> QED
      BY <2>2, <2>3, <2>4, <2>5, <3>2, EnterKept
  <2>6. t \in G
    BY <2>1, <2>5
  <2> QED
    BY <2>6 DEF t
<1> HIDE DEF G
<1>3. \A s \in Seq(Name) : s \in G
  BY <1>1, <1>2, AppendInduction
<1> QED
  BY <1>3 DEF G

-----------------------------------------------------------------------------
(* Paths, name by name.                                                    *)

\* The first so many names of a path.
Upto(path, n) == SubSeq(path, 1, n)

\* They are a path, and one name more is the next.
LEMMA UptoSteps ==
    ASSUME NEW S, NEW path \in Seq(S), NEW n \in 0 .. Len(path)
    PROVE  /\ Upto(path, n) \in Seq(S) /\ Len(Upto(path, n)) = n
           /\ \A i \in 1 .. n : Upto(path, n)[i] = path[i]
           /\ Upto(path, 0) = <<>> /\ Upto(path, Len(path)) = path
           /\ n # 0 => path[n] \in S /\ Upto(path, n) = Append(Upto(path, n - 1), path[n])
           /\ \A m \in 0 .. n : Upto(Upto(path, n), m) = Upto(path, m)
<1>0. n \in Nat /\ Len(path) \in Nat /\ n <= Len(path)
  OBVIOUS
<1>1. \A i \in 1 .. n : path[i] \in S
  BY <1>0
<1>2. Upto(path, n) \in Seq(S) /\ Len(Upto(path, n)) = n /\ \A i \in 1 .. n : Upto(path, n)[i] = path[i]
  BY <1>0, <1>1 DEF Upto
<1>3. Upto(path, 0) = <<>> /\ Upto(path, Len(path)) = path
  BY <1>0 DEF Upto
<1>4. ASSUME n # 0
      PROVE  path[n] \in S /\ Upto(path, n) = Append(Upto(path, n - 1), path[n])
  <2>1. \A i \in 1 .. (n - 1) : path[i] \in S
    BY <1>0, <1>1
  <2>2. path[n] \in S
    BY <1>0, <1>1, <1>4
  <2> QED
    BY <1>0, <1>4, <2>1, <2>2 DEF Upto
<1>5. ASSUME NEW m \in 0 .. n
      PROVE  Upto(Upto(path, n), m) = Upto(path, m)
  BY <1>0, <1>1, <1>5 DEF Upto
<1> QED
  BY <1>2, <1>3, <1>4, <1>5

\* The paths that go on, a name at a time: go gives the names at each level.
Levels(at, n, go) ==
    /\ at \in [0 .. n -> SUBSET Seq(Name)] /\ go \in [(1 .. n) \X Seq(Name) -> SUBSET Name]
    /\ at[0] = {<<>>}
    /\ \A k \in 1 .. n : at[k] = UNION {{Append(path, name) : name \in go[k, path]} : path \in at[k - 1]}

\* Every name of a path is one that goes on from those before it.
GoesOn(path, go) == \A k \in 1 .. Len(path) : path[k] \in go[k, Upto(path, k - 1)]

\* A path is of the nth level if it has n names, and each of them goes on.
LEMMA LevelsAre ==
    ASSUME NEW n \in Nat, NEW at, NEW go, Levels(at, n, go), NEW m \in 0 .. n, NEW path \in Seq(Name)
    PROVE  path \in at[m] <=> Len(path) = m /\ GoesOn(path, go)
<1> DEFINE Right(i) == \A p \in Seq(Name) : p \in at[i] <=> Len(p) = i /\ GoesOn(p, go)
           T == {i \in 0 .. n : ~Right(i)}
<1>1. Right(0)
  <2>1. \A p \in Seq(Name) : Len(p) = 0 <=> p = <<>>
    OBVIOUS
  <2>2. \A p \in Seq(Name) : Len(p) = 0 => GoesOn(p, go)
    <3> SUFFICES ASSUME NEW p \in Seq(Name), Len(p) = 0
                 PROVE  GoesOn(p, go)
      OBVIOUS
    <3>1. 1 .. Len(p) = {}
      OBVIOUS
    <3> QED
      BY <3>1 DEF GoesOn
  <2>3. at[0] = {<<>>}
    BY DEF Levels
  <2> QED
    BY <2>1, <2>2, <2>3
<1>2. ASSUME NEW i \in 1 .. n, Right(i - 1)
      PROVE  Right(i)
  <2> SUFFICES ASSUME NEW p \in Seq(Name)
               PROVE  p \in at[i] <=> Len(p) = i /\ GoesOn(p, go)
    OBVIOUS
  <2>0. i \in Nat /\ i # 0 /\ Len(p) \in Nat /\ i - 1 \in 0 .. n
    OBVIOUS
  <2>1. ASSUME NEW q \in at[i - 1], NEW name \in go[i, q]
        PROVE  q \in Seq(Name) /\ name \in Name
    BY <2>0, <2>1 DEF Levels
  <2>2. p \in at[i] <=> \E q \in at[i - 1] : \E name \in go[i, q] : p = Append(q, name)
    <3> DEFINE Ahead(q) == {Append(q, name) : name \in go[i, q]}
    <3>1. at[i] = UNION {Ahead(q) : q \in at[i - 1]}
      BY DEF Levels
    <3>2. \A q : p \in Ahead(q) <=> \E name \in go[i, q] : p = Append(q, name)
      OBVIOUS
    <3> HIDE DEF Ahead
    <3>3. p \in at[i] <=> \E q \in at[i - 1] : p \in Ahead(q)
      BY <3>1
    <3> QED
      BY <3>2, <3>3
  <2>3. CASE Len(p) = 0
    <3>1. p = <<>>
      BY <2>3
    <3>2. \A q \in Seq(Name), name \in Name : Append(q, name) # <<>>
      BY AppendParts
    <3> QED
      BY <2>0, <2>1, <2>2, <2>3, <3>1, <3>2
  <2>4. CASE Len(p) # 0
    <3> DEFINE q == Upto(p, Len(p) - 1)
               name == p[Len(p)]
    <3>1. q \in Seq(Name) /\ Len(q) = Len(p) - 1 /\ name \in Name /\ p = Append(q, name)
      <4>1. Len(p) \in 0 .. Len(p) /\ Len(p) - 1 \in 0 .. Len(p)
        BY <2>0, <2>4
      <4>2. Upto(p, Len(p)) = p
        BY <4>1, UptoSteps
      <4>3. Upto(p, Len(p)) = Append(q, name) /\ name \in Name
        BY <2>4, <4>1, UptoSteps
      <4> QED
        BY <4>1, <4>2, <4>3, UptoSteps
    <3>2. \A k \in 1 .. (Len(p) - 1) : q[k] = p[k] /\ Upto(q, k - 1) = Upto(p, k - 1)
      <4>1. Len(p) - 1 \in 0 .. Len(p) /\ \A k \in 1 .. (Len(p) - 1) : k - 1 \in 0 .. (Len(p) - 1)
        BY <2>0, <2>4
      <4> QED
        BY <4>1, UptoSteps
    <3>3. p[Len(p)] = name /\ Upto(p, Len(p) - 1) = q
      OBVIOUS
    <3> HIDE DEF q, name
    <3>4. GoesOn(p, go) <=> GoesOn(q, go) /\ name \in go[Len(p), q]
      <4>1. \A k \in 1 .. Len(p) : k \in 1 .. Len(q) \/ k = Len(p)
        BY <2>0, <2>4, <3>1
      <4>2. \A k \in 1 .. Len(q) : k \in 1 .. Len(p)
        BY <2>0, <2>4, <3>1
      <4>3. Len(p) \in 1 .. Len(p)
        BY <2>0, <2>4
      <4>4. \A k \in 1 .. Len(q) : p[k] \in go[k, Upto(p, k - 1)] <=> q[k] \in go[k, Upto(q, k - 1)]
        BY <3>1, <3>2
      <4> QED
        BY <3>3, <4>1, <4>2, <4>3, <4>4 DEF GoesOn
    <3>5. p \in at[i] <=> q \in at[i - 1] /\ name \in go[i, q]
      <4>1. ASSUME NEW r \in at[i - 1], NEW other \in go[i, r], p = Append(r, other)
            PROVE  r = q /\ other = name
        <5>1. r \in Seq(Name) /\ other \in Name
          BY <2>1, <4>1
        <5>2. Front(p) = q /\ Last(p) = name
          BY <3>1, AppendParts
        <5>3. Front(p) = r /\ Last(p) = other
          BY <4>1, <5>1, AppendParts
        <5> QED
          BY <5>2, <5>3
      <4> QED
        BY <2>2, <3>1, <4>1
    <3>6. q \in at[i - 1] <=> Len(q) = i - 1 /\ GoesOn(q, go)
      BY <1>2, <3>1
    <3>7. Len(q) = i - 1 <=> Len(p) = i
      BY <2>0, <3>1
    <3> QED
      BY <3>4, <3>5, <3>6, <3>7
  <2> QED
    BY <2>3, <2>4
<1>3. T = {}
  <2> SUFFICES ASSUME T # {}
               PROVE  FALSE
    OBVIOUS
  <2> HIDE DEF Right
  <2>1. T \in SUBSET Nat
    OBVIOUS
  <2> HIDE DEF T
  <2>2. PICK i \in T : \A k \in T : i <= k
    BY <2>1, LeastNumber
  <2>3. i \in 0 .. n /\ ~Right(i) /\ i # 0
    BY <1>1, <2>2 DEF T
  <2>4. i \in 1 .. n /\ i - 1 \in 0 .. n /\ i - 1 \notin T
    BY <2>2, <2>3
  <2>5. Right(i - 1)
    BY <2>4 DEF T
  <2> QED
    BY <1>2, <2>3, <2>4, <2>5
<1> QED
  BY <1>3

-----------------------------------------------------------------------------
(* The paths that a pattern's components lead to.                          *)

\* The patterns that a walk begins with.
Readable(pattern) == pattern \in Wanted /\ ~Refused(Components(pattern))

\* The names that a component goes on with, and the paths a level further down.
Onward(files, pattern, k, path) ==
    IF Promise!Coded!AsWritten(pattern.components[k]) THEN {Promise!Coded!Written(pattern.components[k])}
    ELSE Promise!Coded!Fitting(files, pattern, pattern.components[k], path)
Further(files, pattern, k, paths) ==
    UNION {{Append(path, name) : name \in Onward(files, pattern, k, path)} : path \in paths}

\* A pattern has components, and starts in a directory.
LEMMA PatternTyped ==
    ASSUME PatternsAreRead, NEW pattern, Readable(pattern)
    PROVE  /\ Len(pattern.components) \in Nat \ {0} /\ DOMAIN pattern.components = 1 .. Len(pattern.components)
           /\ pattern.absolute \in BOOLEAN /\ Home \in Seq(Name) /\ Promise!Coded!Base(pattern) \in Seq(Name)
           /\ \A k \in 1 .. Len(pattern.components) :
                Promise!Coded!AsWritten(pattern.components[k]) => Promise!Coded!Written(pattern.components[k]) \in Name
<1> DEFINE all == pattern.components
<1>1. pattern.absolute \in BOOLEAN /\ all \in Seq(ToSet(all)) /\ all # <<>> /\ Home \in Seq(Name)
  BY WalkerAssumption DEF Readable
<1>2. Promise!Coded!Base(pattern) \in Seq(Name)
  BY <1>1 DEF Promise!Coded!Base
<1>3. \A k \in DOMAIN all : Promise!Coded!AsWritten(all[k]) => Promise!Coded!Written(all[k]) \in Name
  BY DEF Readable, PatternsAreRead
<1> HIDE DEF all
<1>4. Len(all) \in Nat /\ DOMAIN all = 1 .. Len(all) /\ Len(all) # 0
  <2>1. Len(all) = 0 => all = <<>>
    BY <1>1
  <2> QED
    BY <1>1, <2>1
<1> QED
  BY <1>1, <1>2, <1>3, <1>4 DEF all

\* A level further down there are paths.
LEMMA FurtherTyped ==
    ASSUME PatternsAreRead, NEW pattern, Readable(pattern), NEW files, Tidy(files),
           NEW k \in 1 .. Len(pattern.components), NEW paths \in SUBSET Seq(Name)
    PROVE  /\ Further(files, pattern, k, paths) \in SUBSET Seq(Name)
           /\ \A path \in paths : Onward(files, pattern, k, path) \in SUBSET Name
<1>1. ASSUME NEW path \in paths
      PROVE  Onward(files, pattern, k, path) \in SUBSET Name
  <2>1. Promise!Coded!Spot(files, Promise!Coded!Base(pattern), path) \in Seq(Name)
    BY PatternTyped, SpotSteps
  <2>2. Names(files, Promise!Coded!Spot(files, Promise!Coded!Base(pattern), path)) \in SUBSET Name
    BY <2>1, NamesLie DEF IsName
  <2>3. Promise!Coded!Fitting(files, pattern, pattern.components[k], path) \in SUBSET Name
    BY <2>2, SameFiles DEF Promise!Coded!Fitting
  <2> QED
    BY <2>3, PatternTyped DEF Onward
<1>2. ASSUME NEW path \in paths, NEW name \in Onward(files, pattern, k, path)
      PROVE  Append(path, name) \in Seq(Name)
  BY <1>1, <1>2
<1> QED
  BY <1>1, <1>2 DEF Further

\* The levels, one after another, down to the nth.
LevelRun(at, files, pattern, n) ==
    /\ at \in [0 .. n -> SUBSET Seq(Name)]
    /\ at[0] = {<<>>} /\ at[n] = Promise!Coded!Reached(files, pattern, n)
    /\ \A k \in 1 .. n : at[k] = Further(files, pattern, k, at[k - 1])

\* Reached goes down so.
LEMMA ReachedRuns ==
    ASSUME PatternsAreRead, NEW pattern, Readable(pattern), NEW files, Tidy(files),
           NEW n \in 0 .. Len(pattern.components)
    PROVE  \E at : LevelRun(at, files, pattern, n)
<1> DEFINE S == SUBSET Seq(Name)
           Turn == [p \in S \X (1 .. n) |-> Further(files, pattern, p[2], p[1])]
           Is(f) == f = [k \in 0 .. n |-> IF k = 0 THEN {<<>>} ELSE Further(files, pattern, k, f[k - 1])]
           f == CHOOSE f : Is(f)
<1>1. n \in Nat /\ \A k \in 1 .. n : k \in 1 .. Len(pattern.components)
  BY PatternTyped
<1>2. {<<>>} \in S
  OBVIOUS
<1>3. \A a \in S, i \in 1 .. n : Turn[a, i] = Further(files, pattern, i, a) /\ Turn[a, i] \in S
  BY <1>1, FurtherTyped
<1>4. Turn \in [S \X (1 .. n) -> S]
  BY <1>1, FurtherTyped
<1>5. Promise!Coded!Reached(files, pattern, n) = f[n]
  BY Zenon DEF Promise!Coded!Reached, Further, Onward
<1> HIDE DEF S, Turn
<1>13. PICK at \in [0 .. n -> S] : StepsFrom(at, n, {<<>>}, Turn)
  BY <1>1, <1>2, <1>4, StepsExist
<1>6. at[0] = {<<>>} /\ \A i \in 1 .. n : at[i] = Turn[at[i - 1], i]
  BY <1>13 DEF StepsFrom
<1>7. ASSUME NEW i \in 1 .. n
      PROVE  at[i] = Further(files, pattern, i, at[i - 1])
  <2>1. i - 1 \in 0 .. n
    BY <1>1
  <2>2. at[i - 1] \in S
    BY <2>1
  <2> QED
    BY <1>3, <1>6, <2>2
<1>8. Is(at)
  <2>1. \A k \in 0 .. n : at[k] = IF k = 0 THEN {<<>>} ELSE Further(files, pattern, k, at[k - 1])
    <3>1. \A k \in 0 .. n : k = 0 \/ k \in 1 .. n
      BY <1>1
    <3>2. \A k \in 1 .. n : k # 0
      BY <1>1
    <3> QED
      BY <1>6, <1>7, <3>1, <3>2
  <2> QED
    BY <2>1, <1>13
<1>9. Is(f)
  <2> HIDE DEF Is
  <2> QED
    BY <1>8
<1>10. \A k \in 0 .. n : f[k] = IF k = 0 THEN {<<>>} ELSE Further(files, pattern, k, f[k - 1])
  <2> HIDE DEF f
  <2> QED
    BY <1>9
<1> HIDE DEF f, Is
<1> DEFINE T == {k \in 0 .. n : f[k] # at[k]}
<1>11. T = {}
  <2> SUFFICES ASSUME T # {}
               PROVE  FALSE
    OBVIOUS
  <2>1. T \in SUBSET Nat
    BY <1>1
  <2> HIDE DEF T
  <2>2. PICK k \in T : \A i \in T : k <= i
    BY <2>1, LeastNumber
  <2>3. k \in 0 .. n /\ f[k] # at[k] /\ k # 0
    BY <1>1, <1>6, <1>10 DEF T
  <2>4. k \in 1 .. n /\ k - 1 \in 0 .. n /\ k - 1 \notin T
    BY <1>1, <2>2, <2>3
  <2>5. f[k - 1] = at[k - 1]
    BY <2>4 DEF T
  <2> QED
    BY <1>7, <1>10, <2>3, <2>4, <2>5
<1>12. f[n] = at[n]
  <2>1. n \in 0 .. n
    BY <1>1
  <2> QED
    BY <1>11, <2>1
<1> QED
  BY <1>5, <1>6, <1>7, <1>12, <1>13 DEF LevelRun, S

\* The paths that so many components lead to are those of as many names, each of which
\* is what its component asks for.
LEMMA ReachedAre ==
    ASSUME PatternsAreRead, NEW pattern, Readable(pattern), NEW files, Tidy(files),
           NEW n \in 0 .. Len(pattern.components), NEW path \in Seq(Name)
    PROVE  /\ Promise!Coded!Reached(files, pattern, n) \in SUBSET Seq(Name)
           /\ path \in Promise!Coded!Reached(files, pattern, n) <=>
                Len(path) = n /\ \A k \in 1 .. n : path[k] \in Onward(files, pattern, k, Upto(path, k - 1))
<1> DEFINE go == [q \in (1 .. n) \X Seq(Name) |-> Onward(files, pattern, q[1], q[2])]
<1>1. n \in Nat /\ n \in 0 .. n /\ \A k \in 1 .. n : k \in 1 .. Len(pattern.components)
  BY PatternTyped
<1>2. PICK at : LevelRun(at, files, pattern, n)
  BY ReachedRuns
<1>3. \A k \in 1 .. n, p \in Seq(Name) :
        go[k, p] = Onward(files, pattern, k, p) /\ Onward(files, pattern, k, p) \in SUBSET Name
  BY <1>1, FurtherTyped
<1>4. go \in [(1 .. n) \X Seq(Name) -> SUBSET Name]
  BY <1>3
<1> HIDE DEF go
<1>5. ASSUME NEW k \in 1 .. n
      PROVE  at[k] = UNION {{Append(p, name) : name \in go[k, p]} : p \in at[k - 1]}
  <2>1. k - 1 \in 0 .. n
    BY <1>1
  <2>2. at[k - 1] \in SUBSET Seq(Name)
    BY <1>2, <2>1 DEF LevelRun
  <2>3. \A p \in at[k - 1] : go[k, p] = Onward(files, pattern, k, p)
    BY <1>3, <2>2
  <2>4. at[k] = Further(files, pattern, k, at[k - 1])
    BY <1>2 DEF LevelRun
  <2> DEFINE Ways(p) == {Append(p, name) : name \in Onward(files, pattern, k, p)}
             Other(p) == {Append(p, name) : name \in go[k, p]}
  <2>5. at[k] = UNION {Ways(p) : p \in at[k - 1]}
    BY <2>4 DEF Further
  <2>6. \A p \in at[k - 1] : Ways(p) = Other(p)
    BY <2>3
  <2>7. UNION {Ways(p) : p \in at[k - 1]} = UNION {Other(p) : p \in at[k - 1]}
    <3> HIDE DEF Ways, Other
    <3> QED
      BY <2>6
  <2> QED
    BY <2>5, <2>7
<1>6. Levels(at, n, go)
  BY <1>2, <1>4, <1>5 DEF Levels, LevelRun
<1>7. path \in at[n] <=> Len(path) = n /\ GoesOn(path, go)
  BY <1>1, <1>6, LevelsAre
<1>8. at[n] = Promise!Coded!Reached(files, pattern, n) /\ at[n] \in SUBSET Seq(Name)
  BY <1>1, <1>2 DEF LevelRun
<1>9. ASSUME Len(path) = n
      PROVE  GoesOn(path, go) <=> \A k \in 1 .. n : path[k] \in Onward(files, pattern, k, Upto(path, k - 1))
  <2>1. ASSUME NEW k \in 1 .. n
        PROVE  Upto(path, k - 1) \in Seq(Name)
    <3>1. k - 1 \in 0 .. Len(path)
      BY <1>1, <1>9
    <3> QED
      BY <3>1, UptoSteps
  <2> QED
    BY <1>3, <1>9, <2>1 DEF GoesOn
<1> QED
  BY <1>7, <1>8, <1>9

-----------------------------------------------------------------------------
(* The paths below a directory.                                            *)

Most(files) == (Cardinality(DOMAIN files) + 1) * (Cardinality(DOMAIN files) + 1)

Deeper(files, base, paths) ==
    UNION {{Append(path, name) : name \in Promise!Coded!On(files, base, path)} : path \in paths}

\* The walk goes on with names.
LEMMA OnTyped ==
    ASSUME NEW files, Tidy(files), NEW base \in Seq(Name), NEW path \in Seq(Name)
    PROVE  Promise!Coded!On(files, base, path) \in SUBSET Name
<1>1. Promise!Coded!Spot(files, base, path) \in Seq(Name)
  BY SpotSteps
<1>2. Names(files, Promise!Coded!Spot(files, base, path)) \in SUBSET Name
  BY <1>1, NamesLie DEF IsName
<1> QED
  BY <1>2, SameFiles DEF Promise!Coded!On

\* The levels of a walk, and the first that is empty, or any if none is.
Depths(files, base) ==
    [q \in (1 .. Most(files)) \X Seq(Name) |-> Promise!Coded!On(files, base, q[2])]
Deep(at, files, base) ==
    /\ Most(files) \in Nat
    /\ Levels(at, Most(files), Depths(files, base))
    /\ Promise!Coded!Below(files, base) = UNION {at[d] : d \in 0 .. (CHOOSE d \in 0 .. Most(files) : at[d] = {})}

\* Below goes down so.
LEMMA BelowRuns ==
    ASSUME NEW files, Tidy(files), NEW base \in Seq(Name)
    PROVE  \E at : Deep(at, files, base)
<1> DEFINE n == Most(files)
           S == SUBSET Seq(Name)
           Turn == [p \in S \X (1 .. n) |-> Deeper(files, base, p[1])]
           Is(f) == f = [d \in 0 .. n |-> IF d = 0 THEN {<<>>} ELSE Deeper(files, base, f[d - 1])]
           f == CHOOSE f : Is(f)
<1>1. n \in Nat
  <2>1. Cardinality(DOMAIN files) \in Nat
    BY FS_CardinalityType DEF Tidy
  <2> QED
    BY <2>1 DEF Most
<1>2. {<<>>} \in S
  OBVIOUS
<1>3. \A a \in S, i \in 1 .. n : Turn[a, i] = Deeper(files, base, a) /\ Turn[a, i] \in S
  <2> SUFFICES ASSUME NEW a \in S
               PROVE  Deeper(files, base, a) \in S
    OBVIOUS
  <2>1. ASSUME NEW path \in a, NEW name \in Promise!Coded!On(files, base, path)
        PROVE  Append(path, name) \in Seq(Name)
    <3>1. path \in Seq(Name) /\ name \in Name
      BY <2>1, OnTyped
    <3> QED
      BY <3>1
  <2> QED
    BY <2>1 DEF Deeper
<1>4. Turn \in [S \X (1 .. n) -> S]
  <2> HIDE DEF S, n
  <2> QED
    BY <1>3
<1>5. Promise!Coded!Below(files, base) = UNION {f[d] : d \in 0 .. (CHOOSE d \in 0 .. n : f[d] = {})}
  BY Zenon DEF Promise!Coded!Below, Deeper, Most, Promise!Coded!Cardinality, Cardinality
<1> HIDE DEF S, Turn, n
<1>6. PICK at \in [0 .. n -> S] : StepsFrom(at, n, {<<>>}, Turn)
  BY <1>1, <1>2, <1>4, StepsExist
<1>7. at[0] = {<<>>} /\ \A i \in 1 .. n : at[i] = Turn[at[i - 1], i]
  BY <1>6 DEF StepsFrom
<1>8. ASSUME NEW i \in 1 .. n
      PROVE  at[i] = Deeper(files, base, at[i - 1]) /\ at[i - 1] \in S
  <2>1. i - 1 \in 0 .. n
    BY <1>1
  <2>2. at[i - 1] \in S
    BY <2>1
  <2> QED
    BY <1>3, <1>7, <2>2
<1>9. Is(at)
  <2>1. \A d \in 0 .. n : at[d] = IF d = 0 THEN {<<>>} ELSE Deeper(files, base, at[d - 1])
    <3>1. \A d \in 0 .. n : d = 0 \/ d \in 1 .. n
      BY <1>1
    <3>2. \A d \in 1 .. n : d # 0
      BY <1>1
    <3> QED
      BY <1>7, <1>8, <3>1, <3>2
  <2> QED
    BY <2>1, <1>6
<1>10. Is(f)
  <2> HIDE DEF Is
  <2> QED
    BY <1>9
<1>11. f = [d \in 0 .. n |-> f[d]] /\ at = [d \in 0 .. n |-> at[d]]
       /\ \A d \in 0 .. n : f[d] = IF d = 0 THEN {<<>>} ELSE Deeper(files, base, f[d - 1])
  <2> HIDE DEF f
  <2> QED
    BY <1>6, <1>10
<1> HIDE DEF f, Is
<1> DEFINE T == {d \in 0 .. n : f[d] # at[d]}
<1>12. T = {}
  <2> SUFFICES ASSUME T # {}
               PROVE  FALSE
    OBVIOUS
  <2>1. T \in SUBSET Nat
    BY <1>1
  <2> HIDE DEF T
  <2>2. PICK d \in T : \A i \in T : d <= i
    BY <2>1, LeastNumber
  <2>3. d \in 0 .. n /\ f[d] # at[d] /\ d # 0
    BY <1>1, <1>7, <1>11 DEF T
  <2>4. d \in 1 .. n /\ d - 1 \in 0 .. n /\ d - 1 \notin T
    BY <1>1, <2>2, <2>3
  <2>5. f[d - 1] = at[d - 1]
    BY <2>4 DEF T
  <2> QED
    BY <1>8, <1>11, <2>3, <2>4, <2>5
<1>13. f = at
  BY <1>11, <1>12
<1>14. Levels(at, n, Depths(files, base))
  <2> DEFINE go == Depths(files, base)
  <2>1. \A k \in 1 .. n, p \in Seq(Name) : go[k, p] = Promise!Coded!On(files, base, p) /\ go[k, p] \in SUBSET Name
    BY OnTyped DEF Depths, n
  <2>2. go \in [(1 .. n) \X Seq(Name) -> SUBSET Name]
    BY OnTyped DEF Depths, n
  <2> HIDE DEF go
  <2>3. ASSUME NEW k \in 1 .. n
        PROVE  at[k] = UNION {{Append(p, name) : name \in go[k, p]} : p \in at[k - 1]}
    <3>1. \A p \in at[k - 1] : go[k, p] = Promise!Coded!On(files, base, p)
      BY <1>8, <2>1 DEF S
    <3> DEFINE Ways(p) == {Append(p, name) : name \in Promise!Coded!On(files, base, p)}
               Other(p) == {Append(p, name) : name \in go[k, p]}
    <3>2. at[k] = UNION {Ways(p) : p \in at[k - 1]}
      BY <1>8 DEF Deeper
    <3>3. \A p \in at[k - 1] : Ways(p) = Other(p)
      BY <3>1
    <3>4. UNION {Ways(p) : p \in at[k - 1]} = UNION {Other(p) : p \in at[k - 1]}
      <4> HIDE DEF Ways, Other
      <4> QED
        BY <3>3
    <3> QED
      BY <3>2, <3>4
  <2>4. Levels(at, n, go)
    BY <1>6, <1>7, <2>2, <2>3 DEF Levels, S
  <2> QED
    BY <2>4 DEF go
<1> QED
  BY <1>1, <1>5, <1>13, <1>14 DEF Deep, n

\* Where the walk goes on: down, or by a link to where it has not been.
Goes(files, base, path, name, spot, to, child) ==
    /\ spot \in Seq(Name) /\ IsDir(files, spot) /\ child \in DOMAIN files /\ IsName(name)
    /\ to # Absent /\ Known(files, to) /\ to = Enter(files, spot, name)
    /\ to # child => files[child].kind = "link" /\ to \notin Promise!Coded!Came(files, base, path)

\* Every name that the walk goes on with leads so.
LEMMA OnGoes ==
    ASSUME NEW files, Tidy(files), NEW base \in Seq(Name), NEW path \in Seq(Name),
           NEW name \in Promise!Coded!On(files, base, path),
           NEW spot, spot = Promise!Coded!Spot(files, base, path),
           NEW to, to = Promise!Coded!Spot(files, base, Append(path, name)),
           NEW child, child = Append(spot, name)
    PROVE  Goes(files, base, path, name, spot, to, child)
<1>1. spot \in Seq(Name) /\ name \in Names(files, spot) /\ to # Absent /\ name \in Name
  BY SpotSteps, SameFiles, OnTyped DEF Promise!Coded!On
<1>2. files[child].kind = "link" => to \notin Promise!Coded!Came(files, base, path)
  BY SameFiles DEF Promise!Coded!On
<1>3. child \in DOMAIN files /\ IsDir(files, spot) /\ IsName(name)
  BY <1>1, NamesAre, NamesLie
<1>4. to = Enter(files, spot, name)
  BY <1>1, SpotSteps
<1>5. to = IF files[child].kind # "link" THEN child
           ELSE IF Known(files, files[child].to) THEN files[child].to ELSE Absent
  BY <1>1, <1>4, EnterEntry
<1> HIDE DEF Promise!Coded!Came
<1>6. Known(files, to)
  <2>1. Known(files, child)
    BY <1>3 DEF Known
  <2> QED
    BY <1>1, <1>5, <2>1
<1>7. to # child => files[child].kind = "link"
  BY <1>5
<1> QED
  BY <1>1, <1>2, <1>3, <1>4, <1>6, <1>7 DEF Goes

\* Places that a walk comes through, each below the one before or reached by a link.
Trail(spots, m, jumps) ==
    /\ m \in Nat /\ spots \in [0 .. m -> Seq(Name)] /\ jumps \in SUBSET (1 .. m)
    /\ \A k \in (1 .. m) \ jumps : Len(spots[k]) = Len(spots[k - 1]) + 1
    /\ \A k \in jumps : \A i \in 0 .. (k - 1) : spots[k] # spots[i]

\* Between two links it goes further down with every step.
LEMMA TrailDown ==
    ASSUME NEW spots, NEW m, NEW jumps, Trail(spots, m, jumps),
           NEW i \in 0 .. m, NEW k \in i .. m, \A j \in (i + 1) .. k : j \notin jumps
    PROVE  Len(spots[k]) = Len(spots[i]) + (k - i)
<1> DEFINE T == {j \in i .. k : Len(spots[j]) # Len(spots[i]) + (j - i)}
<1>0. m \in Nat /\ i \in Nat /\ k \in Nat /\ \A j \in 0 .. m : Len(spots[j]) \in Nat
  BY DEF Trail
<1>1. T = {}
  <2> SUFFICES ASSUME T # {}
               PROVE  FALSE
    OBVIOUS
  <2>1. T \in SUBSET Nat
    BY <1>0
  <2> HIDE DEF T
  <2>2. PICK j \in T : \A l \in T : j <= l
    BY <2>1, LeastNumber
  <2>3. j \in i .. k /\ Len(spots[j]) # Len(spots[i]) + (j - i)
    BY DEF T
  <2>4. j # i
    BY <1>0, <2>3
  <2>5. j \in (i + 1) .. k /\ j - 1 \in i .. k /\ j \in (1 .. m) \ jumps /\ j - 1 \notin T /\ j - 1 \in 0 .. m
    BY <1>0, <2>2, <2>3, <2>4
  <2>6. Len(spots[j - 1]) = Len(spots[i]) + ((j - 1) - i)
    BY <2>5 DEF T
  <2>7. Len(spots[j]) = Len(spots[j - 1]) + 1
    BY <2>5 DEF Trail
  <2> QED
    BY <1>0, <2>3, <2>5, <2>6, <2>7
<1>2. k \in i .. k
  BY <1>0
<1> QED
  BY <1>1, <1>2

\* So a trail through few places is short: a link leads each time to another one.
LEMMA TrailIsShort ==
    ASSUME NEW spots, NEW m, NEW jumps, Trail(spots, m, jumps),
           NEW Places, IsFiniteSet(Places), \A k \in 0 .. m : spots[k] \in Places
    PROVE  m + 1 <= Cardinality(Places) * Cardinality(Places)
<1> DEFINE Anchor(k, i) == (i = 0 \/ i \in jumps) /\ \A j \in (i + 1) .. k : j \notin jumps
           anchor(k) == CHOOSE i \in 0 .. k : Anchor(k, i)
           h == [k \in 0 .. m |-> <<spots[anchor(k)], spots[k]>>]
           Pairs == Places \X Places
<1>0. m \in Nat /\ jumps \in SUBSET (1 .. m)
  BY DEF Trail
<1>1. ASSUME NEW k \in 0 .. m
      PROVE  anchor(k) \in 0 .. k /\ Anchor(k, anchor(k)) /\ anchor(k) \in 0 .. m
  <2> DEFINE U == {i \in 0 .. k : i = 0 \/ i \in jumps}
  <2>1. U \in SUBSET (0 .. k) /\ U # {} /\ k \in Nat
    BY <1>0
  <2>2. PICK i \in U : \A j \in U : j <= i
    BY <2>1, GreatestNumber
  <2>3. Anchor(k, i)
    BY <2>1, <2>2
  <2>4. i \in 0 .. k
    BY <2>2
  <2> HIDE DEF Anchor, U
  <2>5. anchor(k) \in 0 .. k /\ Anchor(k, anchor(k))
    BY <2>3, <2>4
  <2>6. \A j \in 0 .. k : j \in 0 .. m
    BY <1>0
  <2> QED
    BY <2>5, <2>6
<1> HIDE DEF anchor
<1>2. ASSUME NEW k \in 0 .. m, NEW l \in 0 .. m, h[k] = h[l]
      PROVE  k = l
  <2>1. spots[anchor(k)] = spots[anchor(l)] /\ spots[k] = spots[l]
    BY <1>2
  <2>2. anchor(k) \in 0 .. k /\ anchor(l) \in 0 .. l /\ anchor(k) \in 0 .. m /\ anchor(l) \in 0 .. m
    BY <1>1
  <2>3. anchor(k) = anchor(l)
    <3>1. ASSUME NEW i \in 0 .. m, NEW j \in 0 .. m, i < j, j \in jumps
          PROVE  spots[i] # spots[j]
      <4>1. i \in 0 .. (j - 1)
        BY <1>0, <3>1
      <4> QED
        BY <3>1, <4>1 DEF Trail
    <3>2. (anchor(k) = 0 \/ anchor(k) \in jumps) /\ (anchor(l) = 0 \/ anchor(l) \in jumps)
      BY <1>1
    <3>3. ~(anchor(k) < anchor(l))
      BY <2>1, <2>2, <3>1, <3>2
    <3>4. ~(anchor(l) < anchor(k))
      BY <2>1, <2>2, <3>1, <3>2
    <3> QED
      BY <1>0, <2>2, <3>3, <3>4
  <2>4. Len(spots[k]) = Len(spots[anchor(k)]) + (k - anchor(k))
    <3>1. k \in anchor(k) .. m /\ \A j \in (anchor(k) + 1) .. k : j \notin jumps
      BY <1>0, <1>1, <2>2
    <3> QED
      BY <2>2, <3>1, TrailDown
  <2>5. Len(spots[l]) = Len(spots[anchor(l)]) + (l - anchor(l))
    <3>1. l \in anchor(l) .. m /\ \A j \in (anchor(l) + 1) .. l : j \notin jumps
      BY <1>0, <1>1, <2>2
    <3> QED
      BY <2>2, <3>1, TrailDown
  <2>6. \A j \in 0 .. m : Len(spots[j]) \in Nat
    BY DEF Trail
  <2> QED
    BY <1>0, <2>1, <2>2, <2>3, <2>4, <2>5, <2>6
<1>3. h \in [0 .. m -> Pairs]
  BY <1>1
<1>4. IsFiniteSet(Pairs) /\ Cardinality(Pairs) = Cardinality(Places) * Cardinality(Places)
  BY FS_Product
<1>5. IsFiniteSet(0 .. m) /\ Cardinality(0 .. m) = m + 1
  <2>1. 0 \in Int /\ m \in Int /\ ~(0 > m) /\ m - 0 + 1 = m + 1
    BY <1>0
  <2> QED
    BY <2>1, FS_Interval
<1>6. Cardinality(Pairs) \in Nat
  BY <1>4, FS_CardinalityType
<1> HIDE DEF h, Pairs
<1>7. ~(Cardinality(Pairs) < Cardinality(0 .. m))
  <2> SUFFICES ASSUME Cardinality(Pairs) < Cardinality(0 .. m)
               PROVE  FALSE
    OBVIOUS
  <2>1. \E k, l \in 0 .. m : k # l /\ h[k] = h[l]
    BY <1>3, <1>4, <1>5, FS_PigeonHole
  <2> QED
    BY <1>2, <2>1
<1> QED
  BY <1>0, <1>4, <1>5, <1>6, <1>7

\* A path that the walk goes along, name by name.
WalksOn(files, base, path) ==
    \A k \in 1 .. Len(path) : path[k] \in Promise!Coded!On(files, base, Upto(path, k - 1))

\* No path that the walk goes along is as long as Below looks for.
LEMMA NoneSoDeep ==
    ASSUME NEW files, Tidy(files), NEW base \in Seq(Name), NEW path \in Seq(Name), path # <<>>,
           WalksOn(files, base, path)
    PROVE  Len(path) < Most(files)
<1> DEFINE m == Len(path)
           spots == [k \in 0 .. m |-> Promise!Coded!Spot(files, base, Upto(path, k))]
           jumps == {k \in 1 .. m : spots[k] # Append(spots[k - 1], path[k])}
           Places == DOMAIN files \cup {<<>>}
<1>0. m \in Nat /\ m # 0
  <2>1. m = 0 => path = <<>>
    OBVIOUS
  <2> QED
    BY <2>1
<1>1. ASSUME NEW k \in 1 .. m
      PROVE  /\ spots[k - 1] \in Seq(Name) /\ spots[k] \in Places /\ spots[k - 1] \in Places /\ path[k] \in Name
             /\ spots[k] # Append(spots[k - 1], path[k]) =>
                  \A i \in 0 .. (k - 1) : spots[k] # spots[i]
  <2> DEFINE before == Upto(path, k - 1)
             name == path[k]
  <2>1. k \in 0 .. Len(path) /\ k - 1 \in 0 .. Len(path) /\ k # 0 /\ k \in 0 .. m /\ k - 1 \in 0 .. m
    BY <1>0
  <2>2. before \in Seq(Name) /\ Len(before) = k - 1 /\ name \in Name /\ Upto(path, k) = Append(before, name)
        /\ \A i \in 0 .. (k - 1) : Upto(before, i) = Upto(path, i)
    BY <2>1, UptoSteps, ZenonT(60)
  <2>3. name \in Promise!Coded!On(files, base, before)
    BY DEF WalksOn
  <2>4. spots[k] = Promise!Coded!Spot(files, base, Append(before, name))
          /\ spots[k - 1] = Promise!Coded!Spot(files, base, before)
    BY <2>1, <2>2
  <2>5. Promise!Coded!Came(files, base, before) = {spots[i] : i \in 0 .. (k - 1)}
    <3>1. Promise!Coded!Came(files, base, before) = {Promise!Coded!Spot(files, base, Upto(before, i)) : i \in 0 .. (k - 1)}
      BY <2>2 DEF Promise!Coded!Came, Upto
    <3>2. \A i \in 0 .. (k - 1) : spots[i] = Promise!Coded!Spot(files, base, Upto(before, i))
      <4>1. \A i \in 0 .. (k - 1) : i \in 0 .. m
        BY <1>0
      <4> QED
        BY <2>2, <4>1
    <3> QED
      BY <3>1, <3>2
  <2> HIDE DEF before, name, spots, m
  <2> DEFINE spot == spots[k - 1]
             to == spots[k]
             child == Append(spots[k - 1], name)
  <2>6. /\ spot \in Seq(Name) /\ IsDir(files, spot) /\ Known(files, to)
        /\ to # child => to \notin Promise!Coded!Came(files, base, before)
    <3> HIDE DEF spot, to, child
    <3>1. spot = Promise!Coded!Spot(files, base, before) /\ to = Promise!Coded!Spot(files, base, Append(before, name))
          /\ child = Append(spot, name)
      BY <2>4 DEF spot, to, child
    <3>2. Goes(files, base, before, name, spot, to, child)
      BY <2>2, <2>3, <3>1, OnGoes
    <3> QED
      BY <3>2 DEF Goes
  <2>7. spot \in Places /\ to \in Places
    BY <2>6 DEF IsDir, Known
  <2>8. name = path[k]
    BY DEF name
  <2> QED
    BY <2>2, <2>5, <2>6, <2>7, <2>8
<1> HIDE DEF spots, m
<1>2. spots \in [0 .. m -> Seq(Name)]
  <2>1. \A k \in 0 .. m : Promise!Coded!Spot(files, base, Upto(path, k)) \in Seq(Name)
    BY UptoSteps, SpotSteps DEF m
  <2> QED
    BY <2>1 DEF spots
<1>3. \A k \in 0 .. m : spots[k] \in Places
  <2>1. \A k \in 0 .. m : k \in 1 .. m \/ k = 0
    BY <1>0
  <2>2. spots[0] \in Places
    <3>1. 1 \in 1 .. m /\ 1 - 1 = 0
      BY <1>0
    <3> QED
      BY <1>1, <3>1
  <2> QED
    BY <1>1, <2>1, <2>2
<1>4. Trail(spots, m, jumps)
  <2>1. \A k \in (1 .. m) \ jumps : Len(spots[k]) = Len(spots[k - 1]) + 1
    <3> SUFFICES ASSUME NEW k \in 1 .. m, spots[k] = Append(spots[k - 1], path[k])
                 PROVE  Len(spots[k]) = Len(spots[k - 1]) + 1
      OBVIOUS
    <3>1. spots[k - 1] \in Seq(Name) /\ path[k] \in Name
      BY <1>1
    <3> QED
      BY <3>1, AppendParts
  <2>2. \A k \in jumps : \A i \in 0 .. (k - 1) : spots[k] # spots[i]
    BY <1>1
  <2> QED
    BY <1>0, <1>2, <2>1, <2>2 DEF Trail
<1>5. IsFiniteSet(DOMAIN files) /\ Cardinality(DOMAIN files) \in Nat
  BY FS_CardinalityType DEF Tidy
<1>6. <<>> \notin DOMAIN files
  BY EntryIsTidy
<1>7. IsFiniteSet(Places) /\ Cardinality(Places) = Cardinality(DOMAIN files) + 1
  BY <1>5, <1>6, FS_AddElement
<1> HIDE DEF jumps, Places
<1>8. m + 1 <= Cardinality(Places) * Cardinality(Places)
  BY <1>3, <1>4, <1>7, TrailIsShort
<1>9. m + 1 <= Most(files) /\ Most(files) \in Nat
  BY <1>5, <1>7, <1>8 DEF Most
<1> QED
  BY <1>0, <1>9 DEF m

\* The paths below a directory are those that the walk goes along.
LEMMA BelowAre ==
    ASSUME NEW files, Tidy(files), NEW base \in Seq(Name), NEW path
    PROVE  path \in Promise!Coded!Below(files, base) <=> path \in Seq(Name) /\ WalksOn(files, base, path)
<1> DEFINE n == Most(files)
           go == Depths(files, base)
           Empty(at) == CHOOSE d \in 0 .. n : at[d] = {}
<1>1. PICK at : Deep(at, files, base)
  BY BelowRuns
<1>2. n \in Nat /\ Levels(at, n, go) /\ Promise!Coded!Below(files, base) = UNION {at[d] : d \in 0 .. Empty(at)}
  BY <1>1 DEF Deep
<1>3. \A k \in 1 .. n, p \in Seq(Name) : go[k, p] = Promise!Coded!On(files, base, p)
  BY DEF Depths
<1> HIDE DEF go, n
<1>4. ASSUME NEW d \in 0 .. n, NEW p \in Seq(Name)
      PROVE  p \in at[d] <=> Len(p) = d /\ WalksOn(files, base, p)
  <2>1. p \in at[d] <=> Len(p) = d /\ GoesOn(p, go)
    BY <1>2, LevelsAre
  <2>2. ASSUME Len(p) = d
        PROVE  GoesOn(p, go) <=> WalksOn(files, base, p)
    <3>1. \A k \in 1 .. Len(p) : k \in 1 .. n /\ k - 1 \in 0 .. Len(p)
      BY <1>2, <2>2
    <3>2. \A k \in 1 .. Len(p) : Upto(p, k - 1) \in Seq(Name)
      BY <3>1, UptoSteps
    <3>3. \A k \in 1 .. Len(p) : go[k, Upto(p, k - 1)] = Promise!Coded!On(files, base, Upto(p, k - 1))
      BY <1>3, <3>1, <3>2
    <3> QED
      BY <3>3 DEF GoesOn, WalksOn
  <2> QED
    BY <2>1, <2>2
<1>5. at[n] = {}
  <2> SUFFICES ASSUME NEW p \in at[n]
               PROVE  FALSE
    OBVIOUS
  <2>1. n \in 0 .. n /\ p \in Seq(Name)
    <3>1. n \in 0 .. n
      BY <1>2
    <3>2. at[n] \in SUBSET Seq(Name)
      BY <1>2, <3>1 DEF Levels
    <3> QED
      BY <3>1, <3>2
  <2>2. Len(p) = n /\ WalksOn(files, base, p)
    BY <1>4, <2>1
  <2>3. n # 0
    <3>1. Cardinality(DOMAIN files) \in Nat
      BY FS_CardinalityType DEF Tidy
    <3> QED
      BY <3>1 DEF n, Most
  <2>4. p # <<>>
    BY <2>2, <2>3
  <2>5. Len(p) < n
    BY <2>1, <2>2, <2>4, NoneSoDeep DEF n
  <2> QED
    BY <1>2, <2>2, <2>5
<1> DEFINE e == Empty(at)
<1>6. e \in 0 .. n /\ at[e] = {}
  <2>1. n \in 0 .. n
    BY <1>2
  <2> QED
    BY <1>5, <2>1
<1>7. Promise!Coded!Below(files, base) = UNION {at[d] : d \in 0 .. e}
  BY <1>2
<1> HIDE DEF e, Empty
<1>8. ASSUME path \in Promise!Coded!Below(files, base)
      PROVE  path \in Seq(Name) /\ WalksOn(files, base, path)
  <2>1. PICK d \in 0 .. e : path \in at[d]
    BY <1>7, <1>8
  <2>2. d \in 0 .. n
    BY <1>2, <1>6
  <2>3. path \in Seq(Name)
    BY <1>2, <2>1, <2>2 DEF Levels
  <2> QED
    BY <1>4, <2>1, <2>2, <2>3
<1>9. ASSUME path \in Seq(Name), WalksOn(files, base, path)
      PROVE  path \in Promise!Coded!Below(files, base)
  <2>1. Len(path) \in Nat
    BY <1>9
  <2>2. Len(path) <= n
    <3>1. CASE path = <<>>
      BY <1>2, <3>1
    <3>2. CASE path # <<>>
      <4>1. Len(path) < Most(files)
        BY <1>9, <3>2, NoneSoDeep
      <4> QED
        BY <1>2, <2>1, <4>1 DEF n
    <3> QED
      BY <3>1, <3>2
  <2>3. ~(e < Len(path))
    <3> SUFFICES ASSUME e < Len(path)
                 PROVE  FALSE
      OBVIOUS
    <3> DEFINE q == Upto(path, e)
    <3>1. e \in 0 .. Len(path) /\ e \in Nat
      BY <1>2, <1>6, <2>1
    <3>2. q \in Seq(Name) /\ Len(q) = e /\ (\A i \in 1 .. e : q[i] = path[i]) /\ \A i \in 0 .. e : Upto(q, i) = Upto(path, i)
      BY <1>9, <3>1, UptoSteps
    <3> HIDE DEF q
    <3>3. WalksOn(files, base, q)
      <4>1. \A k \in 1 .. e : k \in 1 .. Len(path) /\ k - 1 \in 0 .. e
        BY <2>1, <3>1
      <4> QED
        BY <1>9, <3>2, <4>1 DEF WalksOn
    <3> QED
      BY <1>4, <1>6, <3>2, <3>3
  <2>4. Len(path) \in 0 .. n /\ Len(path) \in 0 .. e
    BY <1>2, <1>6, <2>1, <2>2, <2>3
  <2>5. path \in at[Len(path)]
    BY <1>4, <1>9, <2>4
  <2> QED
    BY <1>7, <2>4, <2>5
<1> QED
  BY <1>8, <1>9

-----------------------------------------------------------------------------
(* The paths that match.                                                   *)

\* What is left of a path after its first names.
Rest(path, n) == SubSeq(path, n + 1, Len(path))

\* The two make the path.
LEMMA RestSteps ==
    ASSUME NEW S, NEW path \in Seq(S), NEW n \in 0 .. Len(path)
    PROVE  /\ Rest(path, n) \in Seq(S) /\ Len(Rest(path, n)) = Len(path) - n
           /\ Upto(path, n) \o Rest(path, n) = path
           /\ \A i \in 1 .. (Len(path) - n) : Rest(path, n)[i] = path[n + i]
           /\ \A i \in 0 .. (Len(path) - n) : Upto(path, n) \o Upto(Rest(path, n), i) = Upto(path, n + i)
<1> DEFINE m == Len(path)
<1>0. n \in Nat /\ m \in Nat /\ n <= m
  OBVIOUS
<1>1. \A i \in 1 .. m : path[i] \in S
  OBVIOUS
<1>2. Rest(path, n) \in Seq(S) /\ Len(Rest(path, n)) = m - n /\ \A i \in 1 .. (m - n) : Rest(path, n)[i] = path[n + i]
  <2> HIDE DEF m
  <2>1. \A i \in (n + 1) .. m : path[i] \in S
    BY <1>0, <1>1
  <2> QED
    BY <1>0, <2>1 DEF Rest, m
<1>3. Upto(path, n) \in Seq(S) /\ Len(Upto(path, n)) = n /\ \A i \in 1 .. n : Upto(path, n)[i] = path[i]
  BY UptoSteps
<1>4. ASSUME NEW i \in 0 .. (m - n)
      PROVE  Upto(path, n) \o Upto(Rest(path, n), i) = Upto(path, n + i)
  <2>1. n + i \in 0 .. Len(path) /\ i \in 0 .. Len(Rest(path, n)) /\ i \in Nat
    BY <1>0, <1>2
  <2> DEFINE s == Upto(path, n)
             t == Upto(Rest(path, n), i)
             u == Upto(path, n + i)
  <2>2. t \in Seq(S) /\ Len(t) = i /\ \A j \in 1 .. i : t[j] = Rest(path, n)[j]
    BY <1>2, <2>1, UptoSteps
  <2>3. u \in Seq(S) /\ Len(u) = n + i /\ \A j \in 1 .. (n + i) : u[j] = path[j]
    BY <2>1, UptoSteps
  <2>4. s \in Seq(S) /\ Len(s) = n /\ \A j \in 1 .. n : s[j] = path[j]
    BY <1>3
  <2> HIDE DEF s, t, u, m
  <2>5. \A j \in 1 .. i : t[j] = path[n + j]
    <3>1. \A j \in 1 .. i : j \in 1 .. (m - n)
      BY <1>0
    <3> QED
      BY <1>2, <2>2, <3>1
  <2>6. s \o t \in Seq(S) /\ Len(s \o t) = n + i /\ \A j \in 1 .. (n + i) : (s \o t)[j] = u[j]
    <3>1. s \o t \in Seq(S) /\ Len(s \o t) = n + i
      BY <2>1, <2>2, <2>4
    <3>2. ASSUME NEW j \in 1 .. (n + i)
          PROVE  (s \o t)[j] = u[j]
      <4>1. CASE j <= n
        <5>1. j \in 1 .. n
          BY <1>0, <2>1, <4>1
        <5> QED
          BY <1>0, <2>1, <2>2, <2>3, <2>4, <5>1
      <4>2. CASE j > n
        <5>1. j - n \in 1 .. i /\ n + (j - n) = j
          BY <1>0, <2>1, <4>2
        <5>2. (s \o t)[j] = t[j - n]
          BY <1>0, <2>1, <2>2, <2>4, <4>2, SMTT(20)
        <5> QED
          BY <2>3, <2>5, <5>1, <5>2
      <4>3. j <= n \/ j > n
        BY <1>0, <2>1
      <4> QED
        BY <4>1, <4>2, <4>3
    <3> QED
      BY <3>1, <3>2
  <2> DEFINE w == s \o t
  <2> HIDE DEF w
  <2>7. w = u
    <3>1. w \in Seq(S) /\ Len(w) = Len(u) /\ \A j \in 1 .. Len(u) : w[j] = u[j]
      BY <2>3, <2>6 DEF w
    <3> QED
      BY <2>3, <3>1
  <2> QED
    BY <2>7 DEF s, t, u, w
<1>5. Upto(path, n) \o Rest(path, n) = path
  <2>1. Len(Rest(path, n)) \in 0 .. Len(Rest(path, n)) /\ m - n \in 0 .. (m - n) /\ n + (m - n) = m
    BY <1>0, <1>2
  <2>2. Upto(Rest(path, n), m - n) = Rest(path, n) /\ Upto(path, m) = path
    <3>1. m \in 0 .. Len(path)
      BY <1>0
    <3> QED
      BY <1>2, <2>1, <3>1, UptoSteps
  <2>3. Upto(path, n) \o Upto(Rest(path, n), m - n) = Upto(path, n + (m - n))
    BY <1>4, <2>1
  <2> QED
    BY <2>1, <2>2, <2>3, Zenon
<1> QED
  BY <1>2, <1>4, <1>5

\* A path that begins with another one, and goes on with a third.
Together(full, start, path) ==
    /\ Len(full) = Len(start) + Len(path)
    /\ \A i \in 1 .. Len(start) : full[i] = start[i]
    /\ \A i \in 1 .. Len(path) : full[Len(start) + i] = path[i]

\* It comes apart into the two.
LEMMA ComesApart ==
    ASSUME NEW S, NEW start \in Seq(S), NEW path \in Seq(S), NEW full \in Seq(S), Together(full, start, path)
    PROVE  /\ Len(start) \in 0 .. Len(full)
           /\ Upto(full, Len(start)) = start /\ Rest(full, Len(start)) = path
<1> DEFINE n == Len(start)
           s == Upto(full, n)
           t == Rest(full, n)
<1>1. n \in Nat /\ Len(path) \in Nat /\ n \in 0 .. Len(full) /\ Len(full) - n = Len(path)
  BY DEF Together
<1>2. s \in Seq(S) /\ Len(s) = n /\ \A i \in 1 .. n : s[i] = full[i]
  BY <1>1, UptoSteps
<1>3. t \in Seq(S) /\ Len(t) = Len(path) /\ \A i \in 1 .. Len(path) : t[i] = full[n + i]
  BY <1>1, RestSteps
<1> HIDE DEF s, t
<1>4. s = start
  BY <1>1, <1>2 DEF Together
<1>5. t = path
  <2>1. \A i \in 1 .. Len(path) : t[i] = path[i]
    BY <1>3 DEF Together
  <2>2. Len(t) = Len(path) /\ t \in Seq(S)
    BY <1>3
  <2> HIDE DEF n
  <2> QED
    BY <2>1, <2>2
<1> QED
  BY <1>1, <1>4, <1>5 DEF s, t

\* One path and another one are together.
LEMMA ConcatTogether ==
    ASSUME NEW S, NEW start \in Seq(S), NEW path \in Seq(S)
    PROVE  start \o path \in Seq(S) /\ Together(start \o path, start, path)
  BY DEF Together

First(pattern) == Promise!Coded!FirstRecursion(pattern)

\* The components before the first ** that is not the last one are none.
LEMMA FirstIs ==
    ASSUME PatternsAreRead, NEW pattern, Readable(pattern)
    PROVE  /\ First(pattern) \in 1 .. (Len(pattern.components) + 1)
           /\ Promise!Coded!HasRecursion(pattern) <=> First(pattern) # Len(pattern.components) + 1
           /\ Promise!Coded!HasRecursion(pattern) =>
                First(pattern) < Len(pattern.components) /\ pattern.components[First(pattern)].kind = "recursion"
           /\ \A i \in 1 .. (Len(pattern.components) - 1) :
                pattern.components[i].kind = "recursion" => First(pattern) <= i
<1> DEFINE all == pattern.components
           N == Len(all)
           inner == {i \in 1 .. (N - 1) : all[i].kind = "recursion"}
<1>1. N \in Nat /\ N # 0
  BY PatternTyped
<1>2. First(pattern) = IF inner = {} THEN N + 1 ELSE CHOOSE i \in inner : \A j \in inner : i <= j
  BY DEF First, Promise!Coded!FirstRecursion
<1>3. Promise!Coded!HasRecursion(pattern) <=> First(pattern) <= N
  BY DEF Promise!Coded!HasRecursion, First
<1>4. inner \in SUBSET Nat
  BY <1>1
<1>5. CASE inner = {}
  <2>1. First(pattern) = N + 1
    BY <1>2, <1>5
  <2>2. \A i \in 1 .. (N - 1) : ~(all[i].kind = "recursion")
    BY <1>5
  <2> QED
    BY <1>1, <1>3, <2>1, <2>2
<1>6. CASE inner # {}
  <2> HIDE DEF inner
  <2>1. \E i \in inner : \A j \in inner : i <= j
    BY <1>4, <1>6, LeastNumber
  <2>2. First(pattern) \in inner /\ \A j \in inner : First(pattern) <= j
    BY <1>2, <1>6, <2>1
  <2>3. First(pattern) \in 1 .. (N - 1) /\ all[First(pattern)].kind = "recursion"
    BY <2>2 DEF inner
  <2>4. \A i \in 1 .. (N - 1) : all[i].kind = "recursion" => First(pattern) <= i
    BY <2>2 DEF inner
  <2>5. First(pattern) \in 1 .. (N + 1) /\ First(pattern) # N + 1 /\ First(pattern) < N /\ First(pattern) <= N
    BY <1>1, <2>3
  <2> QED
    BY <1>3, <2>3, <2>4, <2>5
<1> QED
  BY <1>5, <1>6

\* What it takes to match, with the components from ** on and without.
Behind(pattern) == SubSeq(pattern.components, First(pattern), Len(pattern.components))
MatchesBehind(files, pattern, path) ==
    LET n == First(pattern) - 1
    IN  /\ n \in 0 .. Len(path) /\ Upto(path, n) \in Promise!Coded!Reached(files, pattern, n)
        /\ Rest(path, n) \in Promise!Coded!Below(files, Promise!Coded!Base(pattern) \o Upto(path, n))
        /\ Promise!Coded!Covers(Behind(pattern), Rest(path, n))
MatchesAll(files, pattern, path) ==
    /\ path \in Promise!Coded!Reached(files, pattern, Len(pattern.components))
    /\ Promise!Coded!AsWritten(pattern.components[Len(pattern.components)]) =>
         Promise!Coded!Spot(files, Promise!Coded!Base(pattern), path) # Absent

NotBroken(pattern) == ~ \E i \in DOMAIN pattern.components : pattern.components[i].kind = "broken"

\* The paths that match are these.
LEMMA MatchedAre ==
    ASSUME PatternsAreRead, NEW pattern, Readable(pattern), NEW files, Tidy(files), NEW path
    PROVE  path \in Promise!Coded!Matched(files, pattern) <=>
             /\ NotBroken(pattern) /\ path \in Seq(Name)
             /\ IF Promise!Coded!HasRecursion(pattern) THEN MatchesBehind(files, pattern, path)
                ELSE MatchesAll(files, pattern, path)
<1> DEFINE all == pattern.components
           N == Len(all)
           n == First(pattern) - 1
           base == Promise!Coded!Base(pattern)
<1>1. N \in Nat /\ N # 0 /\ base \in Seq(Name) /\ n \in 0 .. N /\ n \in Nat
  BY PatternTyped, FirstIs
<1>2. CASE ~NotBroken(pattern)
  BY <1>2 DEF Promise!Coded!Matched, NotBroken
<1>3. CASE NotBroken(pattern) /\ Promise!Coded!HasRecursion(pattern)
  <2> DEFINE Begins == Promise!Coded!Reached(files, pattern, n)
             Fit(start) == {p \in Promise!Coded!Below(files, base \o start) : Promise!Coded!Covers(Behind(pattern), p)}
             Whole(start) == {start \o p : p \in Fit(start)}
  <2>1. Promise!Coded!Matched(files, pattern) = UNION {Whole(start) : start \in Begins}
    BY <1>3 DEF Promise!Coded!Matched, NotBroken, Behind, First
  <2>2. Begins \in SUBSET Seq(Name)
    BY <1>1, ReachedAre
  <2>3. \A start \in Begins : Len(start) = n
    BY <1>1, <2>2, ReachedAre
  <2>4. \A start \in Begins : Fit(start) \in SUBSET Seq(Name)
    <3> SUFFICES ASSUME NEW start \in Begins
                 PROVE  Promise!Coded!Below(files, base \o start) \in SUBSET Seq(Name)
      OBVIOUS
    <3>1. base \o start \in Seq(Name)
      BY <1>1, <2>2
    <3> QED
      BY <3>1, BelowAre
  <2>5. ASSUME path \in Promise!Coded!Matched(files, pattern)
        PROVE  path \in Seq(Name) /\ MatchesBehind(files, pattern, path)
    <3>1. PICK start \in Begins : path \in Whole(start)
      <4> HIDE DEF Whole, Begins
      <4> QED
        BY <2>1, <2>5
    <3>2. PICK p \in Fit(start) : path = start \o p
      BY <3>1
    <3>3. start \in Seq(Name) /\ p \in Seq(Name) /\ Len(start) = n
      BY <2>2, <2>3, <2>4
    <3>4. start \o p \in Seq(Name) /\ Together(start \o p, start, p)
      BY <3>3, ConcatTogether
    <3>5. path \in Seq(Name) /\ Together(path, start, p)
      BY <3>2, <3>4
    <3>6. n \in 0 .. Len(path) /\ Upto(path, n) = start /\ Rest(path, n) = p
      BY <3>3, <3>5, ComesApart
    <3> QED
      BY <3>5, <3>6 DEF MatchesBehind
  <2>6. ASSUME path \in Seq(Name), MatchesBehind(files, pattern, path)
        PROVE  path \in Promise!Coded!Matched(files, pattern)
    <3> DEFINE start == Upto(path, n)
               p == Rest(path, n)
    <3>1. n \in 0 .. Len(path) /\ start \in Begins /\ p \in Fit(start)
      BY <2>6 DEF MatchesBehind
    <3>2. start \o p = path
      BY <2>6, <3>1, RestSteps
    <3>3. path \in Whole(start)
      <4> HIDE DEF start, p, Fit
      <4> QED
        BY <3>1, <3>2
    <3> HIDE DEF start, Whole, Begins
    <3> QED
      BY <2>1, <3>1, <3>3
  <2> QED
    BY <1>3, <2>5, <2>6
<1>4. CASE NotBroken(pattern) /\ ~Promise!Coded!HasRecursion(pattern)
  <2>1. Promise!Coded!Last(all) = all[N]
    BY DEF Promise!Coded!Last
  <2>2. N \in 0 .. N /\ <<>> \in Seq(Name)
    BY <1>1
  <2>3. Promise!Coded!Reached(files, pattern, N) \in SUBSET Seq(Name)
    <3> HIDE DEF N
    <3>1. \A i \in 0 .. N : Promise!Coded!Reached(files, pattern, i) \in SUBSET Seq(Name)
      BY <2>2, ReachedAre DEF N
    <3> QED
      BY <2>2, <3>1
  <2> QED
    BY <1>4, <2>1, <2>3, SameFiles DEF Promise!Coded!Matched, MatchesAll, NotBroken
<1> QED
  BY <1>2, <1>3, <1>4

\* Where the first so many names of a path lead.
Place(files, pattern, path, k) == Promise!Coded!Spot(files, Promise!Coded!Base(pattern), Upto(path, k))

\* The names of a path that the walk has to look for.
Searched(pattern, k) == k < First(pattern) => ~Promise!Coded!AsWritten(pattern.components[k])

\* Behind the first n names of a path, the walk goes on with each of the others, and that
\* is one that its directory lists.
LEMMA RestWalks ==
    ASSUME NEW files, Tidy(files), NEW base \in Seq(Name), NEW path \in Seq(Name), NEW n \in 0 .. Len(path),
           WalksOn(files, base \o Upto(path, n), Rest(path, n)), NEW k \in 1 .. Len(path), k > n
    PROVE  /\ path[k] \in Promise!Coded!On(files, base \o Upto(path, n), Upto(Rest(path, n), (k - n) - 1))
           /\ path[k] \in Names(files, Promise!Coded!Spot(files, base, Upto(path, k - 1)))
<1> DEFINE rest == Rest(path, n)
           start == Upto(path, n)
<1>1. PICK i \in Nat : i = k - n
  BY Len(path) \in Nat
<1>2. PICK h \in Nat : h = i - 1
  BY <1>1
<1> DEFINE before == Upto(rest, h)
<1>3. i \in 1 .. (Len(path) - n) /\ h \in 0 .. (Len(path) - n) /\ n + i = k /\ n + h = k - 1 /\ (k - n) - 1 = h
  BY <1>1, <1>2, Len(path) \in Nat
<1>4. start \in Seq(Name)
  BY UptoSteps
<1>5. rest \in Seq(Name) /\ Len(rest) = Len(path) - n /\ rest[i] = path[n + i]
  BY <1>3, RestSteps
<1>6. start \o before = Upto(path, n + h)
  <2>1. \A j \in 0 .. (Len(path) - n) : Upto(path, n) \o Upto(Rest(path, n), j) = Upto(path, n + j)
    BY RestSteps
  <2> QED
    BY <1>3, <2>1
<1> HIDE DEF rest, start
<1>7. before \in Seq(Name)
  BY <1>3, <1>5, UptoSteps
<1>8. rest[i] \in Promise!Coded!On(files, base \o start, before)
  <2>1. i \in 1 .. Len(rest)
    BY <1>3, <1>5
  <2> QED
    BY <1>2, <2>1 DEF WalksOn, rest, start
<1> HIDE DEF before
<1>9. Promise!Coded!Spot(files, base \o start, before) = Promise!Coded!Spot(files, base, start \o before)
  BY <1>4, <1>7, SpotFurther
<1>10. rest[i] \in Names(files, Promise!Coded!Spot(files, base, start \o before))
  <2>1. rest[i] \in Promise!Coded!Names(files, Promise!Coded!Spot(files, base \o start, before))
    BY <1>8 DEF Promise!Coded!On
  <2> QED
    BY <1>9, <2>1, SameFiles
<1> QED
  BY <1>3, <1>5, <1>6, <1>8, <1>10 DEF rest, start, before

\* Of a path that matches, each name that has to be looked for is one that its directory
\* lists, and behind ** the walk goes on with each.
LEMMA MatchedNames ==
    ASSUME PatternsAreRead, NEW pattern, Readable(pattern), NEW files, Tidy(files),
           NEW path \in Promise!Coded!Matched(files, pattern)
    PROVE  /\ path \in Seq(Name)
           /\ ~Promise!Coded!HasRecursion(pattern) => Len(path) = Len(pattern.components)
           /\ Promise!Coded!HasRecursion(pattern) => First(pattern) - 1 \in 0 .. Len(path)
           /\ \A k \in 1 .. Len(path) : k < First(pattern) =>
                k \in 1 .. Len(pattern.components) /\ path[k] \in Onward(files, pattern, k, Upto(path, k - 1))
           /\ \A k \in 1 .. Len(path) : k >= First(pattern) =>
                path[k] \in Promise!Coded!On(files, Promise!Coded!Base(pattern) \o Upto(path, First(pattern) - 1),
                                       Upto(Rest(path, First(pattern) - 1), k - First(pattern)))
           /\ \A k \in 1 .. Len(path) : Searched(pattern, k) =>
                path[k] \in Names(files, Place(files, pattern, path, k - 1))
<1> DEFINE N == Len(pattern.components)
           n == First(pattern) - 1
           base == Promise!Coded!Base(pattern)
<1>1. N \in Nat /\ N # 0 /\ base \in Seq(Name) /\ n \in 0 .. N /\ n \in Nat
      /\ First(pattern) = n + 1 /\ (~Promise!Coded!HasRecursion(pattern) => n = N)
  BY PatternTyped, FirstIs
<1>2. path \in Seq(Name) /\ IF Promise!Coded!HasRecursion(pattern) THEN MatchesBehind(files, pattern, path)
                            ELSE MatchesAll(files, pattern, path)
  BY MatchedAre
<1>3. Len(path) \in Nat
  BY <1>2
<1> HIDE DEF N, n, base
<1>4. /\ ~Promise!Coded!HasRecursion(pattern) => Len(path) = N
      /\ \A k \in 1 .. n : k \in 1 .. N /\ k \in 1 .. Len(path)
                           /\ path[k] \in Onward(files, pattern, k, Upto(path, k - 1))
      /\ n \in 0 .. Len(path)
  <2>1. CASE ~Promise!Coded!HasRecursion(pattern)
    <3>1. path \in Promise!Coded!Reached(files, pattern, N) /\ N \in 0 .. N
      BY <1>1, <1>2, <2>1 DEF MatchesAll, N
    <3>2. Len(path) = N /\ \A k \in 1 .. N : path[k] \in Onward(files, pattern, k, Upto(path, k - 1))
      BY <1>2, <3>1, ReachedAre DEF N
    <3> QED
      BY <1>1, <2>1, <3>2
  <2>2. CASE Promise!Coded!HasRecursion(pattern)
    <3> DEFINE start == Upto(path, n)
    <3>1. n \in 0 .. Len(path) /\ start \in Promise!Coded!Reached(files, pattern, n)
      BY <1>2, <2>2 DEF MatchesBehind, n
    <3>2. start \in Seq(Name) /\ Len(start) = n /\ (\A i \in 1 .. n : start[i] = path[i])
          /\ \A i \in 0 .. n : Upto(start, i) = Upto(path, i)
      BY <1>2, <3>1, UptoSteps
    <3> HIDE DEF start
    <3>3. \A k \in 1 .. n : start[k] \in Onward(files, pattern, k, Upto(start, k - 1))
      BY <1>1, <3>1, <3>2, ReachedAre DEF N
    <3>4. \A k \in 1 .. n : k - 1 \in 0 .. n /\ k \in 1 .. N /\ k \in 1 .. Len(path)
      BY <1>1, <1>3, <3>1
    <3> QED
      BY <2>2, <3>1, <3>2, <3>3, <3>4
  <2> QED
    BY <2>1, <2>2
<1>5. ASSUME NEW k \in 1 .. Len(path), k < First(pattern)
      PROVE  k \in 1 .. n
  BY <1>1, <1>5
<1>6. ASSUME NEW k \in 1 .. Len(path), k >= First(pattern)
      PROVE  /\ path[k] \in Promise!Coded!On(files, base \o Upto(path, n), Upto(Rest(path, n), k - First(pattern)))
             /\ path[k] \in Names(files, Place(files, pattern, path, k - 1))
  <2>1. Promise!Coded!HasRecursion(pattern)
    BY <1>1, <1>3, <1>4, <1>6
  <2>2. Rest(path, n) \in Promise!Coded!Below(files, base \o Upto(path, n))
    BY <1>2, <2>1 DEF MatchesBehind, n, base
  <2>3. base \o Upto(path, n) \in Seq(Name)
    <3> DEFINE start == Upto(path, n)
    <3>1. start \in Seq(Name)
      BY <1>2, <1>4, UptoSteps
    <3> HIDE DEF start
    <3>2. base \o start \in Seq(Name)
      BY <1>1, <3>1
    <3> QED
      BY <3>2 DEF start
  <2>4. WalksOn(files, base \o Upto(path, n), Rest(path, n))
    BY <2>2, <2>3, BelowAre
  <2>5. k > n /\ (k - n) - 1 = k - First(pattern)
    BY <1>1, <1>3, <1>6
  <2>6. /\ path[k] \in Promise!Coded!On(files, base \o Upto(path, n), Upto(Rest(path, n), (k - n) - 1))
        /\ path[k] \in Names(files, Promise!Coded!Spot(files, base, Upto(path, k - 1)))
    BY <1>1, <1>2, <1>4, <2>4, <2>5, RestWalks
  <2> QED
    BY <2>5, <2>6 DEF Place, base
<1>7. ASSUME NEW k \in 1 .. Len(path), Searched(pattern, k)
      PROVE  path[k] \in Names(files, Place(files, pattern, path, k - 1))
  <2>1. CASE k < First(pattern)
    <3>1. path[k] \in Promise!Coded!Fitting(files, pattern, pattern.components[k], Upto(path, k - 1))
      BY <1>4, <1>5, <1>7, <2>1 DEF Onward, Searched
    <3> QED
      BY <3>1, SameFiles DEF Promise!Coded!Fitting, Place
  <2>2. CASE ~(k < First(pattern))
    <3>1. k >= First(pattern)
      BY <1>1, <2>2
    <3> QED
      BY <1>6, <3>1
  <2> QED
    BY <2>1, <2>2
<1> QED
  BY <1>2, <1>4, <1>5, <1>6, <1>7 DEF N, n, base

\* The nodes that a pattern may have, and what a component adds to them.
Part(pattern) == {Literals(path) : path \in Seq(Name)}
                 \cup {NodeOf(Components(pattern)[i]) : i \in DOMAIN pattern.components}
Added(pattern, i, parts) ==
    IF Components(pattern)[i] = Current THEN parts ELSE AddNode(parts, NodeOf(Components(pattern)[i]))
Opening(pattern) == IF pattern.absolute THEN << Literals(<<>>) >> ELSE <<>>

\* What a component is read as.
ReadAs(pattern, j) ==
    LET component == pattern.components[j]
        node == NodeOf(Components(pattern)[j])
    IN  /\ Components(pattern)[j] = Promise!Coded!Spelled(component) /\ Components(pattern)[j] # Current
        /\ Promise!Coded!AsWritten(component) =>
             Promise!Coded!Written(component) \in Name /\ node = Literals(<<Promise!Coded!Written(component)>>)
        /\ ~Promise!Coded!AsWritten(component) => node.kind \in {"recursive", "regex"}
        /\ ~Promise!Coded!AsWritten(component) => (node.kind = "recursive" <=> component.kind = "recursion")

\* Every component of a pattern is read so.
LEMMA ComponentRead ==
    ASSUME PatternsAreRead, NEW pattern, Readable(pattern), NEW j \in DOMAIN pattern.components
    PROVE  ReadAs(pattern, j)
<1> DEFINE component == pattern.components[j]
           text == Promise!Coded!Spelled(component)
           node == NodeOf(text)
<1>1. /\ text # Current
      /\ IF Promise!Coded!AsWritten(component)
         THEN Promise!Coded!Written(component) \in Name /\ node = Literals(<<Promise!Coded!Written(component)>>)
         ELSE IF component.kind = "recursion" THEN node = Recursive
         ELSE node.kind = "regex"
  BY DEF PatternsAreRead, Readable
<1>2. Components(pattern)[j] = text
  BY DEF Components
<1>3. Recursive.kind = "recursive"
  BY DEF Recursive
<1> HIDE DEF node
<1>4. ~Promise!Coded!AsWritten(component) => node.kind \in {"recursive", "regex"}
  BY <1>1, <1>3
<1>5. ~Promise!Coded!AsWritten(component) => (node.kind = "recursive" <=> component.kind = "recursion")
  BY <1>1, <1>3
<1> QED
  BY <1>1, <1>2, <1>4, <1>5 DEF ReadAs, node

\* A node is added behind the others, or put together with the last of them.
LEMMA AddNodeTyped ==
    ASSUME PatternsAreRead, NEW pattern, Readable(pattern),
           NEW parts \in Seq(Part(pattern)), NEW i \in DOMAIN pattern.components
    PROVE  Added(pattern, i, parts) \in Seq(Part(pattern))
<1> DEFINE node == NodeOf(Components(pattern)[i])
           V == Part(pattern)
<1>1. node \in V
  BY DEF Part
<1>2. CASE node.kind = "literals" /\ parts # <<>> /\ Last(parts).kind = "literals"
  <2>1. \A part \in V : part.kind = "literals" => part.path \in Seq(Name)
    <3>1. ASSUME NEW j \in DOMAIN pattern.components, NodeOf(Components(pattern)[j]).kind = "literals"
          PROVE  NodeOf(Components(pattern)[j]).path \in Seq(Name)
      <4> DEFINE written == Promise!Coded!Written(pattern.components[j])
      <4>1. written \in Name /\ NodeOf(Components(pattern)[j]) = Literals(<<written>>)
        BY <3>1, ComponentRead DEF ReadAs
      <4> HIDE DEF written
      <4> QED
        BY <4>1 DEF Literals
    <3> QED
      BY <3>1 DEF Part, Literals
  <2> HIDE DEF node, V
  <2>2. Front(parts) \in Seq(V) /\ Last(parts) \in V
    BY <1>2, FrontAndLast DEF V
  <2> DEFINE both == Last(parts).path \o node.path
  <2>3. both \in Seq(Name)
    BY <1>1, <1>2, <2>1, <2>2
  <2> HIDE DEF both
  <2>4. Literals(both) \in V
    BY <2>3 DEF V, Part
  <2>5. Append(Front(parts), Literals(both)) \in Seq(V)
    BY <2>2, <2>4
  <2>6. AddNode(parts, node) = Append(Front(parts), Literals(both))
    BY <1>2 DEF AddNode, both
  <2> QED
    BY <2>5, <2>6 DEF Added, node, V
<1>3. CASE ~(node.kind = "literals" /\ parts # <<>> /\ Last(parts).kind = "literals")
  <2> HIDE DEF node, V
  <2>1. Append(parts, node) \in Seq(V)
    BY <1>1 DEF V
  <2>2. AddNode(parts, node) = Append(parts, node)
    BY <1>3 DEF AddNode
  <2> QED
    BY <2>1, <2>2 DEF Added, node, V
<1> QED
  BY <1>2, <1>3

\* The nodes after each of the components.
NodeRun(at, pattern) ==
    /\ at \in [0 .. Len(pattern.components) -> Seq(Part(pattern))]
    /\ at[0] = Opening(pattern)
    /\ at[Len(pattern.components)] = NodesOf(pattern.absolute, Components(pattern))
    /\ \A i \in 1 .. Len(pattern.components) : at[i] = Added(pattern, i, at[i - 1])

\* The nodes are made so, component by component.
LEMMA NodesRun ==
    ASSUME PatternsAreRead, NEW pattern, Readable(pattern)
    PROVE  \E at : NodeRun(at, pattern)
<1> DEFINE n == Len(pattern.components)
           S == Seq(Part(pattern))
           base == Opening(pattern)
           all == Components(pattern)
           Turn == [p \in S \X (1 .. n) |-> Added(pattern, p[2], p[1])]
           Is(iter) == iter = [s \in SUBSET DOMAIN all |->
                                 IF s = {} THEN base ELSE Added(pattern, Max(s), iter[s \ {Max(s)}])]
           iter == CHOOSE iter : Is(iter)
<1>1. n \in Nat /\ DOMAIN pattern.components = 1 .. n /\ DOMAIN all = 1 .. n
  BY PatternTyped DEF Components
<1>2. base \in S
  <2>1. <<>> \in Seq(Name)
    OBVIOUS
  <2>2. Literals(<<>>) \in Part(pattern)
    BY <2>1 DEF Part
  <2> QED
    BY <2>2 DEF Opening
<1>3. \A parts \in S, i \in 1 .. n : Added(pattern, i, parts) \in S
  BY <1>1, AddNodeTyped
<1>4. Turn \in [S \X (1 .. n) -> S]
  <2> HIDE DEF n, S
  <2> QED
    BY <1>3
<1>5. \A parts \in S, i \in 1 .. n : Turn[parts, i] = Added(pattern, i, parts) /\ Turn[parts, i] \in S
  <2> HIDE DEF n, S
  <2> QED
    BY <1>3
<1>6. NodesOf(pattern.absolute, all) = iter[DOMAIN all]
  BY Zenon DEF NodesOf, FoldLeft, MapThenFoldSet, Added, Opening
<1>7. \A s \in SUBSET (1 .. n) : s # {} => Max(s) \in 1 .. n
  <2> HIDE DEF n
  <2> QED
    BY <1>1, MaxIsGreatest
<1>8. \E f : Is(f)
  <2>1. PICK g \in [SUBSET (1 .. n) -> S] : Folded(g, n, base, Turn)
    <3> HIDE DEF n, S, Turn, base
    <3> QED
      BY <1>1, <1>2, <1>4, FoldExists DEF Foldable
  <2>2. ASSUME NEW s \in SUBSET (1 .. n)
        PROVE  g[s] = IF s = {} THEN base ELSE Added(pattern, Max(s), g[s \ {Max(s)}])
    <3> HIDE DEF n, S, Turn, base
    <3> QED
      BY <1>5, <1>7, <2>1 DEF Folded
  <2>3. Is(g)
    <3> HIDE DEF n, S, Turn, base, all
    <3> QED
      BY <1>1, <2>2
  <2> QED
    BY <2>3
<1>9. Is(iter)
  <2> HIDE DEF Is
  <2> QED
    BY <1>8
<1>10. ASSUME NEW s \in SUBSET (1 .. n)
       PROVE  iter[s] = IF s = {} THEN base ELSE Added(pattern, Max(s), iter[s \ {Max(s)}])
  <2> HIDE DEF n, iter, base, all
  <2> QED
    BY <1>1, <1>9
<1> HIDE DEF iter, Is, Turn, n, S, base
<1>11. PICK at \in [0 .. n -> S] : Stepping(at, n, base, iter[1 .. n], Turn)
  <2>1. Folding(iter, n, base, S, Turn)
    BY <1>5, <1>7, <1>10 DEF Folding
  <2> QED
    BY <1>1, <1>2, <1>4, <2>1, FoldsPrefixes
<1>12. \A i \in 1 .. n : at[i] = Added(pattern, i, at[i - 1])
  <2>1. \A i \in 1 .. n : i - 1 \in 0 .. n
    BY <1>1
  <2> QED
    BY <1>5, <1>11, <2>1 DEF Stepping
<1>13. at[0] = base /\ at[n] = NodesOf(pattern.absolute, all)
  BY <1>1, <1>6, <1>11 DEF Stepping
<1> HIDE DEF all
<1>14. NodeRun(at, pattern)
  BY <1>11, <1>12, <1>13 DEF NodeRun, n, S, base, all
<1> QED
  BY <1>14

\* The n-th node is that of the components behind the first at[n].
Lies(at, parts, pattern, n) ==
    \/ /\ parts[n].kind = "literals" /\ parts[n].path \in Seq(Name)
       /\ at[n + 1] = at[n] + Len(parts[n].path)
       /\ \A i \in 1 .. Len(parts[n].path) :
            /\ Promise!Coded!AsWritten(pattern.components[at[n] + i])
            /\ parts[n].path[i] = Promise!Coded!Written(pattern.components[at[n] + i])
    \/ /\ parts[n].kind \in {"recursive", "regex"} /\ at[n + 1] = at[n] + 1
       /\ ~Promise!Coded!AsWritten(pattern.components[at[n] + 1])
       /\ parts[n] = NodeOf(Components(pattern)[at[n] + 1])
       /\ parts[n].kind = "recursive" <=> pattern.components[at[n] + 1].kind = "recursion"

\* The nodes are those of the first k components: there is always one behind literals
\* that is none, and only the last one ends behind them all.
Laid(at, parts, pattern, k) ==
    /\ parts \in Seq(Part(pattern))
    /\ at \in [1 .. (Len(parts) + 1) -> 0 .. k]
    /\ at[1] = 0 /\ at[Len(parts) + 1] = k
    /\ \A i, j \in 1 .. (Len(parts) + 1) : i <= j => at[i] <= at[j]
    /\ \A n \in 1 .. (Len(parts) - 1) :
         at[n + 1] < k /\ (parts[n].kind = "literals" => parts[n + 1].kind # "literals")
    /\ \A n \in 1 .. Len(parts) : Lies(at, parts, pattern, n)

\* The first nodes.
LEMMA LaidFirst ==
    ASSUME NEW pattern
    PROVE  \E at : Laid(at, Opening(pattern), pattern, 0)
<1>1. CASE pattern.absolute
  <2> DEFINE parts == << Literals(<<>>) >>
             at == [i \in 1 .. 2 |-> 0]
  <2>1. Literals(<<>>) \in Part(pattern) /\ <<>> \in Seq(Name)
    <3>1. <<>> \in Seq(Name)
      OBVIOUS
    <3> QED
      BY <3>1 DEF Part
  <2>2. parts \in Seq(Part(pattern)) /\ Len(parts) = 1 /\ parts[1].kind = "literals" /\ parts[1].path = <<>>
    BY <2>1 DEF Literals
  <2>3. at \in [1 .. 2 -> 0 .. 0] /\ at[1] = 0 /\ at[2] = 0
    OBVIOUS
  <2> HIDE DEF at, parts
  <2>4. Lies(at, parts, pattern, 1)
    BY <2>1, <2>2, <2>3 DEF Lies
  <2>5. Laid(at, parts, pattern, 0)
    BY <2>2, <2>3, <2>4 DEF Laid
  <2>6. Opening(pattern) = parts
    BY <1>1 DEF Opening, parts
  <2> QED
    BY <2>5, <2>6
<1>2. CASE ~pattern.absolute
  <2> DEFINE at == [i \in 1 .. 1 |-> 0]
  <2>1. Laid(at, <<>>, pattern, 0)
    BY DEF Laid
  <2> QED
    BY <1>2, <2>1 DEF Opening
<1> QED
  BY <1>1, <1>2

\* A component whose node is put together with the literals before it.
LEMMA LaidLonger ==
    ASSUME PatternsAreRead, NEW pattern, Readable(pattern), NEW k \in 1 .. Len(pattern.components),
           NEW parts, NEW at, Laid(at, parts, pattern, k - 1), parts # <<>>,
           parts[Len(parts)].kind = "literals", NodeOf(Components(pattern)[k]).kind = "literals"
    PROVE  \E by : Laid(by, Added(pattern, k, parts), pattern, k)
<1> DEFINE node == NodeOf(Components(pattern)[k])
           written == Promise!Coded!Written(pattern.components[k])
           old == parts[Len(parts)].path
           both == old \o <<written>>
           m == Len(parts)
           more == Added(pattern, k, parts)
           by == [i \in 1 .. (m + 1) |-> IF i = m + 1 THEN k ELSE at[i]]
<1>1. k \in Nat /\ k \in DOMAIN pattern.components /\ parts \in Seq(Part(pattern))
  BY PatternTyped DEF Laid
<1>2. m \in Nat /\ m # 0
  BY <1>1
<1>3. ReadAs(pattern, k)
  BY <1>1, ComponentRead
<1>4. Promise!Coded!AsWritten(pattern.components[k]) /\ written \in Name /\ node = Literals(<<written>>)
  BY <1>3 DEF ReadAs
<1>5. Components(pattern)[k] # Current
  BY <1>3 DEF ReadAs
<1> HIDE DEF written
<1>6. more = Append(Front(parts), Literals(both))
  BY <1>4, <1>5 DEF Added, AddNode, Last, Literals
<1>7. Lies(at, parts, pattern, m) /\ old \in Seq(Name) /\ at[m + 1] = k - 1 /\ at[m + 1] = at[m] + Len(old)
  BY <1>2, SMTT(20) DEF Laid, Lies
<1>8. /\ both \in Seq(Name) /\ Len(both) = Len(old) + 1 /\ both[Len(old) + 1] = written
      /\ \A i \in 1 .. Len(old) : both[i] = old[i]
  BY <1>4, <1>7
<1>9. more \in Seq(Part(pattern))
  BY <1>1, AddNodeTyped
<1> HIDE DEF both, old
<1>10. Len(more) = m /\ more[m] = Literals(both) /\ \A i \in 1 .. (m - 1) : more[i] = parts[i]
  <2> DEFINE last == Literals(both)
             front == Front(parts)
  <2>1. front \in Seq(Part(pattern)) /\ Len(front) = m - 1 /\ \A i \in 1 .. (m - 1) : front[i] = parts[i]
    <3>1. m - 1 \in 0 .. Len(parts)
      BY <1>2
    <3>2. front = Upto(parts, m - 1)
      BY DEF Front, Upto
    <3> HIDE DEF front
    <3> QED
      BY <1>1, <3>1, <3>2, UptoSteps
  <2> HIDE DEF last, front
  <2>2. Len(Append(front, last)) = m /\ Append(front, last)[m] = last
        /\ \A i \in 1 .. (m - 1) : Append(front, last)[i] = front[i]
    BY <1>2, <2>1
  <2> HIDE DEF m
  <2> QED
    BY <1>6, <2>1, <2>2 DEF last, front
<1> HIDE DEF more, m, node
<1>11. \A i \in 1 .. m : by[i] = at[i]
  BY <1>2
<1>12. by[m + 1] = k
  BY <1>2
<1>13. at \in [1 .. (m + 1) -> 0 .. (k - 1)]
  BY DEF Laid, m
<1>14. by \in [1 .. (m + 1) -> 0 .. k]
  BY <1>1, <1>13
<1> HIDE DEF by
<1>15. \A i, j \in 1 .. (m + 1) : i <= j => by[i] <= by[j]
  <2>1. \A i, j \in 1 .. (m + 1) : i <= j => at[i] <= at[j]
    BY DEF Laid, m
  <2> QED
    BY <1>1, <1>2, <1>11, <1>12, <1>14, <2>1, SMTT(20)
<1>16. ASSUME NEW n \in 1 .. (m - 1)
       PROVE  by[n + 1] < k /\ (more[n].kind = "literals" => more[n + 1].kind # "literals")
  <2>1. n + 1 \in 1 .. m /\ n \in 1 .. m /\ n + 1 \in 1 .. (m + 1)
    BY <1>2
  <2>2. by[n + 1] = at[n + 1] /\ at[n + 1] \in 0 .. (k - 1)
    BY <1>11, <1>13, <2>1
  <2>3. parts[n].kind = "literals" => parts[n + 1].kind # "literals"
    BY DEF Laid, m
  <2>4. more[m].kind = "literals"
    BY <1>10 DEF Literals
  <2>5. more[n + 1].kind = parts[n + 1].kind /\ more[n].kind = parts[n].kind
    <3>1. CASE n + 1 = m
      BY <1>10, <2>4, <3>1 DEF m
    <3>2. CASE n + 1 # m
      <4>1. n + 1 \in 1 .. (m - 1)
        BY <1>2, <3>2
      <4> QED
        BY <1>10, <4>1
    <3> QED
      BY <3>1, <3>2
  <2> QED
    BY <1>1, <2>2, <2>3, <2>5
<1>17. ASSUME NEW n \in 1 .. m
       PROVE  Lies(by, more, pattern, n)
  <2>1. CASE n # m
    <3>1. n \in 1 .. (m - 1) /\ n + 1 \in 1 .. m
      BY <1>2, <2>1
    <3>2. more[n] = parts[n] /\ by[n] = at[n] /\ by[n + 1] = at[n + 1] /\ Lies(at, parts, pattern, n)
      BY <1>10, <1>11, <3>1 DEF Laid, m
    <3> QED
      BY <3>2 DEF Lies
  <2>2. CASE n = m
    <3>1. more[m].kind = "literals" /\ more[m].path = both
      BY <1>10 DEF Literals
    <3>2. PICK o \in Nat : o = Len(old)
      BY <1>7
    <3>3. m \in 1 .. (m + 1) /\ m \in 1 .. m
      BY <1>2
    <3>4. PICK from \in Nat : from = at[m] /\ by[m] = from
      BY <1>11, <1>13, <3>3
    <3>5. from + o = k - 1
      BY <1>7, <3>2, <3>4
    <3>6. from + (o + 1) = k
      BY <1>1, <3>5
    <3>7. by[m + 1] = by[m] + Len(both)
      BY <1>8, <1>12, <3>2, <3>4, <3>6
    <3>8. ASSUME NEW i \in 1 .. Len(both)
          PROVE  /\ Promise!Coded!AsWritten(pattern.components[by[m] + i])
                 /\ both[i] = Promise!Coded!Written(pattern.components[by[m] + i])
      <4>1. CASE i = o + 1
        <5>1. by[m] + i = k
          BY <3>4, <3>6, <4>1
        <5> QED
          BY <1>4, <1>8, <3>2, <4>1, <5>1 DEF written
      <4>2. CASE i # o + 1
        <5>1. i \in 1 .. Len(old)
          BY <1>8, <3>2, <4>2
        <5>2. \A h \in 1 .. Len(old) : /\ Promise!Coded!AsWritten(pattern.components[at[m] + h])
                                       /\ old[h] = Promise!Coded!Written(pattern.components[at[m] + h])
          BY <1>7 DEF Lies, old, m
        <5> QED
          BY <1>8, <3>4, <5>1, <5>2
      <4> QED
        BY <4>1, <4>2
    <3> QED
      BY <1>8, <2>2, <3>1, <3>7, <3>8 DEF Lies
  <2> QED
    BY <2>1, <2>2
<1>18. by[1] = 0
  BY <1>2, <1>11 DEF Laid
<1>19. Laid(by, more, pattern, k)
  BY <1>9, <1>10, <1>12, <1>14, <1>15, <1>16, <1>17, <1>18 DEF Laid
<1> QED
  BY <1>19 DEF more

\* A component whose node is one of its own.
LEMMA LaidFurther ==
    ASSUME PatternsAreRead, NEW pattern, Readable(pattern), NEW k \in 1 .. Len(pattern.components),
           NEW parts, NEW at, Laid(at, parts, pattern, k - 1),
           ~ (parts # <<>> /\ parts[Len(parts)].kind = "literals" /\ NodeOf(Components(pattern)[k]).kind = "literals")
    PROVE  \E by : Laid(by, Added(pattern, k, parts), pattern, k)
<1> DEFINE node == NodeOf(Components(pattern)[k])
           m == Len(parts)
           more == Added(pattern, k, parts)
           by == [i \in 1 .. (m + 2) |-> IF i = m + 2 THEN k ELSE at[i]]
<1>1. k \in Nat /\ k \in DOMAIN pattern.components /\ parts \in Seq(Part(pattern))
  BY PatternTyped DEF Laid
<1>2. m \in Nat /\ (parts # <<>> <=> m # 0)
  BY <1>1
<1>3. ReadAs(pattern, k)
  BY <1>1, ComponentRead
<1>4. more = Append(parts, node)
  <2>1. Components(pattern)[k] # Current
    BY <1>3 DEF ReadAs
  <2> QED
    BY <2>1 DEF Added, AddNode, Last
<1>5. more \in Seq(Part(pattern))
  BY <1>1, AddNodeTyped
<1> HIDE DEF node
<1>6. Len(more) = m + 1 /\ more[m + 1] = node /\ \A i \in 1 .. m : more[i] = parts[i]
  BY <1>1, <1>4
<1> HIDE DEF more, m
<1>7. at \in [1 .. (m + 1) -> 0 .. (k - 1)] /\ at[m + 1] = k - 1
  BY DEF Laid, m
<1>8. by[m + 2] = k /\ \A i \in 1 .. (m + 1) : by[i] = at[i]
  BY <1>2
<1>9. by \in [1 .. (m + 2) -> 0 .. k]
  <2>1. \A i \in 1 .. (m + 2) : i # m + 2 => i \in 1 .. (m + 1)
    BY <1>2
  <2> QED
    BY <1>1, <1>7, <2>1
<1> HIDE DEF by
<1>10. \A i, j \in 1 .. (m + 2) : i <= j => by[i] <= by[j]
  <2>1. \A i, j \in 1 .. (m + 1) : i <= j => at[i] <= at[j]
    BY DEF Laid, m
  <2> QED
    BY <1>1, <1>2, <1>8, <1>9, <2>1, SMTT(20)
<1>11. ASSUME NEW n \in 1 .. m
       PROVE  by[n + 1] < k /\ (more[n].kind = "literals" => more[n + 1].kind # "literals")
  <2>1. n + 1 \in 1 .. (m + 1)
    BY <1>2
  <2>2. by[n + 1] < k
    BY <1>1, <1>7, <1>8, <2>1
  <2>3. CASE n = m
    <3>1. m \in 1 .. m /\ m # 0
      BY <2>3
    <3>2. more[m] = parts[m] /\ more[m + 1] = node
      BY <1>6, <3>1
    <3>3. ~ (parts[m].kind = "literals" /\ node.kind = "literals")
      BY <1>2, <3>1 DEF m, node
    <3> QED
      BY <2>2, <2>3, <3>2, <3>3
  <2>4. CASE n # m
    <3>1. n \in 1 .. (m - 1) /\ n + 1 \in 1 .. m
      BY <1>2, <2>4
    <3>2. parts[n].kind = "literals" => parts[n + 1].kind # "literals"
      BY <3>1 DEF Laid, m
    <3> QED
      BY <1>6, <2>2, <3>1, <3>2
  <2> QED
    BY <2>3, <2>4
<1>12. ASSUME NEW n \in 1 .. (m + 1)
       PROVE  Lies(by, more, pattern, n)
  <2>1. CASE n # m + 1
    <3>1. n \in 1 .. m /\ n + 1 \in 1 .. (m + 1)
      BY <1>2, <2>1
    <3>2. more[n] = parts[n] /\ by[n] = at[n] /\ by[n + 1] = at[n + 1] /\ Lies(at, parts, pattern, n)
      BY <1>6, <1>8, <3>1 DEF Laid, m
    <3> QED
      BY <3>2 DEF Lies
  <2>2. CASE n = m + 1
    <3>1. m + 1 \in 1 .. (m + 1) /\ (m + 1) + 1 = m + 2
      BY <1>2
    <3>2. by[m + 1] = k - 1 /\ by[(m + 1) + 1] = by[m + 1] + 1 /\ by[m + 1] + 1 = k
      BY <1>1, <1>7, <1>8, <3>1
    <3>3. more[m + 1] = node
      BY <1>6
    <3>4. CASE Promise!Coded!AsWritten(pattern.components[k])
      <4> DEFINE written == Promise!Coded!Written(pattern.components[k])
                 path == <<written>>
      <4>1. written \in Name /\ node = Literals(path)
        BY <1>3, <3>4 DEF ReadAs, node
      <4> HIDE DEF written
      <4>2. path \in Seq(Name) /\ Len(path) = 1 /\ path[1] = written
        BY <4>1
      <4> HIDE DEF path
      <4>3. node.kind = "literals" /\ node.path = path
        BY <4>1 DEF Literals
      <4>4. by[(m + 1) + 1] = by[m + 1] + Len(path)
        BY <3>2, <4>2
      <4>5. \A i \in 1 .. Len(path) : i = 1
        BY <4>2
      <4>6. \A i \in 1 .. Len(path) : /\ Promise!Coded!AsWritten(pattern.components[by[m + 1] + i])
                                      /\ path[i] = Promise!Coded!Written(pattern.components[by[m + 1] + i])
        BY <3>2, <3>4, <4>2, <4>5 DEF written
      <4> QED
        BY <2>2, <3>3, <4>2, <4>3, <4>4, <4>6 DEF Lies
    <3>5. CASE ~Promise!Coded!AsWritten(pattern.components[k])
      <4>1. node.kind \in {"recursive", "regex"} /\ (node.kind = "recursive" <=> pattern.components[k].kind = "recursion")
        BY <1>3, <3>5 DEF ReadAs, node
      <4> QED
        BY <2>2, <3>2, <3>3, <3>5, <4>1 DEF Lies, node
    <3> QED
      BY <3>4, <3>5
  <2> QED
    BY <2>1, <2>2
<1>13. by[1] = 0
  BY <1>2, <1>8 DEF Laid
<1>14. (m + 1) - 1 = m /\ (m + 1) + 1 = m + 2
  BY <1>2
<1>15. Laid(by, more, pattern, k)
  BY <1>5, <1>6, <1>8, <1>9, <1>10, <1>11, <1>12, <1>13, <1>14 DEF Laid
<1> QED
  BY <1>15 DEF more

\* The nodes of every pattern are laid out so.
LEMMA LaidOut ==
    ASSUME PatternsAreRead, NEW pattern, Readable(pattern)
    PROVE  \E at : Laid(at, NodesOf(pattern.absolute, Components(pattern)), pattern, Len(pattern.components))
<1> DEFINE N == Len(pattern.components)
<1>1. PICK run : NodeRun(run, pattern)
  BY NodesRun
<1> DEFINE T == {k \in 0 .. N : ~ \E at : Laid(at, run[k], pattern, k)}
<1>2. N \in Nat
  BY PatternTyped
<1>3. T = {}
  <2> SUFFICES ASSUME T # {}
               PROVE  FALSE
    OBVIOUS
  <2>1. T \in SUBSET Nat
    BY <1>2
  <2> HIDE DEF T
  <2>2. PICK k \in T : \A j \in T : k <= j
    BY <2>1, LeastNumber
  <2>3. k \in 0 .. N /\ ~ \E at : Laid(at, run[k], pattern, k)
    BY DEF T
  <2>4. run[0] = Opening(pattern)
    BY <1>1 DEF NodeRun
  <2>5. k # 0
    BY <2>3, <2>4, LaidFirst
  <2>6. k \in 1 .. N /\ k - 1 \in 0 .. N /\ k - 1 \notin T
    BY <1>2, <2>2, <2>3, <2>5
  <2>7. PICK at : Laid(at, run[k - 1], pattern, k - 1)
    BY <2>6 DEF T
  <2>8. run[k] = Added(pattern, k, run[k - 1])
    BY <1>1, <2>6 DEF NodeRun
  <2>9. \E by : Laid(by, Added(pattern, k, run[k - 1]), pattern, k)
    BY <2>6, <2>7, LaidLonger, LaidFurther
  <2> QED
    BY <2>3, <2>8, <2>9
<1>4. N \in 0 .. N
  BY <1>2
<1>5. \E at : Laid(at, run[N], pattern, N)
  BY <1>3, <1>4
<1>6. run[N] = NodesOf(pattern.absolute, Components(pattern))
  BY <1>1 DEF NodeRun
<1> QED
  BY <1>5, <1>6

\* Where a node is that starts before the first ** that is not the last component, or with it.
AheadOf(at, parts, pattern, n) ==
    /\ at[n] \in Nat /\ at[n + 1] \in Nat
    /\ parts[n].kind \in {"literals", "recursive", "regex"}
    /\ parts[n].kind = "literals" => /\ parts[n].path \in Seq(Name) /\ at[n + 1] = at[n] + Len(parts[n].path)
                                     /\ at[n + 1] < First(pattern)
                                     /\ n < Len(parts) => parts[n + 1].kind # "literals"
    /\ parts[n].kind # "literals" => /\ at[n] + 1 \in 1 .. Len(pattern.components) /\ at[n + 1] = at[n] + 1
                                     /\ ~Promise!Coded!AsWritten(pattern.components[at[n] + 1])
    /\ parts[n].kind = "regex" => at[n + 1] < First(pattern)
    /\ parts[n].kind = "recursive" /\ n < Len(parts) => at[n] = First(pattern) - 1 /\ Promise!Coded!HasRecursion(pattern)
    /\ n = Len(parts) => ~Promise!Coded!HasRecursion(pattern) /\ at[n + 1] = Len(pattern.components)

\* Every such node is there: only a ** that is not the last component is at the first **, and
\* with one there is no last node before it.
LEMMA LaidAhead ==
    ASSUME PatternsAreRead, NEW pattern, Readable(pattern), NEW parts, NEW at,
           Laid(at, parts, pattern, Len(pattern.components)),
           NEW n \in 1 .. Len(parts), at[n] < First(pattern)
    PROVE  AheadOf(at, parts, pattern, n)
<1> DEFINE N == Len(pattern.components)
           m == Len(parts)
           first == First(pattern)
<1>1. N \in Nat /\ N # 0 /\ first \in 1 .. (N + 1) /\ m \in Nat /\ n \in 1 .. m
      /\ (Promise!Coded!HasRecursion(pattern) <=> first # N + 1)
      /\ (Promise!Coded!HasRecursion(pattern) => first < N /\ pattern.components[first].kind = "recursion")
      /\ \A i \in 1 .. (N - 1) : pattern.components[i].kind = "recursion" => first <= i
  BY PatternTyped, FirstIs DEF Laid
<1>2. at \in [1 .. (m + 1) -> 0 .. N] /\ at[m + 1] = N
  BY DEF Laid
<1>3. n < m => at[n + 1] < N /\ (parts[n].kind = "literals" => parts[n + 1].kind # "literals")
  <2>1. n < m => n \in 1 .. (m - 1)
    BY <1>1
  <2> QED
    BY <2>1 DEF Laid
<1>4. Lies(at, parts, pattern, n)
  BY DEF Laid
<1>5. \A i \in 1 .. N : pattern.components[i].kind = "recursion" => ~Promise!Coded!AsWritten(pattern.components[i])
  BY DEF Promise!Coded!AsWritten
<1>6. n \in 1 .. (m + 1) /\ n + 1 \in 1 .. (m + 1)
  BY <1>1
<1>7. PICK from \in 0 .. N : from = at[n]
  BY <1>2, <1>6
<1>8. PICK to \in 0 .. N : to = at[n + 1]
  BY <1>2, <1>6
<1> HIDE DEF N, m, first
<1>9. from < first /\ (n = m => to = N) /\ (n < m => to < N) /\ (n < m \/ n = m)
  BY <1>1, <1>2, <1>3, <1>7, <1>8 DEF first
<1>10. CASE parts[n].kind = "literals"
  <2>1. PICK len \in Nat : len = Len(parts[n].path)
    BY <1>4, <1>10 DEF Lies
  <2>2. parts[n].path \in Seq(Name) /\ to = from + len
        /\ \A i \in 1 .. len : Promise!Coded!AsWritten(pattern.components[from + i])
    BY <1>4, <1>7, <1>8, <1>10, <2>1 DEF Lies
  <2>3. to < first
    <3>1. SUFFICES ASSUME to >= first
                   PROVE  FALSE
      BY <1>1
    <3>2. first # N + 1 /\ first \in 1 .. N
      BY <1>1, <1>8, <3>1
    <3>3. first - from \in 1 .. len /\ from + (first - from) = first
      BY <1>1, <1>9, <2>2, <3>1
    <3> QED
      BY <1>1, <1>5, <2>2, <3>2, <3>3
  <2>4. n = m => ~Promise!Coded!HasRecursion(pattern)
    BY <1>1, <1>9, <2>3
  <2> QED
    BY <1>3, <1>7, <1>8, <1>9, <1>10, <2>1, <2>2, <2>3, <2>4 DEF AheadOf, first, m, N
<1>11. CASE parts[n].kind # "literals"
  <2>1. parts[n].kind \in {"recursive", "regex"} /\ to = from + 1
        /\ ~Promise!Coded!AsWritten(pattern.components[from + 1])
        /\ (parts[n].kind = "recursive" <=> pattern.components[from + 1].kind = "recursion")
    BY <1>4, <1>7, <1>8, <1>11 DEF Lies
  <2>2. from + 1 \in 1 .. N
    BY <1>8, <2>1
  <2>3. parts[n].kind = "regex" => to < first
    <3>1. SUFFICES ASSUME parts[n].kind = "regex", to >= first
                   PROVE  FALSE
      BY <1>1
    <3>2. from + 1 = first
      BY <1>1, <1>9, <2>1, <3>1
    <3>3. Promise!Coded!HasRecursion(pattern)
      BY <1>1, <2>2, <3>2
    <3> QED
      BY <1>1, <2>1, <3>1, <3>2, <3>3
  <2>4. parts[n].kind = "recursive" /\ n < m => from = first - 1 /\ Promise!Coded!HasRecursion(pattern)
    <3> SUFFICES ASSUME parts[n].kind = "recursive", n < m
                 PROVE  from = first - 1 /\ Promise!Coded!HasRecursion(pattern)
      OBVIOUS
    <3>1. from + 1 \in 1 .. (N - 1)
      BY <1>1, <1>9, <2>1, <2>2
    <3>2. first <= from + 1
      BY <1>1, <2>1, <3>1
    <3> QED
      BY <1>1, <1>9, <3>1, <3>2
  <2>5. n = m => ~Promise!Coded!HasRecursion(pattern)
    BY <1>1, <1>9, <2>1
  <2> QED
    BY <1>7, <1>8, <1>9, <1>11, <2>1, <2>2, <2>3, <2>4, <2>5 DEF AheadOf, first, m, N
<1> QED
  BY <1>10, <1>11

\* A path goes on from a directory; it does so with one of these names.
Leads(dir, path) == Len(dir) <= Len(path) /\ \A i \in 1 .. Len(dir) : path[i] = dir[i]
Awaits(dir, names, path) == Leads(dir, path) /\ Len(dir) < Len(path) /\ path[Len(dir) + 1] \in names

\* A longer directory is one further name.
LEMMA LeadsAppend ==
    ASSUME NEW dir \in Seq(Name), NEW path \in Seq(Name), NEW name \in Name
    PROVE  Leads(Append(dir, name), path) <=> Awaits(dir, {name}, path)
<1> DEFINE more == Append(dir, name)
           n == Len(dir)
<1>1. n \in Nat /\ Len(path) \in Nat /\ Len(more) = n + 1 /\ more[n + 1] = name
      /\ \A i \in 1 .. n : more[i] = dir[i]
  OBVIOUS
<1> HIDE DEF more, n
<1>2. ASSUME Leads(more, path)
      PROVE  Awaits(dir, {name}, path)
  <2>1. \A i \in 1 .. (n + 1) : path[i] = more[i]
    BY <1>1, <1>2 DEF Leads
  <2>2. \A i \in 1 .. n : i \in 1 .. (n + 1)
    BY <1>1
  <2>3. n + 1 \in 1 .. (n + 1)
    BY <1>1
  <2> QED
    BY <1>1, <1>2, <2>1, <2>2, <2>3 DEF Leads, Awaits, n
<1>3. ASSUME Awaits(dir, {name}, path)
      PROVE  Leads(more, path)
  <2>1. \A i \in 1 .. (n + 1) : i \in 1 .. n \/ i = n + 1
    BY <1>1
  <2> QED
    BY <1>1, <1>3, <2>1 DEF Leads, Awaits, n
<1> QED
  BY <1>2, <1>3 DEF more

\* What goes on from further down goes on from here.
LEMMA LeadsConcat ==
    ASSUME NEW dir \in Seq(Name), NEW more \in Seq(Name), NEW path \in Seq(Name), Leads(dir \o more, path)
    PROVE  Leads(dir, path)
<1> DEFINE full == dir \o more
<1>1. Len(full) = Len(dir) + Len(more) /\ \A i \in 1 .. Len(dir) : full[i] = dir[i]
  OBVIOUS
<1>2. \A i \in 1 .. Len(dir) : i \in 1 .. (Len(dir) + Len(more))
  OBVIOUS
<1> HIDE DEF full
<1>3. Leads(full, path)
  BY DEF full
<1> QED
  BY <1>1, <1>2, <1>3 DEF Leads

\* A path of its length is the directory.
LEMMA LeadsWhole ==
    ASSUME NEW dir \in Seq(Name), NEW path \in Seq(Name)
    PROVE  /\ Leads(path, path)
           /\ Leads(dir, path) /\ Len(dir) = Len(path) => dir = path
           /\ Leads(dir, path) => Len(dir) \in 0 .. Len(path) /\ Upto(path, Len(dir)) = dir
<1>1. Leads(path, path)
  BY DEF Leads
<1>2. Leads(dir, path) /\ Len(dir) = Len(path) => dir = path
  BY DEF Leads
<1>3. ASSUME Leads(dir, path)
      PROVE  Len(dir) \in 0 .. Len(path) /\ Upto(path, Len(dir)) = dir
  <2>1. Len(dir) \in 0 .. Len(path) /\ \A i \in 1 .. Len(dir) : path[i] = dir[i]
    BY <1>3 DEF Leads
  <2> DEFINE start == Upto(path, Len(dir))
  <2>2. start \in Seq(Name) /\ Len(start) = Len(dir) /\ \A i \in 1 .. Len(dir) : start[i] = path[i]
    BY <2>1, UptoSteps
  <2> HIDE DEF start
  <2>3. start = dir
    BY <2>1, <2>2
  <2> QED
    BY <2>1, <2>3 DEF start
<1> QED
  BY <1>1, <1>2, <1>3

\* The first of a sequence, and what is behind it.
LEMMA TailSteps ==
    ASSUME NEW S, NEW s \in Seq(S), s # <<>>
    PROVE  /\ Len(s) \in Nat \ {0} /\ Head(s) = s[1] /\ s[1] \in S /\ 1 \in DOMAIN s
           /\ Tail(s) \in Seq(S) /\ Len(Tail(s)) = Len(s) - 1 /\ DOMAIN s = 1 .. Len(s)
           /\ DOMAIN Tail(s) = 1 .. (Len(s) - 1)
           /\ \A i \in 1 .. (Len(s) - 1) : Tail(s)[i] = s[i + 1]
<1>1. Len(s) \in Nat \ {0}
  OBVIOUS
<1> QED
  BY <1>1

\* What a sequence has when one more is put behind it.
LEMMA AppendSteps ==
    ASSUME NEW S, NEW s \in Seq(S), NEW x \in S
    PROVE  /\ Len(s) \in Nat /\ DOMAIN s = 1 .. Len(s)
           /\ Append(s, x) \in Seq(S) /\ Len(Append(s, x)) = Len(s) + 1
           /\ DOMAIN Append(s, x) = 1 .. (Len(s) + 1)
           /\ Append(s, x)[Len(s) + 1] = x /\ \A i \in 1 .. Len(s) : Append(s, x)[i] = s[i]
  OBVIOUS

\* What a sequence has when its first is another.
LEMMA HeadSteps ==
    ASSUME NEW S, NEW s \in Seq(S), s # <<>>, NEW x \in S
    PROVE  /\ <<x>> \o Tail(s) \in Seq(S) /\ Len(<<x>> \o Tail(s)) = Len(s)
           /\ (<<x>> \o Tail(s))[1] = x /\ \A i \in 2 .. Len(s) : (<<x>> \o Tail(s))[i] = s[i]
<1> DEFINE t == Tail(s)
<1>1. t \in Seq(S) /\ Len(t) = Len(s) - 1 /\ Len(s) \in Nat \ {0} /\ \A i \in 1 .. (Len(s) - 1) : t[i] = s[i + 1]
  BY TailSteps
<1> HIDE DEF t
<1> DEFINE u == <<x>> \o t
<1>2. u \in Seq(S) /\ Len(u) = 1 + Len(t) /\ u[1] = x /\ \A i \in 1 .. Len(t) : u[1 + i] = t[i]
  BY <1>1
<1> HIDE DEF u
<1>3. ASSUME NEW i \in 2 .. Len(s)
      PROVE  u[i] = s[i]
  <2>1. i - 1 \in 1 .. Len(t) /\ i - 1 \in 1 .. (Len(s) - 1) /\ 1 + (i - 1) = i /\ (i - 1) + 1 = i
    BY <1>1
  <2>2. u[1 + (i - 1)] = t[i - 1] /\ t[i - 1] = s[(i - 1) + 1]
    BY <1>1, <1>2, <2>1
  <2> QED
    BY <2>1, <2>2
<1> QED
  BY <1>1, <1>2, <1>3 DEF t, u

\* What the variables hold.
Entries  == [kind : {"file", "dir", "link"}, to : Seq(Name)]
Listings == [dir : Seq(Name), place : Seq(Name), must : SUBSET Name,
             may : UNION {[names -> Entries] : names \in SUBSET Name}]
RouteSet == [next : Nat \ {0}, dir : Seq(Name), literals : BOOLEAN]
LeftSet  == [next : Nat \ {0}, dir : Seq(Name)]

\* Where a path may still come from: a walker on the queue, one of the walkers behind it,
\* a directory that is being read, and the results.
Routed(routes, listings, path) ==
    {i \in DOMAIN routes : (i = 1 => listings = <<>>) /\ Leads(routes[i].dir, path)}
Left(walkers, routes, listings, path) ==
    {i \in DOMAIN walkers : (i = 1 => routes # <<>> \/ listings = <<>>) /\ Leads(walkers[i].dir, path)}
Whole(routes, walkers, listing) ==
    IF routes # <<>> THEN listing.dir ELSE Head(walkers).dir \o listing.dir
Expected(listings, routes, walkers, path) ==
    {j \in DOMAIN listings : Awaits(Whole(routes, walkers, listings[j]), DOMAIN listings[j].may, path)}
Copies(results, report) == IF report \in DOMAIN results THEN 1 .. results[report] ELSE {}

\* There is one such place at most.
Lone(R, L, E, C) ==
    /\ \A i, j \in R : i = j
    /\ \A i, j \in L : i = j
    /\ \A i, j \in E : i = j
    /\ \A i, j \in C : i = j
    /\ R # {} => L = {} /\ E = {} /\ C = {}
    /\ L # {} => E = {} /\ C = {}
    /\ E # {} => C = {}

\* Once the first walker is dropped.
LEMMA RoutedTail ==
    ASSUME NEW routes \in Seq(RouteSet), routes # <<>>, NEW listings, NEW path
    PROVE  \A i : i \in Routed(Tail(routes), <<>>, path) <=> i \in Nat \ {0} /\ i + 1 \in Routed(routes, listings, path)
<1> DEFINE t == Tail(routes)
<1>1. Len(routes) \in Nat \ {0} /\ DOMAIN routes = 1 .. Len(routes) /\ DOMAIN t = 1 .. (Len(routes) - 1)
      /\ \A i \in 1 .. (Len(routes) - 1) : t[i] = routes[i + 1]
  BY TailSteps
<1> HIDE DEF t
<1>2. ASSUME NEW i \in 1 .. (Len(routes) - 1)
      PROVE  i \in Routed(t, <<>>, path) <=> i + 1 \in Routed(routes, listings, path)
  <2>1. i \in DOMAIN t /\ i + 1 \in DOMAIN routes /\ i + 1 # 1
    BY <1>1
  <2> QED
    BY <1>1, <2>1 DEF Routed
<1>3. ASSUME NEW i, i \in Routed(t, <<>>, path)
      PROVE  i \in 1 .. (Len(routes) - 1)
  BY <1>1, <1>3 DEF Routed
<1>4. ASSUME NEW i \in Nat \ {0}, i + 1 \in Routed(routes, listings, path)
      PROVE  i \in 1 .. (Len(routes) - 1)
  BY <1>1, <1>4 DEF Routed
<1> QED
  BY <1>2, <1>3, <1>4 DEF t

\* Once the first of the walkers behind is dropped.
LEMMA LeftTail ==
    ASSUME NEW walkers \in Seq(LeftSet), walkers # <<>>, NEW routes, NEW listings, NEW path
    PROVE  \A i : i \in Left(Tail(walkers), <<>>, <<>>, path) <=>
                    i \in Nat \ {0} /\ i + 1 \in Left(walkers, routes, listings, path)
<1> DEFINE t == Tail(walkers)
<1>1. Len(walkers) \in Nat \ {0} /\ DOMAIN walkers = 1 .. Len(walkers) /\ DOMAIN t = 1 .. (Len(walkers) - 1)
      /\ \A i \in 1 .. (Len(walkers) - 1) : t[i] = walkers[i + 1]
  BY TailSteps
<1> HIDE DEF t
<1>2. ASSUME NEW i \in 1 .. (Len(walkers) - 1)
      PROVE  i \in Left(t, <<>>, <<>>, path) <=> i + 1 \in Left(walkers, routes, listings, path)
  <2>1. i \in DOMAIN t /\ i + 1 \in DOMAIN walkers /\ i + 1 # 1
    BY <1>1
  <2> QED
    BY <1>1, <2>1 DEF Left
<1>3. ASSUME NEW i, i \in Left(t, <<>>, <<>>, path)
      PROVE  i \in 1 .. (Len(walkers) - 1)
  BY <1>1, <1>3 DEF Left
<1>4. ASSUME NEW i \in Nat \ {0}, i + 1 \in Left(walkers, routes, listings, path)
      PROVE  i \in 1 .. (Len(walkers) - 1)
  BY <1>1, <1>4 DEF Left
<1> QED
  BY <1>2, <1>3, <1>4 DEF t

\* Once another walker is put on the queue.
LEMMA RoutedMore ==
    ASSUME NEW routes \in Seq(RouteSet), routes # <<>>, NEW route \in RouteSet, NEW listings, NEW other, NEW path,
           listings = <<>> <=> other = <<>>
    PROVE  \A i : i \in Routed(Append(routes, route), other, path) <=>
                    i \in Routed(routes, listings, path) \/ (i = Len(routes) + 1 /\ Leads(route.dir, path))
<1> DEFINE t == Append(routes, route)
           n == Len(routes)
<1>1. n \in Nat /\ DOMAIN routes = 1 .. n /\ DOMAIN t = 1 .. (n + 1) /\ t[n + 1] = route
      /\ \A i \in 1 .. n : t[i] = routes[i]
  BY AppendSteps
<1>2. n # 0
  BY TailSteps
<1> HIDE DEF t, n
<1>3. ASSUME NEW i \in 1 .. n
      PROVE  i \in Routed(t, other, path) <=> i \in Routed(routes, listings, path)
  <2>1. i \in DOMAIN t /\ i \in DOMAIN routes
    BY <1>1
  <2> QED
    BY <1>1, <2>1 DEF Routed
<1>4. n + 1 \in Routed(t, other, path) <=> Leads(route.dir, path)
  <2>1. n + 1 \in DOMAIN t /\ n + 1 # 1
    BY <1>1, <1>2
  <2> QED
    BY <1>1, <2>1 DEF Routed
<1>5. \A i : i \in Routed(t, other, path) => i \in 1 .. n \/ i = n + 1
  BY <1>1 DEF Routed
<1>6. \A i : i \in Routed(routes, listings, path) => i \in 1 .. n
  BY <1>1 DEF Routed
<1> QED
  BY <1>3, <1>4, <1>5, <1>6 DEF t, n

\* Once a walk is left for later.
LEMMA LeftMore ==
    ASSUME NEW walkers \in Seq(LeftSet), NEW walker \in LeftSet, NEW routes, NEW other, NEW path
    PROVE  \A i : i \in Left(Append(walkers, walker), other, <<>>, path) <=>
                    i \in Left(walkers, routes, <<>>, path) \/ (i = Len(walkers) + 1 /\ Leads(walker.dir, path))
<1> DEFINE t == Append(walkers, walker)
           n == Len(walkers)
<1>1. n \in Nat /\ DOMAIN walkers = 1 .. n /\ DOMAIN t = 1 .. (n + 1) /\ t[n + 1] = walker
      /\ \A i \in 1 .. n : t[i] = walkers[i]
  BY AppendSteps
<1> HIDE DEF t, n
<1>2. ASSUME NEW i \in 1 .. n
      PROVE  i \in Left(t, other, <<>>, path) <=> i \in Left(walkers, routes, <<>>, path)
  <2>1. i \in DOMAIN t /\ i \in DOMAIN walkers
    BY <1>1
  <2> QED
    BY <1>1, <2>1 DEF Left
<1>3. n + 1 \in Left(t, other, <<>>, path) <=> Leads(walker.dir, path)
  <2>1. n + 1 \in DOMAIN t
    BY <1>1
  <2> QED
    BY <1>1, <2>1 DEF Left
<1>4. \A i : i \in Left(t, other, <<>>, path) => i \in 1 .. n \/ i = n + 1
  BY <1>1 DEF Left
<1>5. \A i : i \in Left(walkers, routes, <<>>, path) => i \in 1 .. n
  BY <1>1 DEF Left
<1> QED
  BY <1>2, <1>3, <1>4, <1>5 DEF t, n

\* Once the first walker reads its directory.
LEMMA RoutedReads ==
    ASSUME NEW routes \in Seq(RouteSet), routes # <<>>, NEW route \in RouteSet, NEW listings, listings # <<>>,
           NEW path
    PROVE  \A i : i \in Routed(<<route>> \o Tail(routes), listings, path) <=>
                    i # 1 /\ i \in Routed(routes, <<>>, path)
<1> DEFINE t == <<route>> \o Tail(routes)
           n == Len(routes)
<1>1. t \in Seq(RouteSet) /\ Len(t) = n /\ n \in Nat \ {0} /\ \A i \in 2 .. n : t[i] = routes[i]
  BY HeadSteps, TailSteps
<1>2. DOMAIN t = 1 .. n /\ DOMAIN routes = 1 .. n
  BY <1>1
<1> HIDE DEF t, n
<1>3. 1 \notin Routed(t, listings, path)
  BY DEF Routed
<1>4. ASSUME NEW i \in 2 .. n
      PROVE  i \in Routed(t, listings, path) <=> i \in Routed(routes, <<>>, path)
  <2>1. i \in DOMAIN t /\ i \in DOMAIN routes /\ i # 1 /\ t[i] = routes[i]
    BY <1>1, <1>2
  <2> QED
    BY <2>1 DEF Routed
<1>5. \A i : (i \in Routed(t, listings, path) \/ i \in Routed(routes, <<>>, path)) /\ i # 1 => i \in 2 .. n
  BY <1>1, <1>2 DEF Routed
<1> QED
  BY <1>3, <1>4, <1>5 DEF t

-----------------------------------------------------------------------------
\* The invariants.

\* Which components the nodes are of.
At == CHOOSE at : Laid(at, nodes, wanted, Len(wanted.components))

\* What the walker works with.
WalkTyped ==
    /\ Tidy(tree) /\ \A path \in Volatile \cap DOMAIN tree : tree[path] = Entry("file")
    /\ wanted \in Wanted
    /\ outcome # "refused" => Readable(wanted) /\ nodes = NodesOf(wanted.absolute, Components(wanted))
    /\ stack \in Seq(RouteSet) /\ recursive \in Seq(LeftSet) /\ open \in Seq(Listings)
    /\ found \in [DOMAIN found -> Nat \ {0}]

\* A walker's directory is as far down as the components before its node, and a walk is
\* left for later at the first **.
NodeAt(i) == IF i = 1 /\ open # <<>> THEN stack[i].next - 1 ELSE stack[i].next
RoutesLie ==
    outcome # "refused" => \A i \in DOMAIN stack :
      NodeAt(i) \in DOMAIN nodes /\ At[NodeAt(i)] = Len(stack[i].dir) /\ Len(stack[i].dir) < First(wanted)
LeftAtFirst ==
    \A i \in DOMAIN recursive : Promise!Coded!HasRecursion(wanted) /\ Len(recursive[i].dir) = First(wanted) - 1

\* A listing is of the directory that its path leads to, and has its links and directories.
ListingOf(files, pattern, dir, listing) ==
    /\ listing.place = Promise!Coded!Spot(files, Promise!Coded!Base(pattern), dir) /\ IsDir(files, listing.place)
    /\ \A name \in DOMAIN listing.may :
         listing.may[name].kind # "file" =>
           Append(listing.place, name) \in DOMAIN files /\ files[Append(listing.place, name)] = listing.may[name]
OpenAreRead ==
    /\ open # <<>> /\ stack # <<>> =>
         /\ Len(open) = 1 /\ open[1].dir = stack[1].dir
         /\ nodes[NodeAt(1)].kind # "literals" /\ (nodes[NodeAt(1)].kind = "recursive" => IsLeaf(NodeAt(1)))
    /\ open # <<>> /\ stack = <<>> => recursive # <<>>
    /\ \A j \in DOMAIN open : ListingOf(tree, wanted, Whole(stack, recursive, open[j]), open[j])

\* What matched all the time matches still, and can come from one place only.
SteadyMatch == steady \subseteq Promise!Coded!Matches(tree, wanted)
Sole(path) ==
    Lone(Routed(stack, open, path), Left(recursive, stack, open, path),
         Expected(open, stack, recursive, path), Copies(found, Promise!Coded!Report(wanted, path)))
OneSource ==
    \A path \in Promise!Coded!Matched(tree, wanted) : Promise!Coded!Report(wanted, path) \in steady => Sole(path)

\* They are the inductive invariant.
WalkInv == WalkTyped /\ RoutesLie /\ LeftAtFirst /\ OpenAreRead

\* The nodes are laid out.
LEMMA NodesLaid ==
    ASSUME PatternsAreRead, WalkTyped, outcome # "refused"
    PROVE  Laid(At, nodes, wanted, Len(wanted.components)) /\ DOMAIN nodes = 1 .. Len(nodes)
           /\ Len(nodes) \in Nat
<1>1. Readable(wanted) /\ nodes = NodesOf(wanted.absolute, Components(wanted))
  BY DEF WalkTyped
<1>2. \E at : Laid(at, nodes, wanted, Len(wanted.components))
  BY <1>1, LaidOut
<1>3. Laid(At, nodes, wanted, Len(wanted.components))
  BY <1>2 DEF At
<1> QED
  BY <1>3 DEF Laid

\* Where a walker gets by its literals: to a node that has to be matched, or to the end of
\* a pattern without a walk behind **.
Stands(candidate) ==
    /\ candidate.route \in RouteSet
    /\ candidate.some \in BOOLEAN
    /\ \A path \in Seq(Name) : Leads(candidate.route.dir, path) => Leads(Head(stack).dir, path)
    /\ Len(candidate.route.dir) < First(wanted)
    /\ candidate.some =>
         /\ candidate.route.next \in DOMAIN nodes /\ At[candidate.route.next] = Len(candidate.route.dir)
         /\ nodes[candidate.route.next].kind # "literals"
         /\ AheadOf(At, nodes, wanted, candidate.route.next)
    /\ ~candidate.some => /\ ~Promise!Coded!HasRecursion(wanted) /\ Len(candidate.route.dir) = Len(wanted.components)

\* It gets there.
LEMMA CandidateStands ==
    ASSUME PatternsAreRead, WalkInv, Starting
    PROVE  Stands(NextCandidate(Head(stack)))
<1> DEFINE route == Head(stack)
           n == route.next
           N == Len(wanted.components)
<1>1. Readable(wanted) /\ outcome = "walking" /\ stack # <<>> /\ open = <<>> /\ stack \in Seq(RouteSet)
  BY DEF WalkInv, WalkTyped, Starting, Walking
<1>2. /\ Laid(At, nodes, wanted, N) /\ DOMAIN nodes = 1 .. Len(nodes) /\ Len(nodes) \in Nat
      /\ N \in Nat
  BY <1>1, NodesLaid, PatternTyped DEF WalkInv
<1>3. route = stack[1] /\ route \in RouteSet /\ 1 \in DOMAIN stack
  BY <1>1, TailSteps
<1>4. n \in DOMAIN nodes /\ At[n] = Len(route.dir) /\ At[n] < First(wanted)
  BY <1>1, <1>3 DEF WalkInv, RoutesLie, NodeAt
<1>5. AheadOf(At, nodes, wanted, n)
  BY <1>1, <1>2, <1>4, LaidAhead
<1> HIDE DEF route, n
<1>6. CASE nodes[n].kind = "literals"
  <2> DEFINE more == nodes[n].path
             dir == route.dir \o more
             next == n + 1
             some == next <= Len(nodes)
             candidate == NextCandidate(route)
  <2>1. n \in Nat /\ n <= Len(nodes) /\ next \in Nat \ {0}
    BY <1>2, <1>4
  <2>2. candidate = [route |-> Route(next, dir, TRUE), some |-> some]
    BY <1>6, <2>1 DEF NextCandidate, n, Route
  <2>3. more \in Seq(Name) /\ At[next] = At[n] + Len(more) /\ At[next] < First(wanted)
        /\ (n < Len(nodes) => nodes[next].kind # "literals")
        /\ (n = Len(nodes) => ~Promise!Coded!HasRecursion(wanted) /\ At[next] = N)
    BY <1>5, <1>6 DEF AheadOf
  <2>4. route.dir \in Seq(Name)
    BY <1>3 DEF RouteSet
  <2> HIDE DEF candidate, more, some
  <2>5. dir \in Seq(Name) /\ Len(dir) = At[next]
    BY <1>4, <2>3, <2>4
  <2>6. \A path \in Seq(Name) : Leads(dir, path) => Leads(route.dir, path)
    BY <2>3, <2>4, LeadsConcat
  <2> HIDE DEF dir
  <2>7. candidate.route \in RouteSet /\ candidate.route.dir = dir /\ candidate.route.next = next
    BY <2>1, <2>2, <2>5, SMTT(20) DEF Route, RouteSet
  <2>8. PICK m \in Nat : m = Len(nodes)
    BY <1>2
  <2>9. n < m \/ n = m
    BY <2>1, <2>8
  <2>10. CASE n < m
    <3>1. next <= m /\ next \in 1 .. m
      BY <2>1, <2>8, <2>10
    <3>2. candidate.some = TRUE /\ next \in DOMAIN nodes
      <4>1. some = TRUE
        BY <2>8, <3>1 DEF some
      <4> QED
        BY <1>2, <2>2, <2>8, <3>1, <4>1
    <3>3. next \in 1 .. Len(nodes) /\ nodes[next].kind # "literals"
      BY <2>3, <2>8, <2>10, <3>1
    <3> HIDE DEF next
    <3>4. AheadOf(At, nodes, wanted, next)
      BY <1>1, <1>2, <2>3, <3>3, LaidAhead
    <3>5. Stands(candidate)
      BY <2>3, <2>5, <2>6, <2>7, <3>2, <3>3, <3>4 DEF Stands, route
    <3> QED
      BY <3>5 DEF candidate, route
  <2>11. CASE n = m
    <3>1. ~(next <= m)
      BY <2>1, <2>11
    <3>2. candidate.some = FALSE
      <4>1. some = FALSE
        BY <2>8, <3>1 DEF some
      <4> QED
        BY <2>2, <4>1
    <3>3. ~Promise!Coded!HasRecursion(wanted) /\ Len(dir) = N
      BY <2>3, <2>5, <2>8, <2>11
    <3> HIDE DEF next
    <3>4. Stands(candidate)
      BY <2>3, <2>5, <2>6, <2>7, <3>2, <3>3 DEF Stands, route
    <3> QED
      BY <3>4 DEF candidate, route
  <2> QED
    BY <2>9, <2>10, <2>11
<1>7. CASE nodes[n].kind # "literals"
  <2> DEFINE candidate == NextCandidate(route)
  <2>1. n \in Nat /\ n <= Len(nodes)
    BY <1>2, <1>4
  <2>2. candidate = [route |-> route, some |-> TRUE]
    BY <1>7, <2>1 DEF NextCandidate, n
  <2> HIDE DEF candidate
  <2>3. candidate.route = route /\ candidate.some = TRUE
    BY <2>2
  <2>4. Stands(candidate)
    BY <1>3, <1>4, <1>5, <1>7, <2>3 DEF Stands, route, n
  <2> QED
    BY <2>4 DEF candidate, route
<1> QED
  BY <1>6, <1>7

\* Where the names of a path lead below its starting directory.
LEMMA LocatedLeads ==
    ASSUME PatternsAreRead, WalkTyped, outcome # "refused", NEW dir \in Seq(Name)
    PROVE  /\ Located(dir) = Promise!Coded!Base(wanted) \o dir
           /\ Resolve(tree, Located(dir)) = Promise!Coded!Spot(tree, Promise!Coded!Base(wanted), dir)
           /\ Promise!Coded!Spot(tree, Promise!Coded!Base(wanted), dir) \in Seq(Name)
<1>1. wanted.absolute \in BOOLEAN /\ Home \in Seq(Name) /\ Promise!Coded!Base(wanted) \in Seq(Name)
  BY PatternTyped DEF WalkTyped
<1>2. Located(dir) = Promise!Coded!Base(wanted) \o dir
  <2>1. CASE wanted.absolute
    <3>1. <<>> \o dir = dir
      OBVIOUS
    <3> QED
      BY <2>1, <3>1 DEF Located, Promise!Coded!Base
  <2>2. CASE ~wanted.absolute
    BY <2>2 DEF Located, Promise!Coded!Base
  <2> QED
    BY <2>1, <2>2
<1>3. Promise!Coded!Spot(tree, Promise!Coded!Base(wanted), dir) = Resolve(tree, Promise!Coded!Base(wanted) \o dir)
  BY SameFiles DEF Promise!Coded!Spot
<1>4. Promise!Coded!Spot(tree, Promise!Coded!Base(wanted), dir) \in Seq(Name)
  BY <1>1, SpotSteps DEF WalkTyped
<1> QED
  BY <1>2, <1>3, <1>4

\* Reading a directory lists what is in it.
LEMMA ListingRead ==
    ASSUME NEW files, Tidy(files), NEW pattern, NEW dir \in Seq(Name), NEW where, NEW place \in Seq(Name),
           place = Promise!Coded!Spot(files, Promise!Coded!Base(pattern), where), IsDir(files, place)
    PROVE  LET listing == Listing(files, dir, place)
           IN  /\ listing \in Listings /\ listing.dir = dir /\ listing.place = place
               /\ ListingOf(files, pattern, where, listing)
               /\ listing.must = Names(files, place) /\ DOMAIN listing.may = Names(files, place)
               /\ \A name \in Names(files, place) : listing.may[name] = files[Append(place, name)]
<1> DEFINE listing == Listing(files, dir, place)
           names == Names(files, place)
           may == [name \in names |-> files[Append(place, name)]]
<1>1. \A name \in names : name \in Name /\ Append(place, name) \in DOMAIN files
  BY NamesAre
<1>2. names \in SUBSET Name
  BY <1>1
<1>3. \A path \in DOMAIN files : files[path] \in Entries
  BY DEF Tidy, Entries
<1> HIDE DEF names
<1>4. may \in [names -> Entries]
  BY <1>1, <1>3
<1>5. DOMAIN may = names /\ \A name \in names : may[name] = files[Append(place, name)]
  OBVIOUS
<1>6. may \in UNION {[some -> Entries] : some \in SUBSET Name}
  BY <1>2, <1>4
<1>7. listing = [dir |-> dir, place |-> place, must |-> names, may |-> may]
  BY DEF Listing, names
<1> HIDE DEF may, listing
<1>8. listing.dir = dir /\ listing.place = place /\ listing.must = names /\ listing.may = may
  BY <1>7
<1>9. listing \in Listings
  BY <1>2, <1>6, <1>7 DEF Listings
<1>10. ListingOf(files, pattern, where, listing)
  BY <1>1, <1>5, <1>8 DEF ListingOf
<1> QED
  BY <1>5, <1>8, <1>9, <1>10 DEF listing, names

\* What is listed once is not listed again.
LEMMA ListedOnce ==
    ASSUME NEW listing \in Listings, NEW name \in DOMAIN listing.may
    PROVE  LET more == Listed(name, listing)
           IN  /\ more \in Listings /\ more.dir = listing.dir /\ more.place = listing.place
               /\ more.must = listing.must \ {name} /\ DOMAIN more.may = DOMAIN listing.may \ {name}
               /\ \A other \in DOMAIN more.may : more.may[other] = listing.may[other]
               /\ name \in Name /\ listing.may[name] \in Entries
<1> DEFINE more == Listed(name, listing)
           left == DOMAIN listing.may \ {name}
           may == [other \in left |-> listing.may[other]]
<1>1. PICK names \in SUBSET Name : listing.may \in [names -> Entries]
  BY DEF Listings
<1>2. may \in [left -> Entries] /\ left \in SUBSET Name /\ name \in Name /\ listing.may[name] \in Entries
  BY <1>1
<1>3. may \in UNION {[some -> Entries] : some \in SUBSET Name}
  BY <1>2
<1>4. Restrict(listing.may, left) = may
  BY DEF Restrict
<1>5. more = [listing EXCEPT !.must = @ \ {name}, !.may = may]
  BY <1>4 DEF Listed
<1>6. listing = [dir |-> listing.dir, place |-> listing.place, must |-> listing.must, may |-> listing.may]
      /\ listing.dir \in Seq(Name) /\ listing.place \in Seq(Name) /\ listing.must \in SUBSET Name
  BY DEF Listings
<1>7. DOMAIN may = left /\ \A other \in left : may[other] = listing.may[other]
  OBVIOUS
<1> HIDE DEF may, more, left
<1>8. more = [dir |-> listing.dir, place |-> listing.place, must |-> listing.must \ {name}, may |-> may]
  BY <1>5, <1>6
<1>9. more \in Listings
  BY <1>3, <1>6, <1>8 DEF Listings
<1> QED
  BY <1>2, <1>7, <1>8, <1>9 DEF more, left

\* A listing stays one of its directory when one of its names is taken off.
LEMMA ListedOf ==
    ASSUME NEW files, NEW pattern, NEW dir, NEW listing \in Listings, NEW name \in DOMAIN listing.may,
           ListingOf(files, pattern, dir, listing)
    PROVE  ListingOf(files, pattern, dir, Listed(name, listing))
<1> DEFINE more == Listed(name, listing)
<1>1. /\ more.place = listing.place /\ DOMAIN more.may = DOMAIN listing.may \ {name}
      /\ \A other \in DOMAIN more.may : more.may[other] = listing.may[other]
  BY ListedOnce
<1> HIDE DEF more
<1>2. ListingOf(files, pattern, dir, more)
  BY <1>1 DEF ListingOf
<1> QED
  BY <1>2 DEF more

\* The queue without its first walker.
LEMMA RoutesDropped ==
    ASSUME WalkTyped, RoutesLie, outcome = "walking", stack # <<>>, stack' = Tail(stack), open' = <<>>,
           UNCHANGED <<nodes, wanted>>
    PROVE  RoutesLie' /\ stack' \in Seq(RouteSet)
<1>1. stack \in Seq(RouteSet)
  BY DEF WalkTyped
<1>2. /\ Len(stack) \in Nat \ {0} /\ stack' \in Seq(RouteSet)
      /\ DOMAIN stack = 1 .. Len(stack) /\ DOMAIN stack' = 1 .. (Len(stack) - 1)
      /\ \A i \in 1 .. (Len(stack) - 1) : stack'[i] = stack[i + 1]
  BY <1>1, TailSteps
<1>3. At' = At /\ First(wanted') = First(wanted)
  BY DEF At
<1>4. ASSUME NEW i \in DOMAIN stack'
      PROVE  /\ NodeAt(i)' \in DOMAIN nodes' /\ At'[NodeAt(i)'] = Len(stack'[i].dir)
             /\ Len(stack'[i].dir) < First(wanted')
  <2>1. i + 1 \in DOMAIN stack /\ i + 1 # 1 /\ stack'[i] = stack[i + 1]
    BY <1>2
  <2>2. NodeAt(i)' = NodeAt(i + 1)
    BY <2>1 DEF NodeAt
  <2> QED
    BY <1>3, <2>1, <2>2 DEF RoutesLie
<1> QED
  BY <1>2, <1>4 DEF RoutesLie

\* A result more.
LEMMA FoundMore ==
    ASSUME found \in [DOMAIN found -> Nat \ {0}], NEW path, Found(path)
    PROVE  /\ found' \in [DOMAIN found' -> Nat \ {0}] /\ DOMAIN found' = DOMAIN found \cup {path}
           /\ \A report : report # path => Copies(found', report) = Copies(found, report)
           /\ Copies(found, path) = {} => Copies(found', path) = {1}
<1> DEFINE D == DOMAIN found
           more == [r \in D \cup {path} |-> (IF r \in D THEN found[r] ELSE 0) + (IF r \in {path} THEN 1 ELSE 0)]
<1>1. found' = more
  <2>1. SetToBag({path}) = [r \in {path} |-> 1]
    BY DEF SetToBag
  <2>2. DOMAIN SetToBag({path}) = {path} /\ \A r \in {path} : SetToBag({path})[r] = 1
    BY <2>1
  <2> QED
    BY <2>2 DEF Found, (+), BagToSet
<1>2. \A r \in D : found[r] \in Nat \ {0}
  OBVIOUS
<1>3. more \in [D \cup {path} -> Nat \ {0}] /\ DOMAIN more = D \cup {path}
  BY <1>2
<1>4. \A r \in D : r # path => more[r] = found[r]
  BY <1>2
<1>5. path \notin D => more[path] = 1
  OBVIOUS
<1>6. path \in D => 1 \in Copies(found, path)
  BY <1>2 DEF Copies
<1>7. 1 .. 1 = {1}
  OBVIOUS
<1> HIDE DEF more
<1>8. Copies(found, path) = {} => Copies(found', path) = {1}
  BY <1>1, <1>3, <1>5, <1>6, <1>7 DEF Copies
<1>9. \A report : report # path => Copies(found', report) = Copies(found, report)
  BY <1>1, <1>3, <1>4 DEF Copies
<1> QED
  BY <1>1, <1>3, <1>8, <1>9

\* At the end of the nodes the invariant is kept.
LEMMA AtEndInv ==
    ASSUME PatternsAreRead, WalkInv, AtEnd
    PROVE  WalkInv'
<1>1. WalkTyped /\ RoutesLie /\ LeftAtFirst
  BY DEF WalkInv
<1>2. /\ outcome = "walking" /\ stack # <<>> /\ open = <<>> /\ stack' = Tail(stack) /\ open' = <<>>
      /\ UNCHANGED <<recursive, outcome, tree, wanted, nodes>>
  BY DEF AtEnd, Starting, Walking, world
<1>3. found' \in [DOMAIN found' -> Nat \ {0}]
  <2>1. found' = found \/ \E path : Found(path)
    BY DEF AtEnd
  <2> QED
    BY <1>1, <2>1, FoundMore DEF WalkTyped
<1>4. RoutesLie' /\ stack' \in Seq(RouteSet)
  BY <1>1, <1>2, RoutesDropped
<1>5. WalkTyped'
  BY <1>1, <1>2, <1>3, <1>4 DEF WalkTyped
<1>6. LeftAtFirst'
  BY <1>1, <1>2 DEF LeftAtFirst
<1>7. OpenAreRead'
  BY <1>2 DEF OpenAreRead
<1> QED
  BY <1>4, <1>5, <1>6, <1>7 DEF WalkInv

\* A walk is left for later where the first ** is.
LEMMA RecurInv ==
    ASSUME PatternsAreRead, WalkInv, Recur
    PROVE  WalkInv'
<1> DEFINE candidate == NextCandidate(Head(stack))
           route == candidate.route
           walker == [next |-> route.next + 1, dir |-> route.dir]
<1>1. WalkTyped /\ RoutesLie /\ LeftAtFirst
  BY DEF WalkInv
<1>2. /\ outcome = "walking" /\ stack # <<>> /\ open = <<>> /\ stack' = Tail(stack) /\ open' = <<>>
      /\ UNCHANGED <<found, outcome, tree, wanted, nodes>> /\ Starting
  BY DEF Recur, Starting, Walking, world
<1>3. Stands(candidate)
  BY <1>2, CandidateStands
<1>4. candidate.some /\ recursive' = Append(recursive, walker) /\ nodes[route.next].kind = "recursive"
      /\ ~IsLeaf(route.next)
  BY DEF Recur
<1> HIDE DEF candidate
<1>5. walker \in LeftSet /\ walker.dir = route.dir
  BY <1>3 DEF Stands, RouteSet, LeftSet
<1>6. AheadOf(At, nodes, wanted, route.next) /\ At[route.next] = Len(route.dir) /\ route.next \in DOMAIN nodes
  BY <1>3, <1>4 DEF Stands
<1>7. Len(route.dir) = First(wanted) - 1 /\ Promise!Coded!HasRecursion(wanted)
  <2>1. route.next < Len(nodes)
    <3>1. DOMAIN nodes = 1 .. Len(nodes) /\ Len(nodes) \in Nat
      BY <1>1, <1>2, NodesLaid
    <3> QED
      BY <1>4, <1>6, <3>1 DEF IsLeaf
  <2> QED
    BY <1>4, <1>6, <2>1 DEF AheadOf
<1> HIDE DEF walker
<1>8. /\ recursive' \in Seq(LeftSet) /\ DOMAIN recursive = 1 .. Len(recursive)
      /\ DOMAIN recursive' = 1 .. (Len(recursive) + 1) /\ Len(recursive) \in Nat
      /\ recursive'[Len(recursive) + 1] = walker /\ \A i \in 1 .. Len(recursive) : recursive'[i] = recursive[i]
  BY <1>1, <1>4, <1>5, AppendSteps DEF WalkTyped
<1>9. RoutesLie' /\ stack' \in Seq(RouteSet)
  BY <1>1, <1>2, RoutesDropped
<1>10. WalkTyped'
  BY <1>1, <1>2, <1>8, <1>9 DEF WalkTyped
<1>11. LeftAtFirst'
  <2>1. ASSUME NEW i \in DOMAIN recursive'
        PROVE  Promise!Coded!HasRecursion(wanted) /\ Len(recursive'[i].dir) = First(wanted) - 1
    <3>1. i \in 1 .. Len(recursive) \/ i = Len(recursive) + 1
      BY <1>8
    <3> QED
      BY <1>1, <1>5, <1>7, <1>8, <3>1 DEF LeftAtFirst
  <2> QED
    BY <1>2, <2>1 DEF LeftAtFirst
<1>12. OpenAreRead'
  BY <1>2 DEF OpenAreRead
<1> QED
  BY <1>9, <1>10, <1>11, <1>12 DEF WalkInv

\* The directory of the walker at work is read, or the walker is dropped.
LEMMA OpenDirInv ==
    ASSUME PatternsAreRead, WalkInv, OpenDir
    PROVE  WalkInv'
<1> DEFINE candidate == NextCandidate(Head(stack))
           route == candidate.route
           place == Resolve(tree, Located(route.dir))
           listing == Listing(tree, route.dir, place)
           reading == Route(route.next + 1, route.dir, route.literals)
<1>1. WalkTyped /\ RoutesLie /\ LeftAtFirst /\ outcome # "refused"
  BY DEF WalkInv, OpenDir, Starting, Walking
<1>2. /\ outcome = "walking" /\ stack # <<>> /\ open = <<>> /\ Starting
      /\ UNCHANGED <<recursive, found, outcome, tree, wanted, nodes>>
  BY DEF OpenDir, Starting, Walking, world
<1>3. Stands(candidate)
  BY <1>2, CandidateStands
<1>4. /\ candidate.some /\ (nodes[route.next].kind = "recursive" => IsLeaf(route.next))
      /\ IF IsDir(tree, place) THEN open' = <<listing>> /\ stack' = <<reading>> \o Tail(stack)
         ELSE open' = open /\ stack' = Tail(stack)
  BY DEF OpenDir
<1> HIDE DEF candidate
<1>5. route.dir \in Seq(Name) /\ route.next \in Nat \ {0} /\ route.literals \in BOOLEAN
  BY <1>3 DEF Stands, RouteSet
<1>6. place = Promise!Coded!Spot(tree, Promise!Coded!Base(wanted), route.dir) /\ place \in Seq(Name)
  BY <1>1, <1>5, LocatedLeads
<1>7. LeftAtFirst'
  BY <1>1, <1>2 DEF LeftAtFirst
<1> HIDE DEF place
<1>8. CASE ~IsDir(tree, place)
  <2>1. stack' = Tail(stack) /\ open' = <<>>
    BY <1>2, <1>4, <1>8
  <2>2. RoutesLie' /\ stack' \in Seq(RouteSet)
    BY <1>1, <1>2, <2>1, RoutesDropped
  <2>3. WalkTyped'
    BY <1>1, <1>2, <2>1, <2>2 DEF WalkTyped
  <2>4. OpenAreRead'
    BY <2>1 DEF OpenAreRead
  <2> QED
    BY <1>7, <2>2, <2>3, <2>4 DEF WalkInv
<1>9. CASE IsDir(tree, place)
  <2>1. listing \in Listings /\ listing.dir = route.dir /\ ListingOf(tree, wanted, route.dir, listing)
    BY <1>1, <1>5, <1>6, <1>9, ListingRead DEF WalkTyped
  <2>2. reading \in RouteSet /\ reading.next = route.next + 1 /\ reading.dir = route.dir
    BY <1>5 DEF Route, RouteSet
  <2>3. open' = <<listing>> /\ stack' = <<reading>> \o Tail(stack)
    BY <1>4, <1>9
  <2> HIDE DEF reading, listing
  <2>4. /\ stack' \in Seq(RouteSet) /\ Len(stack') = Len(stack) /\ stack'[1] = reading
        /\ \A i \in 2 .. Len(stack) : stack'[i] = stack[i]
    BY <1>1, <1>2, <2>2, <2>3, HeadSteps DEF WalkTyped
  <2>5. open' \in Seq(Listings) /\ Len(open') = 1 /\ open'[1] = listing /\ open' # <<>>
    BY <2>1, <2>3
  <2>6. Len(stack) \in Nat \ {0} /\ DOMAIN stack = 1 .. Len(stack) /\ DOMAIN stack' = 1 .. Len(stack)
    BY <1>1, <1>2, <2>4 DEF WalkTyped
  <2>7. WalkTyped'
    BY <1>1, <1>2, <2>4, <2>5 DEF WalkTyped
  <2>8. At' = At
    BY <1>2 DEF At
  <2>9. NodeAt(1)' = route.next
    BY <1>5, <2>2, <2>4, <2>5 DEF NodeAt
  <2>10. RoutesLie'
    <3>1. ASSUME NEW i \in DOMAIN stack'
          PROVE  /\ NodeAt(i)' \in DOMAIN nodes /\ At[NodeAt(i)'] = Len(stack'[i].dir)
                 /\ Len(stack'[i].dir) < First(wanted)
      <4>1. CASE i = 1
        BY <1>3, <1>4, <2>2, <2>4, <2>9, <4>1 DEF Stands
      <4>2. CASE i # 1
        <5>1. i \in 2 .. Len(stack) /\ i \in DOMAIN stack
          BY <2>6, <4>2
        <5>2. NodeAt(i)' = NodeAt(i) /\ stack'[i] = stack[i]
          BY <2>4, <4>2, <5>1 DEF NodeAt
        <5> QED
          BY <1>1, <5>1, <5>2 DEF RoutesLie
      <4> QED
        BY <4>1, <4>2
    <3> QED
      BY <1>2, <2>8, <3>1 DEF RoutesLie
  <2>11. OpenAreRead'
    <3>1. stack' # <<>>
      BY <2>4, <2>6
    <3>2. \A j \in DOMAIN open' : j = 1
      BY <2>5
    <3>3. nodes[route.next].kind # "literals"
      BY <1>3, <1>4 DEF Stands
    <3>4. ListingOf(tree, wanted, Whole(stack', recursive, open'[1]), open'[1])
      BY <2>1, <2>5, <3>1 DEF Whole
    <3> QED
      BY <1>2, <1>4, <2>1, <2>2, <2>4, <2>5, <2>9, <3>1, <3>2, <3>3, <3>4 DEF OpenAreRead, IsLeaf
  <2> QED
    BY <1>7, <2>7, <2>10, <2>11 DEF WalkInv
<1> QED
  BY <1>8, <1>9

\* The directory is read.
LEMMA EndOfDirInv ==
    ASSUME PatternsAreRead, WalkInv, EndOfDir
    PROVE  WalkInv'
<1>1. WalkTyped /\ RoutesLie /\ LeftAtFirst
  BY DEF WalkInv
<1>2. /\ outcome = "walking" /\ stack # <<>> /\ stack' = Tail(stack) /\ open' = <<>>
      /\ UNCHANGED <<recursive, found, outcome, tree, wanted, nodes>>
  BY DEF EndOfDir, Reading, Walking, world
<1>3. RoutesLie' /\ stack' \in Seq(RouteSet)
  BY <1>1, <1>2, RoutesDropped
<1>4. WalkTyped'
  BY <1>1, <1>2, <1>3 DEF WalkTyped
<1>5. LeftAtFirst'
  BY <1>1, <1>2 DEF LeftAtFirst
<1>6. OpenAreRead'
  BY <1>2 DEF OpenAreRead
<1> QED
  BY <1>3, <1>4, <1>5, <1>6 DEF WalkInv

\* What the walker at work reads.
Reads(route, listing, node) ==
    /\ stack \in Seq(RouteSet) /\ Len(stack) \in Nat \ {0} /\ DOMAIN stack = 1 .. Len(stack)
    /\ route = stack[1] /\ route \in RouteSet /\ listing = open[1] /\ listing \in Listings
    /\ listing.dir = route.dir /\ node = route.next - 1 /\ node \in DOMAIN nodes /\ node \in 1 .. Len(nodes)
    /\ At[node] = Len(route.dir) /\ Len(route.dir) < First(wanted)
    /\ nodes[node].kind # "literals" /\ (nodes[node].kind = "recursive" => IsLeaf(node))
    /\ AheadOf(At, nodes, wanted, node)
    /\ ListingOf(tree, wanted, route.dir, listing)
    /\ \A j \in DOMAIN open : j = 1

\* It reads the directory of its path, for a node that is matched.
LEMMA ReadingReads ==
    ASSUME PatternsAreRead, WalkInv, Reading
    PROVE  Reads(Head(stack), open[1], Head(stack).next - 1)
<1> DEFINE route == Head(stack)
           node == route.next - 1
<1>1. WalkTyped /\ RoutesLie /\ OpenAreRead /\ outcome # "refused" /\ stack # <<>> /\ open # <<>>
      /\ outcome = "walking"
  BY DEF WalkInv, Reading, Walking
<1>2. stack \in Seq(RouteSet) /\ open \in Seq(Listings) /\ Readable(wanted)
  BY <1>1 DEF WalkTyped
<1>3. /\ Len(stack) \in Nat \ {0} /\ DOMAIN stack = 1 .. Len(stack) /\ route = stack[1] /\ route \in RouteSet
      /\ 1 \in DOMAIN stack
  BY <1>1, <1>2, TailSteps
<1>4. 1 \in DOMAIN open /\ open[1] \in Listings
  BY <1>1, <1>2, TailSteps
<1>5. \A j \in DOMAIN open : j = 1
  BY <1>1, <1>2 DEF OpenAreRead
<1> HIDE DEF route
<1>6. NodeAt(1) = node
  BY <1>1, <1>3 DEF NodeAt
<1>7. /\ node \in DOMAIN nodes /\ At[node] = Len(route.dir) /\ Len(route.dir) < First(wanted)
  BY <1>1, <1>3, <1>6 DEF RoutesLie
<1>8. DOMAIN nodes = 1 .. Len(nodes) /\ Laid(At, nodes, wanted, Len(wanted.components))
  BY <1>1, NodesLaid
<1> HIDE DEF node
<1>9. AheadOf(At, nodes, wanted, node)
  BY <1>2, <1>7, <1>8, LaidAhead
<1>10. open[1].dir = route.dir /\ nodes[node].kind # "literals" /\ (nodes[node].kind = "recursive" => IsLeaf(node))
  BY <1>1, <1>3, <1>6 DEF OpenAreRead
<1>11. ListingOf(tree, wanted, route.dir, open[1])
  BY <1>1, <1>4, <1>10 DEF OpenAreRead, Whole
<1>12. Reads(route, open[1], route.next - 1)
  BY <1>2, <1>3, <1>4, <1>5, <1>7, <1>8, <1>9, <1>10, <1>11 DEF Reads, node
<1> QED
  BY <1>12 DEF route

\* An entry of the directory is a result, the start of another walker, or neither.
LEMMA NextEntryInv ==
    ASSUME PatternsAreRead, WalkInv, NextEntry
    PROVE  WalkInv'
<1> DEFINE route == Head(stack)
           node == route.next - 1
<1>1. WalkTyped /\ RoutesLie /\ LeftAtFirst /\ OpenAreRead /\ outcome # "refused"
  BY DEF WalkInv, NextEntry, Reading, Walking
<1>2. /\ outcome = "walking" /\ stack # <<>> /\ open # <<>> /\ Reading
      /\ UNCHANGED <<recursive, outcome, tree, wanted, nodes>>
  BY DEF NextEntry, Reading, Walking, world
<1>3. Reads(route, open[1], node)
  BY <1>2, ReadingReads
<1>4. PICK name \in DOMAIN open[1].may :
        /\ open' = <<Listed(name, open[1])>>
        /\ \/ Found(Reported(Append(route.dir, name))) /\ stack' = stack
           \/ ~IsLeaf(node) /\ stack' = Append(stack, Fork(route, name)) /\ found' = found
           \/ UNCHANGED <<stack, found>>
  BY DEF NextEntry
<1> HIDE DEF route, node
<1>5. found' \in [DOMAIN found' -> Nat \ {0}]
  <2>1. found' = found \/ \E path : Found(path)
    BY <1>4
  <2> QED
    BY <1>1, <2>1, FoundMore DEF WalkTyped
<1> DEFINE listing == Listed(name, open[1])
<1>6. /\ listing \in Listings /\ listing.dir = open[1].dir /\ name \in Name
      /\ ListingOf(tree, wanted, route.dir, listing)
  BY <1>3, ListedOnce, ListedOf DEF Reads
<1> HIDE DEF listing
<1>7. open' \in Seq(Listings) /\ Len(open') = 1 /\ open'[1] = listing /\ open' # <<>>
  <2>1. open' = <<listing>>
    BY <1>4 DEF listing
  <2> QED
    BY <1>6, <2>1
<1>8. \A j \in DOMAIN open' : j = 1
  BY <1>7
<1> DEFINE fork == Fork(route, name)
           n == Len(stack)
<1>9. fork \in RouteSet /\ fork.next = route.next /\ Len(fork.dir) = Len(route.dir) + 1
      /\ fork.dir = Append(route.dir, name)
  <2>1. route.dir \in Seq(Name) /\ route.next \in Nat \ {0}
    BY <1>3 DEF Reads, RouteSet
  <2>2. Append(route.dir, name) \in Seq(Name) /\ Len(Append(route.dir, name)) = Len(route.dir) + 1
    BY <1>6, <2>1
  <2> QED
    BY <2>1, <2>2 DEF Fork, Route, RouteSet
<1> HIDE DEF fork
<1>10. n \in Nat \ {0} /\ DOMAIN stack = 1 .. n
  BY <1>3 DEF Reads
<1>11. /\ stack' \in Seq(RouteSet) /\ stack' # <<>>
       /\ \A i \in 1 .. n : stack'[i] = stack[i] /\ i \in DOMAIN stack'
       /\ \A i \in DOMAIN stack' : i \in 1 .. n \/ (i = n + 1 /\ stack'[i] = fork /\ ~IsLeaf(node))
  <2>1. CASE stack' = stack
    BY <1>2, <1>3, <1>10, <2>1 DEF Reads
  <2>2. CASE ~IsLeaf(node) /\ stack' = Append(stack, fork)
    <3>1. stack \in Seq(RouteSet)
      BY <1>3 DEF Reads
    <3>2. /\ stack' \in Seq(RouteSet) /\ DOMAIN stack' = 1 .. (n + 1) /\ stack'[n + 1] = fork
          /\ \A i \in 1 .. n : stack'[i] = stack[i]
      BY <1>9, <2>2, <3>1, AppendSteps
    <3>3. \A i \in 1 .. (n + 1) : i \in 1 .. n \/ i = n + 1
      BY <1>10
    <3>4. 1 \in DOMAIN stack' /\ \A i \in 1 .. n : i \in DOMAIN stack'
      BY <1>10, <3>2
    <3>5. stack' # <<>>
      BY <3>4
    <3> QED
      BY <2>2, <3>2, <3>3, <3>4, <3>5
  <2> QED
    BY <1>4, <2>1, <2>2 DEF fork
<1> HIDE DEF n
<1>12. WalkTyped'
  BY <1>1, <1>2, <1>5, <1>7, <1>11 DEF WalkTyped
<1>13. At' = At
  BY <1>2 DEF At
<1>14. \A i \in 1 .. n : NodeAt(i)' = NodeAt(i)
  BY <1>2, <1>7, <1>11 DEF NodeAt
<1>15. RoutesLie'
  <2>1. ASSUME NEW i \in DOMAIN stack'
        PROVE  /\ NodeAt(i)' \in DOMAIN nodes /\ At[NodeAt(i)'] = Len(stack'[i].dir)
               /\ Len(stack'[i].dir) < First(wanted)
    <3>1. CASE i \in 1 .. n
      BY <1>1, <1>10, <1>11, <1>14, <3>1 DEF RoutesLie
    <3>2. CASE i \notin 1 .. n
      <4>1. i = n + 1 /\ i # 1 /\ stack'[i] = fork /\ ~IsLeaf(node)
        BY <1>10, <1>11, <3>2
      <4>2. NodeAt(i)' = route.next
        BY <1>9, <4>1, SMTT(20) DEF NodeAt
      <4>3. PICK m \in Nat : m = Len(nodes) /\ DOMAIN nodes = 1 .. m
        BY <1>1, NodesLaid, Zenon
      <4>4. route.next \in DOMAIN nodes /\ node + 1 = route.next
        <5>1. node \in 1 .. m /\ node # m
          BY <1>3, <4>1, <4>3 DEF Reads, IsLeaf
        <5>2. node + 1 \in 1 .. m
          BY <5>1
        <5>3. node + 1 = route.next
          BY <1>3 DEF Reads, RouteSet
        <5> QED
          BY <4>3, <5>2, <5>3
      <4>5. AheadOf(At, nodes, wanted, node) /\ nodes[node].kind = "regex" /\ At[node] = Len(route.dir)
        BY <1>3, <4>1 DEF Reads, AheadOf
      <4>6. At[node + 1] = At[node] + 1 /\ At[node + 1] < First(wanted)
        BY <4>5 DEF AheadOf
      <4> QED
        BY <1>9, <4>1, <4>2, <4>4, <4>5, <4>6
    <3> QED
      BY <3>1, <3>2
  <2> QED
    BY <1>2, <1>13, <2>1 DEF RoutesLie
<1>16. LeftAtFirst'
  BY <1>1, <1>2 DEF LeftAtFirst
<1>17. OpenAreRead'
  <2>1. 1 \in 1 .. n
    BY <1>10
  <2>2. stack'[1] = stack[1] /\ NodeAt(1)' = NodeAt(1)
    BY <1>11, <1>14, <2>1
  <2>3. NodeAt(1) = node
    BY <1>2, <1>3 DEF NodeAt, Reads
  <2>4. listing.dir = stack'[1].dir
    BY <1>3, <1>6, <2>2 DEF Reads
  <2>5. ListingOf(tree, wanted, Whole(stack', recursive, listing), listing)
    BY <1>3, <1>6, <1>11 DEF Whole, Reads
  <2> QED
    BY <1>2, <1>3, <1>7, <1>8, <1>11, <2>2, <2>3, <2>4, <2>5 DEF OpenAreRead, Reads, IsLeaf
<1> QED
  BY <1>12, <1>15, <1>16, <1>17 DEF WalkInv

\* The directory that a walk behind ** starts in is read, or the walk is dropped.
LEMMA StartWalkInv ==
    ASSUME PatternsAreRead, WalkInv, StartWalk
    PROVE  WalkInv'
<1> DEFINE dir == Head(recursive).dir
           place == Resolve(tree, Located(dir))
           listing == Listing(tree, <<>>, place)
<1>1. WalkTyped /\ LeftAtFirst /\ outcome # "refused"
  BY DEF WalkInv, StartWalk, Recurring
<1>2. /\ outcome = "walking" /\ stack = <<>> /\ recursive # <<>> /\ open = <<>>
      /\ UNCHANGED <<stack, found, outcome, tree, wanted, nodes>>
      /\ IF IsDir(tree, place) THEN open' = <<listing>> /\ recursive' = recursive
         ELSE open' = open /\ recursive' = Tail(recursive)
  BY DEF StartWalk, Recurring, world
<1>3. recursive \in Seq(LeftSet) /\ Head(recursive) = recursive[1] /\ recursive[1] \in LeftSet
  BY <1>1, <1>2, TailSteps DEF WalkTyped
<1>4. dir \in Seq(Name)
  BY <1>3 DEF LeftSet
<1>5. place = Promise!Coded!Spot(tree, Promise!Coded!Base(wanted), dir) /\ place \in Seq(Name)
  BY <1>1, <1>4, LocatedLeads
<1> HIDE DEF dir, place
<1>6. RoutesLie'
  BY <1>2 DEF RoutesLie
<1>7. CASE ~IsDir(tree, place)
  <2>1. open' = <<>> /\ recursive' = Tail(recursive)
    BY <1>2, <1>7
  <2>2. /\ recursive' \in Seq(LeftSet) /\ DOMAIN recursive' = 1 .. (Len(recursive) - 1)
        /\ DOMAIN recursive = 1 .. Len(recursive) /\ Len(recursive) \in Nat
        /\ \A i \in 1 .. (Len(recursive) - 1) : recursive'[i] = recursive[i + 1]
    BY <1>2, <1>3, <2>1, TailSteps
  <2>3. WalkTyped'
    BY <1>1, <1>2, <2>1, <2>2 DEF WalkTyped
  <2>4. LeftAtFirst'
    <3>1. ASSUME NEW i \in DOMAIN recursive'
          PROVE  Promise!Coded!HasRecursion(wanted) /\ Len(recursive'[i].dir) = First(wanted) - 1
      <4>1. i + 1 \in DOMAIN recursive /\ recursive'[i] = recursive[i + 1]
        BY <2>2
      <4> QED
        BY <1>1, <4>1 DEF LeftAtFirst
    <3> QED
      BY <1>2, <3>1 DEF LeftAtFirst
  <2>5. OpenAreRead'
    BY <2>1 DEF OpenAreRead
  <2> QED
    BY <1>6, <2>3, <2>4, <2>5 DEF WalkInv
<1>8. CASE IsDir(tree, place)
  <2>1. <<>> \in Seq(Name) /\ dir \o <<>> = dir
    BY <1>4
  <2>2. listing \in Listings /\ listing.dir = <<>> /\ ListingOf(tree, wanted, dir, listing)
    <3> DEFINE none == <<>>
               made == Listing(tree, none, place)
    <3>1. none \in Seq(Name) /\ Tidy(tree)
      BY <1>1 DEF WalkTyped
    <3> HIDE DEF none
    <3>2. made \in Listings /\ made.dir = none /\ ListingOf(tree, wanted, dir, made)
      BY <1>5, <1>8, <3>1, ListingRead
    <3> QED
      BY <3>2 DEF none
  <2>3. open' = <<listing>> /\ recursive' = recursive
    BY <1>2, <1>8
  <2> HIDE DEF listing
  <2>4. open' \in Seq(Listings) /\ Len(open') = 1 /\ open'[1] = listing /\ open' # <<>>
        /\ \A j \in DOMAIN open' : j = 1
    BY <2>2, <2>3
  <2>5. WalkTyped'
    BY <1>1, <1>2, <2>3, <2>4 DEF WalkTyped
  <2>6. LeftAtFirst'
    BY <1>1, <1>2, <2>3 DEF LeftAtFirst
  <2>7. Whole(stack', recursive', listing) = dir
    BY <1>2, <2>1, <2>2, <2>3 DEF Whole, dir
  <2>8. OpenAreRead'
    BY <1>2, <2>2, <2>3, <2>4, <2>7, SMTT(20) DEF OpenAreRead
  <2> QED
    BY <1>6, <2>5, <2>6, <2>8 DEF WalkInv
<1> QED
  BY <1>7, <1>8

\* A sequence with another last element, and without it.
LEMMA LastSteps ==
    ASSUME NEW S, NEW s \in Seq(S), s # <<>>, NEW x \in S
    PROVE  /\ Len(s) \in Nat \ {0} /\ Last(s) = s[Len(s)] /\ s[Len(s)] \in S /\ DOMAIN s = 1 .. Len(s)
           /\ Front(s) \in Seq(S) /\ Len(Front(s)) = Len(s) - 1 /\ DOMAIN Front(s) = 1 .. (Len(s) - 1)
           /\ \A i \in 1 .. (Len(s) - 1) : Front(s)[i] = s[i]
           /\ Append(Front(s), x) \in Seq(S) /\ Len(Append(Front(s), x)) = Len(s)
           /\ DOMAIN Append(Front(s), x) = 1 .. Len(s)
           /\ Append(Front(s), x)[Len(s)] = x
           /\ \A i \in 1 .. (Len(s) - 1) : Append(Front(s), x)[i] = s[i]
<1> DEFINE n == Len(s)
           front == Front(s)
<1>1. n \in Nat \ {0} /\ DOMAIN s = 1 .. n
  OBVIOUS
<1>2. n - 1 \in 0 .. Len(s) /\ n - 1 \in Nat
  BY <1>1
<1>3. front = Upto(s, n - 1)
  BY DEF Front, Upto
<1>4. front \in Seq(S) /\ Len(front) = n - 1 /\ \A i \in 1 .. (n - 1) : front[i] = s[i]
  BY <1>2, <1>3, UptoSteps
<1>5. s[n] \in S
  BY <1>1
<1> HIDE DEF front, n
<1>6. DOMAIN front = 1 .. (n - 1)
  BY <1>4
<1>7. /\ Append(front, x) \in Seq(S) /\ Len(Append(front, x)) = n /\ DOMAIN Append(front, x) = 1 .. n
      /\ Append(front, x)[n] = x /\ \A i \in 1 .. (n - 1) : Append(front, x)[i] = front[i]
  BY <1>1, <1>2, <1>4
<1> QED
  BY <1>1, <1>4, <1>5, <1>6, <1>7, Zenon DEF Last, front, n

\* A directory of the walk is done.
LEMMA EndOfWalkInv ==
    ASSUME PatternsAreRead, WalkInv, EndOfWalk
    PROVE  WalkInv'
<1>1. WalkTyped /\ LeftAtFirst /\ OpenAreRead /\ outcome # "refused"
  BY DEF WalkInv, EndOfWalk, Recurring
<1>2. /\ outcome = "walking" /\ stack = <<>> /\ recursive # <<>> /\ open # <<>>
      /\ UNCHANGED <<stack, found, outcome, tree, wanted, nodes>>
      /\ open' = Front(open)
      /\ recursive' = IF Len(open) = 1 THEN Tail(recursive) ELSE recursive
  BY DEF EndOfWalk, Recurring, world
<1>3. open \in Seq(Listings) /\ recursive \in Seq(LeftSet)
  BY <1>1 DEF WalkTyped
<1>4. PICK x \in Listings : x = open[Len(open)]
  BY <1>2, <1>3, TailSteps
<1>5. /\ Len(open) \in Nat \ {0} /\ DOMAIN open = 1 .. Len(open)
      /\ open' \in Seq(Listings) /\ Len(open') = Len(open) - 1 /\ DOMAIN open' = 1 .. (Len(open) - 1)
      /\ \A i \in 1 .. (Len(open) - 1) : open'[i] = open[i]
  BY <1>2, <1>3, LastSteps
<1>6. RoutesLie'
  BY <1>2 DEF RoutesLie
<1>7. /\ recursive' \in Seq(LeftSet)
      /\ \A i \in DOMAIN recursive' : \E k \in DOMAIN recursive : recursive'[i] = recursive[k]
  <2>1. CASE recursive' = recursive
    BY <1>3, <2>1
  <2>2. CASE recursive' = Tail(recursive)
    <3>1. /\ recursive' \in Seq(LeftSet) /\ DOMAIN recursive' = 1 .. (Len(recursive) - 1)
          /\ DOMAIN recursive = 1 .. Len(recursive) /\ Len(recursive) \in Nat
          /\ \A i \in 1 .. (Len(recursive) - 1) : recursive'[i] = recursive[i + 1]
      BY <1>2, <1>3, <2>2, TailSteps
    <3>2. \A i \in 1 .. (Len(recursive) - 1) : i + 1 \in DOMAIN recursive
      BY <3>1
    <3> QED
      BY <3>1, <3>2
  <2> QED
    BY <1>2, <2>1, <2>2
<1>8. WalkTyped'
  BY <1>1, <1>2, <1>5, <1>7 DEF WalkTyped
<1>9. LeftAtFirst'
  BY <1>1, <1>2, <1>7 DEF LeftAtFirst
<1>10. OpenAreRead'
  <2>1. CASE Len(open) = 1
    <3>1. DOMAIN open' = {} /\ open' = <<>>
      BY <1>5, <2>1
    <3> QED
      BY <3>1 DEF OpenAreRead
  <2>2. CASE Len(open) # 1
    <3>1. recursive' = recursive
      BY <1>2, <2>2
    <3>2. ASSUME NEW j \in DOMAIN open'
          PROVE  ListingOf(tree, wanted, Whole(stack, recursive, open'[j]), open'[j])
      <4>1. j \in DOMAIN open /\ open'[j] = open[j]
        BY <1>5
      <4> QED
        BY <1>1, <4>1 DEF OpenAreRead
    <3> QED
      BY <1>2, <3>1, <3>2 DEF OpenAreRead
  <2> QED
    BY <2>1, <2>2
<1> QED
  BY <1>6, <1>8, <1>9, <1>10 DEF WalkInv

\* The walk behind ** and the directory it reads.
Recurs(reading, m, whole) ==
    /\ stack = <<>> /\ outcome = "walking"
    /\ recursive \in Seq(LeftSet) /\ recursive # <<>> /\ 1 \in DOMAIN recursive
    /\ Head(recursive) = recursive[1] /\ Head(recursive).dir \in Seq(Name)
    /\ Promise!Coded!HasRecursion(wanted) /\ Len(Head(recursive).dir) = First(wanted) - 1
    /\ open \in Seq(Listings) /\ m \in Nat \ {0} /\ m = Len(open) /\ DOMAIN open = 1 .. m
    /\ reading = open[m] /\ reading \in Listings /\ reading.dir \in Seq(Name) /\ reading.place \in Seq(Name)
    /\ whole = Head(recursive).dir \o reading.dir /\ whole \in Seq(Name)
    /\ ListingOf(tree, wanted, whole, reading)

\* It is so.
LEMMA RecurringRecurs ==
    ASSUME PatternsAreRead, WalkInv, Recurring, open # <<>>
    PROVE  Recurs(Last(open), Len(open), Head(recursive).dir \o Last(open).dir)
<1> DEFINE m == Len(open)
           reading == Last(open)
           dir == Head(recursive).dir
<1>1. WalkTyped /\ LeftAtFirst /\ OpenAreRead /\ stack = <<>> /\ recursive # <<>> /\ outcome = "walking"
  BY DEF WalkInv, Recurring
<1>2. open \in Seq(Listings) /\ recursive \in Seq(LeftSet)
  BY <1>1 DEF WalkTyped
<1>3. Head(recursive) = recursive[1] /\ recursive[1] \in LeftSet /\ 1 \in DOMAIN recursive
  BY <1>1, <1>2, TailSteps
<1>4. PICK x \in Listings : x = open[1]
  BY <1>2, TailSteps
<1>5. /\ m \in Nat \ {0} /\ reading = open[m] /\ reading \in Listings /\ DOMAIN open = 1 .. m
  BY <1>2, LastSteps
<1>6. dir \in Seq(Name) /\ Promise!Coded!HasRecursion(wanted) /\ Len(dir) = First(wanted) - 1
  BY <1>1, <1>3 DEF LeftSet, LeftAtFirst
<1> HIDE DEF m, reading, dir
<1>7. reading.dir \in Seq(Name) /\ reading.place \in Seq(Name)
  BY <1>5 DEF Listings
<1>8. dir \o reading.dir \in Seq(Name)
  BY <1>6, <1>7
<1>9. m \in DOMAIN open
  BY <1>5
<1>10. ListingOf(tree, wanted, dir \o reading.dir, reading)
  BY <1>1, <1>5, <1>9 DEF OpenAreRead, Whole, dir
<1> QED
  BY <1>1, <1>2, <1>3, <1>5, <1>6, <1>7, <1>8, <1>10 DEF Recurs, m, reading, dir

\* A name put behind two paths is put behind the second.
LEMMA AppendFurther ==
    ASSUME NEW S, NEW start \in Seq(S), NEW dir \in Seq(S), NEW name \in S
    PROVE  /\ start \o Append(dir, name) = Append(start \o dir, name)
           /\ Append(start \o dir, name) \in Seq(S)
<1> DEFINE one == Append(dir, name)
           left == start \o one
           full == start \o dir
           right == Append(full, name)
           n == Len(start)
           k == Len(dir)
<1>1. n \in Nat /\ k \in Nat /\ one \in Seq(S) /\ Len(one) = k + 1 /\ one[k + 1] = name
      /\ \A i \in 1 .. k : one[i] = dir[i]
  OBVIOUS
<1>2. full \in Seq(S) /\ Len(full) = n + k /\ (\A i \in 1 .. n : full[i] = start[i])
      /\ \A i \in 1 .. k : full[n + i] = dir[i]
  OBVIOUS
<1> HIDE DEF one, full, n, k
<1>3. left \in Seq(S) /\ Len(left) = n + (k + 1) /\ (\A i \in 1 .. n : left[i] = start[i])
      /\ \A i \in 1 .. (k + 1) : left[n + i] = one[i]
  BY <1>1 DEF n
<1>4. right \in Seq(S) /\ Len(right) = (n + k) + 1 /\ right[(n + k) + 1] = name
      /\ \A i \in 1 .. (n + k) : right[i] = full[i]
  <2>1. /\ right \in Seq(S) /\ Len(right) = Len(full) + 1 /\ right[Len(full) + 1] = name
        /\ \A i \in 1 .. Len(full) : right[i] = full[i]
    BY <1>2, AppendSteps
  <2> HIDE DEF right
  <2> QED
    BY <1>2, <2>1
<1> HIDE DEF left, right
<1>5. ASSUME NEW i \in 1 .. (n + (k + 1))
      PROVE  left[i] = right[i]
  <2>1. CASE i \in 1 .. n
    <3>1. i \in 1 .. (n + k)
      BY <1>1, <2>1
    <3> QED
      BY <1>2, <1>3, <1>4, <2>1, <3>1
  <2>2. CASE i \notin 1 .. n
    <3>1. PICK j \in 1 .. (k + 1) : i = n + j
      <4>1. i - n \in 1 .. (k + 1) /\ i = n + (i - n)
        BY <1>1, <2>2
      <4> QED
        BY <4>1
    <3>2. CASE j = k + 1
      <4>1. n + j = (n + k) + 1
        BY <1>1, <3>2
      <4> QED
        BY <1>1, <1>3, <1>4, <3>1, <3>2, <4>1
    <3>3. CASE j # k + 1
      <4>1. j \in 1 .. k /\ n + j \in 1 .. (n + k)
        BY <1>1, <3>1, <3>3
      <4> QED
        BY <1>1, <1>2, <1>3, <1>4, <3>1, <4>1
    <3> QED
      BY <3>2, <3>3
  <2> QED
    BY <2>1, <2>2
<1>6. n + (k + 1) = (n + k) + 1 /\ n + (k + 1) \in Nat
  BY <1>1
<1>7. left = right
  BY <1>3, <1>4, <1>5, <1>6
<1> QED
  BY <1>4, <1>7 DEF left, one, right, full

\* A directory that the walk goes into is where its path leads.
LEMMA FollowedLeads ==
    ASSUME Tidy(tree), NEW base \in Seq(Name), NEW whole \in Seq(Name),
           NEW spot \in Seq(Name), spot = Promise!Coded!Spot(tree, base, whole), IsDir(tree, spot),
           NEW name \in Name, NEW entry \in Entries,
           entry.kind # "file" => Append(spot, name) \in DOMAIN tree /\ tree[Append(spot, name)] = entry,
           NEW place, place = Followed(entry, Append(spot, name)), place # Absent, IsDir(tree, place)
    PROVE  place \in Seq(Name) /\ place = Promise!Coded!Spot(tree, base, Append(whole, name))
           /\ name \in Names(tree, spot)
<1> DEFINE child == Append(spot, name)
<1>1. child \in Seq(Name) /\ child # <<>>
  OBVIOUS
<1> HIDE DEF child
<1>2. child \in DOMAIN tree
  <2>1. CASE entry.kind # "file"
    BY <2>1 DEF child
  <2>2. CASE entry.kind = "file"
    BY <1>1, <2>2 DEF Followed, IsDir, child
  <2> QED
    BY <2>1, <2>2
<1>3. name \in Names(tree, spot)
  BY <1>2, NamesAre DEF child
<1>4. Enter(tree, spot, name) = IF tree[child].kind # "link" THEN child
                                 ELSE IF Known(tree, tree[child].to) THEN tree[child].to ELSE Absent
  BY <1>3, EnterEntry DEF child
<1>5. place = Enter(tree, spot, name) /\ place \in Seq(Name)
  <2>1. CASE entry.kind = "link"
    <3>1. tree[child] = entry /\ entry.to \in Seq(Name)
      BY <2>1 DEF child, Entries
    <3>2. place = entry.to /\ Known(tree, entry.to)
      BY <2>1 DEF Followed
    <3> QED
      BY <1>4, <2>1, <3>1, <3>2
  <2>2. CASE entry.kind # "link"
    <3>1. place = child
      BY <2>2 DEF Followed, child
    <3>2. tree[child].kind = "dir"
      BY <1>1, <3>1 DEF IsDir
    <3> QED
      BY <1>1, <1>4, <3>1, <3>2
  <2> QED
    BY <2>1, <2>2
<1>6. Promise!Coded!Spot(tree, base, Append(whole, name)) = Enter(tree, spot, name)
  BY SpotSteps
<1> QED
  BY <1>3, <1>5, <1>6

\* Where an entry of the walk leads, and when it is skipped.
GoesTo(name, reading) == Followed(reading.may[name], Append(reading.place, name))
Skips(name, reading) ==
    reading.may[name].kind = "link" /\ (GoesTo(name, reading) = Absent \/ LeadsBack(GoesTo(name, reading)))

\* What the walk does with an entry of the directory it reads, the m-th that is open: the
\* entry is read, the directory it leads to is opened, and what fits is a result.
Enters(name, m, reading, whole) ==
    /\ name \in Name /\ Append(reading.dir, name) \in Seq(Name) /\ Append(whole, name) \in Seq(Name)
    /\ open' \in Seq(Listings) /\ DOMAIN open' = 1 .. Len(open')
    /\ \A j \in 1 .. (m - 1) : open'[j] = open[j]
    /\ open'[m] = Listed(name, reading)
    /\ IF ~Skips(name, reading) /\ IsDir(tree, GoesTo(name, reading))
       THEN /\ Len(open') = m + 1 /\ open'[m + 1].dir = Append(reading.dir, name)
            /\ ListingOf(tree, wanted, Append(whole, name), open'[m + 1])
            /\ DOMAIN open'[m + 1].may = open'[m + 1].must
            /\ open'[m + 1].must = Names(tree, Promise!Coded!Spot(tree, Promise!Coded!Base(wanted), Append(whole, name)))
            /\ \A other \in open'[m + 1].must :
                 open'[m + 1].may[other] = tree[Append(open'[m + 1].place, other)]
       ELSE Len(open') = m
    /\ IF Skips(name, reading) \/ ~PathFits(Regexes(Head(recursive)), Append(reading.dir, name))
       THEN UNCHANGED <<found, outcome>>
       ELSE IF wanted.absolute /\ ~IsPrefix(Home, Append(whole, name))
       THEN outcome' = "panicked" /\ found' = found
       ELSE Found(Stripped(Append(whole, name))) /\ outcome' = outcome

\* It does so.
LEMMA WalkEntered ==
    ASSUME PatternsAreRead, WalkInv, WalkEntry,
           NEW m, NEW reading, NEW whole, Recurs(reading, m, whole)
    PROVE  \E name \in DOMAIN reading.may : Enters(name, m, reading, whole)
<1> DEFINE walker == Head(recursive)
           base == Promise!Coded!Base(wanted)
<1>1. WalkTyped /\ Readable(wanted) /\ base \in Seq(Name)
  BY PatternTyped DEF WalkInv, WalkTyped, Recurs
<1>2. /\ open \in Seq(Listings) /\ open # <<>> /\ m \in Nat \ {0} /\ m = Len(open)
      /\ reading = open[m] /\ reading \in Listings /\ reading.dir \in Seq(Name) /\ reading.place \in Seq(Name)
      /\ whole = walker.dir \o reading.dir /\ whole \in Seq(Name) /\ walker.dir \in Seq(Name)
      /\ ListingOf(tree, wanted, whole, reading)
  BY DEF Recurs, WalkEntry
<1>3. reading = Last(open)
  BY <1>2 DEF Last
<1> HIDE DEF base
<1>4. PICK name \in DOMAIN reading.may :
        LET path  == Append(reading.dir, name)
            entry == reading.may[name]
            place == Followed(entry, Append(reading.place, name))
            read  == Append(Front(open), Listed(name, reading))
            full  == walker.dir \o path
            error == entry.kind = "link" /\ (place = Absent \/ LeadsBack(place))
        IN  /\ open' = IF ~error /\ IsDir(tree, place)
                       THEN Append(read, Listing(tree, path, place)) ELSE read
            /\ IF error \/ ~PathFits(Regexes(walker), path) THEN UNCHANGED <<found, outcome>>
               ELSE IF wanted.absolute /\ ~IsPrefix(Home, full)
               THEN outcome' = "panicked" /\ found' = found
               ELSE Found(Stripped(full)) /\ outcome' = outcome
  BY <1>3 DEF WalkEntry
<1> DEFINE path == Append(reading.dir, name)
           entry == reading.may[name]
           place == GoesTo(name, reading)
           listed == Listed(name, reading)
           read == Append(Front(open), listed)
           full == walker.dir \o path
           error == Skips(name, reading)
           more == Listing(tree, path, place)
           there == Append(whole, name)
<1>5. /\ open' = IF ~error /\ IsDir(tree, place) THEN Append(read, more) ELSE read
      /\ IF error \/ ~PathFits(Regexes(walker), path) THEN UNCHANGED <<found, outcome>>
         ELSE IF wanted.absolute /\ ~IsPrefix(Home, full)
         THEN outcome' = "panicked" /\ found' = found
         ELSE Found(Stripped(full)) /\ outcome' = outcome
  BY <1>4 DEF Skips, GoesTo
<1>6. name \in Name /\ entry \in Entries /\ listed \in Listings
  BY <1>2, ListedOnce
<1>7. path \in Seq(Name) /\ there \in Seq(Name) /\ full = there
  <2> DEFINE start == walker.dir
             dir == reading.dir
  <2> HIDE DEF start, dir
  <2>1. start \in Seq(Name) /\ dir \in Seq(Name)
    BY <1>2 DEF start, dir
  <2>2. start \o Append(dir, name) = Append(start \o dir, name) /\ Append(start \o dir, name) \in Seq(Name)
    BY <1>6, <2>1, AppendFurther
  <2>3. Append(dir, name) \in Seq(Name)
    BY <1>6, <2>1
  <2>4. whole = start \o dir
    BY <1>2 DEF start, dir
  <2> QED
    BY <2>2, <2>3, <2>4 DEF start, dir
<1>8. /\ read \in Seq(Listings) /\ Len(read) = m /\ read[m] = listed /\ DOMAIN read = 1 .. m
      /\ \A j \in 1 .. (m - 1) : read[j] = open[j]
  <2> HIDE DEF listed
  <2> QED
    BY <1>2, <1>6, LastSteps
<1> HIDE DEF read
<1>9. ASSUME ~error, IsDir(tree, place)
      PROVE  /\ more \in Listings /\ more.dir = path /\ ListingOf(tree, wanted, there, more)
             /\ DOMAIN more.may = more.must /\ more.must = Names(tree, Promise!Coded!Spot(tree, base, there))
             /\ \A other \in more.must : more.may[other] = tree[Append(more.place, other)]
  <2>1. place # Absent
    BY <1>1, <1>9, AbsentHasNothing DEF WalkTyped
  <2>2. reading.place = Promise!Coded!Spot(tree, base, whole) /\ IsDir(tree, reading.place)
        /\ (entry.kind # "file" => Append(reading.place, name) \in DOMAIN tree /\ tree[Append(reading.place, name)] = entry)
    BY <1>2 DEF ListingOf, base
  <2>3. place = Followed(entry, Append(reading.place, name))
    BY DEF GoesTo
  <2> HIDE DEF place, entry, more, path, there
  <2> DEFINE spot == reading.place
  <2>4. place \in Seq(Name) /\ place = Promise!Coded!Spot(tree, base, Append(whole, name))
    <3>1. spot \in Seq(Name) /\ whole \in Seq(Name) /\ Tidy(tree)
      BY <1>1, <1>2 DEF WalkTyped
    <3> HIDE DEF spot
    <3> QED
      BY <1>1, <1>6, <1>9, <2>1, <2>2, <2>3, <3>1, FollowedLeads DEF spot
  <2>5. place = Promise!Coded!Spot(tree, base, there)
    BY <2>4 DEF there
  <2> QED
    BY <1>1, <1>7, <1>9, <2>4, <2>5, ListingRead DEF WalkTyped, more, base
<1> HIDE DEF listed, place, more, path, there, error, full
<1>10. CASE ~error /\ IsDir(tree, place)
  <2>1. open' = Append(read, more) /\ more \in Listings
    BY <1>5, <1>9, <1>10
  <2>2. /\ open' \in Seq(Listings) /\ Len(open') = m + 1 /\ DOMAIN open' = 1 .. (m + 1)
        /\ open'[m + 1] = more /\ \A j \in 1 .. m : open'[j] = read[j]
    BY <1>8, <2>1, AppendSteps
  <2>3. \A j \in 1 .. (m - 1) : j \in 1 .. m /\ open'[j] = open[j]
    BY <1>2, <1>8, <2>2
  <2>4. open'[m] = listed
    BY <1>2, <1>8, <2>2
  <2>5. Enters(name, m, reading, whole)
    BY <1>5, <1>6, <1>7, <1>9, <1>10, <2>2, <2>3, <2>4 DEF Enters, base, listed, place, path, there, error
  <2> QED
    BY <2>5
<1>11. CASE ~(~error /\ IsDir(tree, place))
  <2>1. open' = read
    BY <1>5, <1>11
  <2>2. Enters(name, m, reading, whole)
    BY <1>5, <1>6, <1>7, <1>8, <1>11, <2>1 DEF Enters, listed, place, path, there, error
  <2> QED
    BY <2>2
<1> QED
  BY <1>10, <1>11

\* What entering does in either case: the listing read gives up the name, at
\* most the directory below it is put on top of it, at most its path is found.
LEMMA EnteredOpen ==
    ASSUME NEW name, NEW m \in Nat, NEW reading, NEW whole, Enters(name, m, reading, whole)
    PROVE  /\ open' \in Seq(Listings) /\ DOMAIN open' = 1 .. Len(open')
           /\ Len(open') = m \/ Len(open') = m + 1
           /\ \A j \in 1 .. (m - 1) : open'[j] = open[j]
           /\ open'[m] = Listed(name, reading)
           /\ Len(open') = m + 1 =>
                /\ open'[m + 1].dir = Append(reading.dir, name)
                /\ ListingOf(tree, wanted, Append(whole, name), open'[m + 1])
           /\ \/ found' = found
              \/ /\ Found(Stripped(Append(whole, name)))
                 /\ wanted.absolute => IsPrefix(Home, Append(whole, name))
           /\ outcome' = outcome \/ outcome' = "panicked"
<1> DEFINE goes == ~Skips(name, reading) /\ IsDir(tree, GoesTo(name, reading))
           above == /\ Len(open') = m + 1 /\ open'[m + 1].dir = Append(reading.dir, name)
                    /\ ListingOf(tree, wanted, Append(whole, name), open'[m + 1])
           quiet == Skips(name, reading) \/ ~PathFits(Regexes(Head(recursive)), Append(reading.dir, name))
           away == wanted.absolute /\ ~IsPrefix(Home, Append(whole, name))
           reports == Found(Stripped(Append(whole, name)))
<1>1. /\ open' \in Seq(Listings) /\ DOMAIN open' = 1 .. Len(open')
      /\ \A j \in 1 .. (m - 1) : open'[j] = open[j]
      /\ open'[m] = Listed(name, reading)
  BY Zenon DEF Enters
<1>2. IF goes THEN above ELSE Len(open') = m
  BY Zenon DEF Enters
<1>3. IF quiet THEN UNCHANGED <<found, outcome>>
      ELSE IF away THEN outcome' = "panicked" /\ found' = found
      ELSE reports /\ outcome' = outcome
  BY Zenon DEF Enters
<1>4. ~away => (wanted.absolute => IsPrefix(Home, Append(whole, name)))
  OBVIOUS
<1> HIDE DEF goes, quiet, away, reports
<1>5. (found' = found \/ (reports /\ ~away)) /\ (outcome' = outcome \/ outcome' = "panicked")
  BY <1>3
<1>6. above \/ Len(open') = m
  BY <1>2
<1> HIDE DEF above
<1>7. above => Len(open') = m + 1 /\ open'[m + 1].dir = Append(reading.dir, name)
               /\ ListingOf(tree, wanted, Append(whole, name), open'[m + 1])
  BY DEF above
<1>8. m # m + 1
  OBVIOUS
<1> QED
  BY <1>1, <1>4, <1>5, <1>6, <1>7, <1>8, Zenon DEF reports

\* The walk reads an entry.
LEMMA WalkEntryInv ==
    ASSUME PatternsAreRead, WalkInv, WalkEntry
    PROVE  WalkInv'
<1> DEFINE m == Len(open)
           reading == Last(open)
           dir == Head(recursive).dir
           whole == dir \o reading.dir
<1>1. WalkTyped /\ LeftAtFirst /\ OpenAreRead /\ Recurring /\ open # <<>>
      /\ UNCHANGED <<stack, recursive, tree, wanted, nodes>>
  BY DEF WalkInv, WalkEntry, world
<1>2. Recurs(reading, m, whole)
  BY <1>1, RecurringRecurs
<1> HIDE DEF m, reading, whole
<1>3. PICK name \in DOMAIN reading.may : Enters(name, m, reading, whole)
  BY <1>2, WalkEntered
<1>4. m \in Nat \ {0} /\ DOMAIN open = 1 .. m /\ stack = <<>> /\ reading \in Listings
      /\ dir \in Seq(Name) /\ recursive # <<>> /\ reading.dir \in Seq(Name) /\ whole = dir \o reading.dir
      /\ ListingOf(tree, wanted, whole, reading) /\ outcome = "walking"
  BY <1>2 DEF Recurs
<1> DEFINE listed == Listed(name, reading)
<1>5. listed.dir = reading.dir /\ ListingOf(tree, wanted, whole, listed) /\ name \in Name
  BY <1>4, ListedOnce, ListedOf
<1> HIDE DEF listed, dir
<1>6. /\ open' \in Seq(Listings) /\ DOMAIN open' = 1 .. Len(open') /\ open'[m] = listed
      /\ \A j \in 1 .. (m - 1) : open'[j] = open[j]
  <2>1. m \in Nat
    BY <1>4
  <2> QED
    BY <1>3, <2>1, EnteredOpen DEF listed
<1>7. found' \in [DOMAIN found' -> Nat \ {0}] /\ outcome' # "refused"
  <2>1. (found' = found \/ \E path : Found(path)) /\ (outcome' = outcome \/ outcome' = "panicked")
    BY <1>3, <1>4, EnteredOpen
  <2> QED
    BY <1>1, <1>4, <2>1, FoundMore DEF WalkTyped
<1>8. Readable(wanted) /\ nodes = NodesOf(wanted.absolute, Components(wanted))
  BY <1>1, <1>4 DEF WalkTyped
<1>9. WalkTyped'
  BY <1>1, <1>6, <1>7, <1>8 DEF WalkTyped
<1>10. RoutesLie' /\ LeftAtFirst'
  BY <1>1, <1>4 DEF RoutesLie, LeftAtFirst
<1>11. ASSUME NEW j \in DOMAIN open'
       PROVE  ListingOf(tree, wanted, dir \o open'[j].dir, open'[j])
  <2>1. CASE j \in 1 .. (m - 1)
    <3>1. j \in DOMAIN open /\ open'[j] = open[j]
      BY <1>4, <1>6, <2>1
    <3> QED
      BY <1>1, <1>4, <3>1 DEF OpenAreRead, Whole, dir
  <2>2. CASE j = m
    BY <1>4, <1>5, <1>6, <2>2
  <2>3. CASE j \notin 1 .. (m - 1) /\ j # m
    <3>1. j = m + 1 /\ Len(open') = m + 1 /\ open'[m + 1].dir = Append(reading.dir, name)
          /\ ListingOf(tree, wanted, Append(whole, name), open'[m + 1])
      <4>1. Len(open') # m
        <5> SUFFICES ASSUME Len(open') = m
                     PROVE  FALSE
          OBVIOUS
        <5>1. j \in 1 .. m
          BY <1>6
        <5>2. \A i \in 1 .. m : i \in 1 .. (m - 1) \/ i = m
          BY <1>4
        <5> QED
          BY <2>3, <5>1, <5>2
      <4>2. Len(open') = m + 1 /\ open'[m + 1].dir = Append(reading.dir, name)
            /\ ListingOf(tree, wanted, Append(whole, name), open'[m + 1])
        BY <1>3, <1>4, <4>1, EnteredOpen
      <4>3. j \in 1 .. (m + 1)
        BY <1>6, <4>2
      <4>4. j = m + 1
        BY <1>4, <2>3, <4>3
      <4> QED
        BY <4>2, <4>4, Zenon
    <3>2. dir \o Append(reading.dir, name) = Append(whole, name)
      <4> DEFINE below == reading.dir
      <4>1. below \in Seq(Name) /\ whole = dir \o below
        BY <1>4
      <4> HIDE DEF below
      <4>2. dir \o Append(below, name) = Append(dir \o below, name)
        BY <1>4, <1>5, <4>1, AppendFurther
      <4> QED
        BY <4>1, <4>2 DEF below
    <3> QED
      BY <3>1, <3>2
  <2> QED
    BY <2>1, <2>2, <2>3
<1>12. \A j \in DOMAIN open' : Whole(stack', recursive', open'[j]) = dir \o open'[j].dir
  BY <1>1, <1>4 DEF Whole, dir
<1>13. OpenAreRead'
  BY <1>1, <1>4, <1>11, <1>12 DEF OpenAreRead
<1> QED
  BY <1>9, <1>10, <1>13 DEF WalkInv

\* The file that another process creates or removes is gone or there, and nothing else is
\* touched.
Touched(path, files) ==
    /\ path \in Volatile /\ IsDir(tree, Front(path))
    /\ IF path \in DOMAIN tree
       THEN DOMAIN files = DOMAIN tree \ {path} /\ \A other \in DOMAIN files : files[other] = tree[other]
       ELSE /\ DOMAIN files = DOMAIN tree \cup {path} /\ files[path] = Entry("file")
            /\ \A other \in DOMAIN tree : files[other] = tree[other]

\* Such a change keeps the tree in order, and its directories and links.
LEMMA TouchedKept ==
    ASSUME Tidy(tree), \A path \in Volatile \cap DOMAIN tree : tree[path] = Entry("file"),
           NEW path, NEW files, Touched(path, files)
    PROVE  /\ Tidy(files) /\ \A other \in Volatile \cap DOMAIN files : files[other] = Entry("file")
           /\ Kept(tree, files) /\ Kept(files, tree)
           /\ \A place : IsDir(tree, place) => IsDir(files, place)
<1>1. IsPath(path)
  BY WalkerAssumption DEF Touched
<1>2. Entry("file").kind = "file" /\ Entry("file") \in Entries
  <2>1. <<>> \in Seq(Name)
    OBVIOUS
  <2> QED
    BY <2>1 DEF Entry, Entries
<1>3. CASE path \in DOMAIN tree
  <2>1. /\ DOMAIN files = DOMAIN tree \ {path} /\ (\A other \in DOMAIN files : files[other] = tree[other])
        /\ tree[path].kind = "file" /\ path \in Volatile
    BY <1>2, <1>3 DEF Touched
  <2>2. \A place : IsDir(tree, place) => IsDir(files, place)
    BY <2>1 DEF IsDir
  <2>3. Kept(tree, files) /\ Kept(files, tree)
    BY <2>1 DEF Kept
  <2>4. IsFiniteSet(DOMAIN files)
    BY <2>1, FS_Subset DEF Tidy
  <2>5. Tidy(files)
    BY <2>1, <2>2, <2>4 DEF Tidy
  <2> QED
    BY <2>1, <2>2, <2>3, <2>5
<1>4. CASE path \notin DOMAIN tree
  <2>1. /\ DOMAIN files = DOMAIN tree \cup {path} /\ files[path] = Entry("file") /\ path \in Volatile
        /\ (\A other \in DOMAIN tree : files[other] = tree[other]) /\ IsDir(tree, Front(path))
    BY <1>4 DEF Touched
  <2>2. \A place : IsDir(tree, place) => IsDir(files, place)
    BY <2>1 DEF IsDir
  <2>3. Kept(tree, files) /\ Kept(files, tree)
    BY <1>2, <2>1 DEF Kept
  <2>4. IsFiniteSet(DOMAIN files)
    BY <2>1, FS_AddElement DEF Tidy
  <2>5. ASSUME NEW other \in DOMAIN files
        PROVE  /\ IsPath(other) /\ IsDir(files, Front(other))
               /\ files[other] \in Entries
               /\ files[other].kind = "link" /\ files[other].to \in DOMAIN files =>
                    files[files[other].to].kind # "link"
    <3>1. CASE other = path
      BY <1>1, <1>2, <2>1, <2>2, <3>1
    <3>2. CASE other # path
      <4>1. other \in DOMAIN tree /\ files[other] = tree[other]
        BY <2>1, <3>2
      <4>2. IsPath(other) /\ IsDir(files, Front(other)) /\ files[other] \in Entries
        BY <2>2, <4>1 DEF Tidy, Entries
      <4>3. files[other].to # path /\ files[other].kind = "link" /\ files[other].to \in DOMAIN files =>
              files[files[other].to].kind # "link"
        BY <2>1, <4>1 DEF Tidy
      <4>4. files[path].kind # "link"
        BY <1>2, <2>1
      <4> QED
        BY <4>2, <4>3, <4>4
    <3> QED
      BY <3>1, <3>2
  <2>6. Tidy(files)
    BY <2>4, <2>5 DEF Tidy, Entries
  <2> QED
    BY <2>1, <2>2, <2>3, <2>6
<1> QED
  BY <1>3, <1>4

\* What a directory that is being read has of the file that came or went.
Sees(path, listing, more) ==
    LET here == listing.place = Front(path)
        gone == path \in DOMAIN tree
    IN  /\ more \in Listings /\ more.dir = listing.dir /\ more.place = listing.place
        /\ more.must = (IF here /\ gone THEN listing.must \ {Last(path)} ELSE listing.must)
        /\ DOMAIN more.may = (IF here /\ ~gone THEN DOMAIN listing.may \cup {Last(path)} ELSE DOMAIN listing.may)
        /\ \A name \in DOMAIN more.may :
             IF here /\ ~gone /\ name = Last(path) THEN more.may[name] = Entry("file")
             ELSE more.may[name] = listing.may[name]

\* One file comes or goes, and the directories that are being read see it.
LEMMA ChangeTouches ==
    ASSUME WalkTyped, Change
    PROVE  \E path : /\ Touched(path, tree') /\ Tidy(tree')
                     /\ sometime' = sometime \cup (Promise!Coded!Matches(tree', wanted) \cup
                                                 Promise!Documented!Matches(tree', wanted))
                     /\ always' = always \cap (Promise!Coded!Matches(tree', wanted) \cap
                                             Promise!Documented!Matches(tree', wanted))
                     /\ steady' = steady \cap Promise!Coded!Matches(tree', wanted)
                     /\ open' \in Seq(Listings) /\ DOMAIN open' = DOMAIN open
                     /\ \A i \in DOMAIN open : Sees(path, open[i], open'[i])
<1> DEFINE after(path) == IF path \in DOMAIN tree THEN Restrict(tree, DOMAIN tree \ {path})
                          ELSE [p \in DOMAIN tree \cup {path} |-> IF p = path THEN Entry("file") ELSE tree[p]]
           Seen(path, listing) ==
             IF listing.place # Front(path) THEN listing
             ELSE IF path \in DOMAIN tree THEN [listing EXCEPT !.must = @ \ {Last(path)}]
             ELSE [listing EXCEPT !.may = [name \in DOMAIN @ \cup {Last(path)} |->
                                             IF name = Last(path) THEN Entry("file") ELSE @[name]]]
<1>1. PICK path \in Volatile : /\ IsDir(tree, Front(path)) /\ tree' = after(path)
                               /\ open' = [i \in DOMAIN open |-> Seen(path, open[i])]
                               /\ sometime' = sometime \cup (Promise!Coded!Matches(after(path), wanted) \cup
                                                           Promise!Documented!Matches(after(path), wanted))
                               /\ always' = always \cap (Promise!Coded!Matches(after(path), wanted) \cap
                                                       Promise!Documented!Matches(after(path), wanted))
                               /\ steady' = steady \cap Promise!Coded!Matches(after(path), wanted)
  BY Zenon DEF Change
<1>2. Touched(path, tree')
  <2>1. CASE path \in DOMAIN tree
    <3>1. tree' = [p \in DOMAIN tree \ {path} |-> tree[p]]
      BY <1>1, <2>1 DEF Restrict
    <3> QED
      BY <1>1, <2>1, <3>1 DEF Touched
  <2>2. CASE path \notin DOMAIN tree
    <3>1. tree' = [p \in DOMAIN tree \cup {path} |-> IF p = path THEN Entry("file") ELSE tree[p]]
      BY <1>1, <2>2
    <3> QED
      BY <1>1, <2>2, <3>1 DEF Touched
  <2> QED
    BY <2>1, <2>2
<1>3. Tidy(tree')
  BY <1>2, TouchedKept DEF WalkTyped
<1>4. Last(path) \in Name /\ Entry("file") \in Entries
  <2>1. IsPath(path) /\ <<>> \in Seq(Name)
    BY WalkerAssumption
  <2> QED
    BY <2>1 DEF IsPath, IsName, Entry, Entries
<1>5. ASSUME NEW listing \in Listings
      PROVE  Sees(path, listing, Seen(path, listing))
  <2>1. PICK names \in SUBSET Name : listing.may \in [names -> Entries]
    BY DEF Listings
  <2>2. listing = [dir |-> listing.dir, place |-> listing.place, must |-> listing.must, may |-> listing.may]
        /\ listing.dir \in Seq(Name) /\ listing.place \in Seq(Name) /\ listing.must \in SUBSET Name
    BY DEF Listings
  <2>3. CASE listing.place # Front(path)
    BY <2>3 DEF Sees
  <2>4. CASE listing.place = Front(path) /\ path \in DOMAIN tree
    <3> DEFINE more == [dir |-> listing.dir, place |-> listing.place, must |-> listing.must \ {Last(path)},
                        may |-> listing.may]
    <3>1. Seen(path, listing) = more
      BY <2>2, <2>4
    <3>2. more \in Listings
      BY <2>1, <2>2 DEF Listings
    <3> QED
      BY <2>4, <3>1, <3>2 DEF Sees
  <2>5. CASE listing.place = Front(path) /\ path \notin DOMAIN tree
    <3> DEFINE may == [name \in DOMAIN listing.may \cup {Last(path)} |->
                         IF name = Last(path) THEN Entry("file") ELSE listing.may[name]]
    <3>1. may \in [names \cup {Last(path)} -> Entries]
      BY <1>4, <2>1
    <3>2. may \in UNION {[some -> Entries] : some \in SUBSET Name}
      BY <1>4, <3>1
    <3>3. DOMAIN may = DOMAIN listing.may \cup {Last(path)} /\ may[Last(path)] = Entry("file")
          /\ \A name \in DOMAIN listing.may : name # Last(path) => may[name] = listing.may[name]
      OBVIOUS
    <3>4. Seen(path, listing) = [listing EXCEPT !.may = may]
      BY <2>5
    <3> HIDE DEF may
    <3> DEFINE more == [dir |-> listing.dir, place |-> listing.place, must |-> listing.must, may |-> may]
    <3>5. Seen(path, listing) = more
      BY <2>2, <3>4
    <3>6. more \in Listings
      BY <2>2, <3>2 DEF Listings
    <3> QED
      BY <2>5, <3>3, <3>5, <3>6 DEF Sees
  <2> QED
    BY <2>3, <2>4, <2>5
<1> HIDE DEF Seen
<1>6. open \in Seq(Listings) /\ Len(open) \in Nat /\ DOMAIN open = 1 .. Len(open)
      /\ \A i \in DOMAIN open : open[i] \in Listings
  BY DEF WalkTyped
<1>7. DOMAIN open' = DOMAIN open /\ \A i \in DOMAIN open : Sees(path, open[i], open'[i])
  BY <1>1, <1>5, <1>6
<1>8. open' \in Seq(Listings)
  <2>1. \A i \in 1 .. Len(open) : open'[i] \in Listings
    BY <1>6, <1>7 DEF Sees
  <2>2. open' = [i \in 1 .. Len(open) |-> Seen(path, open[i])]
    BY <1>1, <1>6
  <2>3. open' \in [1 .. Len(open) -> Listings]
    BY <2>1, <2>2
  <2> QED
    BY <1>6, <2>3
<1> QED
  BY <1>1, <1>2, <1>3, <1>7, <1>8

\* A directory stays where its path leads, whatever files come and go.
LEMMA SpotKept ==
    ASSUME NEW files, Tidy(files), NEW other, Tidy(other), Kept(files, other), Kept(other, files),
           NEW base \in Seq(Name), NEW path \in Seq(Name), IsDir(files, Promise!Coded!Spot(files, base, path))
    PROVE  Promise!Coded!Spot(other, base, path) = Promise!Coded!Spot(files, base, path)
<1> DEFINE full == base \o path
<1>1. full \in Seq(Name)
  OBVIOUS
<1> HIDE DEF full
<1>2. Promise!Coded!Spot(files, base, path) = Resolve(files, full)
        /\ Promise!Coded!Spot(other, base, path) = Resolve(other, full)
  BY SameFiles DEF Promise!Coded!Spot, full
<1> QED
  BY <1>1, <1>2, ResolveKept

\* Another process creates or removes a file.
LEMMA ChangeInv ==
    ASSUME PatternsAreRead, WalkInv, Change
    PROVE  WalkInv'
<1>1. WalkTyped /\ RoutesLie /\ LeftAtFirst /\ OpenAreRead
  BY DEF WalkInv
<1>2. /\ UNCHANGED <<wanted, nodes, stack, recursive, found, outcome>> /\ outcome = "walking"
  BY DEF Change
<1>3. PICK path : /\ Touched(path, tree') /\ Tidy(tree') /\ open' \in Seq(Listings) /\ DOMAIN open' = DOMAIN open
                  /\ \A i \in DOMAIN open : Sees(path, open[i], open'[i])
  BY <1>1, ChangeTouches
<1>4. /\ \A other \in Volatile \cap DOMAIN tree' : tree'[other] = Entry("file")
      /\ Kept(tree, tree') /\ Kept(tree', tree) /\ \A place : IsDir(tree, place) => IsDir(tree', place)
  BY <1>1, <1>3, TouchedKept DEF WalkTyped
<1>5. Readable(wanted) /\ Tidy(tree) /\ Promise!Coded!Base(wanted) \in Seq(Name)
  BY <1>1, <1>2, PatternTyped DEF WalkTyped
<1>6. WalkTyped'
  BY <1>1, <1>2, <1>3, <1>4 DEF WalkTyped
<1>7. LeftAtFirst'
  BY <1>1, <1>2 DEF LeftAtFirst
<1>8. open # <<>> <=> open' # <<>>
  <2>1. open \in Seq(Listings)
    BY <1>1 DEF WalkTyped
  <2> QED
    BY <1>3, <2>1
<1>9. RoutesLie'
  <2>1. At' = At /\ \A i : NodeAt(i)' = NodeAt(i)
    BY <1>2, <1>8 DEF At, NodeAt
  <2> QED
    BY <1>1, <1>2, <2>1 DEF RoutesLie
<1>10. Len(open) = 1 => Len(open') = 1
  <2>1. open \in Seq(Listings)
    BY <1>1 DEF WalkTyped
  <2>2. DOMAIN open = 1 .. Len(open) /\ DOMAIN open' = 1 .. Len(open') /\ Len(open') \in Nat
    BY <1>3, <2>1
  <2>3. ASSUME Len(open) = 1
        PROVE  Len(open') = 1
    <3>1. 1 .. Len(open') = 1 .. 1
      BY <1>3, <2>2, <2>3
    <3>2. 1 \in 1 .. Len(open') /\ Len(open') \in 1 .. 1
      BY <2>2, <3>1
    <3> QED
      BY <3>2
  <2> QED
    BY <2>3
<1>11. ASSUME NEW j \in DOMAIN open
       PROVE  /\ ListingOf(tree', wanted, Whole(stack, recursive, open'[j]), open'[j])
              /\ open'[j].dir = open[j].dir
  <2> DEFINE listing == open[j]
             more == open'[j]
             where == Whole(stack, recursive, listing)
             base == Promise!Coded!Base(wanted)
  <2>1. Sees(path, listing, more)
    BY <1>3
  <2>2. more.dir = listing.dir /\ more.place = listing.place
    BY <2>1 DEF Sees
  <2>3. ListingOf(tree, wanted, where, listing) /\ listing \in Listings
    BY <1>1 DEF OpenAreRead, WalkTyped
  <2>4. Whole(stack, recursive, more) = where
    BY <2>2 DEF Whole
  <2>5. where \in Seq(Name)
    <3>1. listing.dir \in Seq(Name)
      BY <2>3 DEF Listings
    <3>2. CASE stack # <<>>
      BY <3>1, <3>2 DEF Whole
    <3>3. CASE stack = <<>>
      <4>1. open # <<>>
        <5>1. open \in Seq(Listings)
          BY <1>1 DEF WalkTyped
        <5> QED
          BY <5>1
      <4>2. recursive # <<>> /\ recursive \in Seq(LeftSet)
        BY <1>1, <3>3, <4>1 DEF OpenAreRead, WalkTyped
      <4>3. Head(recursive).dir \in Seq(Name)
        <5>1. Head(recursive) = recursive[1] /\ recursive[1] \in LeftSet
          BY <4>2, TailSteps
        <5> QED
          BY <5>1 DEF LeftSet
      <4> QED
        BY <3>1, <3>3, <4>3 DEF Whole
    <3> QED
      BY <3>2, <3>3
  <2> HIDE DEF where, listing, more, base
  <2>6. listing.place = Promise!Coded!Spot(tree, base, where) /\ IsDir(tree, listing.place)
    BY <2>3 DEF ListingOf, base
  <2>7. Promise!Coded!Spot(tree', base, where) = Promise!Coded!Spot(tree, base, where)
    BY <1>3, <1>4, <1>5, <2>5, <2>6, SpotKept DEF base
  <2>8. IsDir(tree', more.place)
    BY <1>4, <2>2, <2>6
  <2>9. ASSUME NEW name \in DOMAIN more.may, more.may[name].kind # "file"
        PROVE  Append(more.place, name) \in DOMAIN tree' /\ tree'[Append(more.place, name)] = more.may[name]
    <3>1. Entry("file").kind = "file"
      BY DEF Entry
    <3>2. name \in DOMAIN listing.may /\ more.may[name] = listing.may[name]
      BY <2>1, <2>9, <3>1 DEF Sees
    <3> DEFINE child == Append(listing.place, name)
    <3> HIDE DEF child
    <3>3. child \in DOMAIN tree /\ tree[child] = listing.may[name]
      BY <2>3, <2>9, <3>2 DEF ListingOf, child
    <3>4. child \in DOMAIN tree' /\ tree'[child] = tree[child]
      BY <1>4, <2>9, <3>2, <3>3 DEF Kept
    <3> QED
      BY <2>2, <3>2, <3>3, <3>4 DEF child
  <2>10. ListingOf(tree', wanted, where, more)
    BY <2>2, <2>6, <2>7, <2>8, <2>9 DEF ListingOf, base
  <2> QED
    BY <2>2, <2>4, <2>10 DEF where, listing, more
<1>12. OpenAreRead'
  <2>1. NodeAt(1)' = NodeAt(1)
    BY <1>2, <1>8 DEF NodeAt
  <2>2. open # <<>> => 1 \in DOMAIN open
    BY <1>1, TailSteps DEF WalkTyped
  <2> QED
    BY <1>1, <1>2, <1>3, <1>8, <1>10, <1>11, <2>1, <2>2 DEF OpenAreRead, IsLeaf
<1> QED
  BY <1>6, <1>7, <1>9, <1>12 DEF WalkInv

\* At first nothing is read, and the only walker stands at the first node.
LEMMA InitInv ==
    ASSUME PatternsAreRead, Init
    PROVE  WalkInv
<1> DEFINE first == Route(1, <<>>, FALSE)
<1>1. /\ tree \in Trees /\ wanted \in Wanted /\ recursive = <<>> /\ open = <<>> /\ found = EmptyBag
      /\ outcome \in {"refused", "walking"}
      /\ IF outcome = "refused" THEN stack = <<>>
         ELSE /\ Readable(wanted) /\ nodes = NodesOf(wanted.absolute, Components(wanted))
              /\ stack = <<first>>
  BY DEF Init, Readable
<1>2. first \in RouteSet /\ first.next = 1 /\ first.dir = <<>>
  <2>1. <<>> \in Seq(Name)
    OBVIOUS
  <2> QED
    BY <2>1 DEF Route, RouteSet
<1> HIDE DEF first
<1>3. stack \in Seq(RouteSet)
  <2>1. <<>> \in Seq(RouteSet)
    OBVIOUS
  <2>2. CASE outcome = "refused"
    BY <1>1, <2>1, <2>2
  <2>3. CASE outcome # "refused"
    <3>1. stack = <<first>>
      BY <1>1, <2>3
    <3> QED
      BY <1>2, <3>1
  <2> QED
    BY <2>2, <2>3
<1>4. found \in [DOMAIN found -> Nat \ {0}]
  BY <1>1 DEF EmptyBag, SetToBag
<1>5. WalkTyped
  BY <1>1, <1>3, <1>4, WalkerAssumption DEF WalkTyped
<1>6. LeftAtFirst /\ OpenAreRead
  BY <1>1 DEF LeftAtFirst, OpenAreRead
<1>7. ASSUME outcome # "refused"
      PROVE  \A i \in DOMAIN stack : /\ NodeAt(i) \in DOMAIN nodes /\ At[NodeAt(i)] = Len(stack[i].dir)
                                     /\ Len(stack[i].dir) < First(wanted)
  <2>1. stack = <<first>>
    BY <1>1, <1>7
  <2>2. \A i \in DOMAIN stack : i = 1
    BY <2>1
  <2>3. stack[1] = first
    BY <2>1
  <2>4. NodeAt(1) = 1 /\ Len(stack[1].dir) = 0
    BY <1>1, <1>2, <2>3 DEF NodeAt
  <2>5. Laid(At, nodes, wanted, Len(wanted.components)) /\ DOMAIN nodes = 1 .. Len(nodes) /\ Len(nodes) \in Nat
    BY <1>5, <1>7, NodesLaid
  <2>6. At[1] = 0 /\ At[Len(nodes) + 1] = Len(wanted.components)
    BY <2>5 DEF Laid
  <2>7. Len(wanted.components) # 0 /\ First(wanted) \in Nat \ {0}
    BY <1>1, <1>7, PatternTyped, FirstIs
  <2>8. Len(nodes) # 0
    BY <2>6, <2>7
  <2>9. 1 \in DOMAIN nodes
    BY <2>5, <2>8
  <2> QED
    BY <2>2, <2>4, <2>6, <2>7, <2>9
<1>8. RoutesLie
  BY <1>7 DEF RoutesLie
<1> QED
  BY <1>5, <1>6, <1>8 DEF WalkInv

\* Every step keeps the invariant.
LEMMA NextInv ==
    ASSUME PatternsAreRead, WalkInv, [Next]_vars
    PROVE  WalkInv'
<1>1. CASE UNCHANGED vars
  <2>1. UNCHANGED <<tree, wanted, nodes, stack, recursive, open, found, outcome>>
    BY <1>1 DEF vars
  <2>2. WalkTyped'
    BY <2>1 DEF WalkInv, WalkTyped
  <2>3. At' = At
    BY <2>1 DEF At
  <2>4. RoutesLie'
    BY <2>1, <2>3 DEF WalkInv, RoutesLie, NodeAt
  <2>5. LeftAtFirst'
    BY <2>1 DEF WalkInv, LeftAtFirst
  <2>6. OpenAreRead'
    BY <2>1 DEF WalkInv, OpenAreRead, NodeAt, IsLeaf
  <2> QED
    BY <2>2, <2>4, <2>5, <2>6 DEF WalkInv
<1>2. CASE Finish
  <2>1. UNCHANGED <<tree, wanted, nodes, stack, recursive, open, found>> /\ outcome = "walking" /\ outcome' = "done"
    BY <1>2 DEF Finish, walk, world
  <2>2. WalkTyped'
    BY <2>1 DEF WalkInv, WalkTyped
  <2>3. At' = At
    BY <2>1 DEF At
  <2>4. RoutesLie'
    BY <2>1, <2>3 DEF WalkInv, RoutesLie, NodeAt
  <2>5. LeftAtFirst'
    BY <2>1 DEF WalkInv, LeftAtFirst
  <2>6. OpenAreRead'
    BY <2>1 DEF WalkInv, OpenAreRead, NodeAt, IsLeaf
  <2> QED
    BY <2>2, <2>4, <2>5, <2>6 DEF WalkInv
<1>3. CASE AtEnd
  BY <1>3, AtEndInv
<1>4. CASE Recur
  BY <1>4, RecurInv
<1>5. CASE OpenDir
  BY <1>5, OpenDirInv
<1>6. CASE NextEntry
  BY <1>6, NextEntryInv
<1>7. CASE EndOfDir
  BY <1>7, EndOfDirInv
<1>8. CASE StartWalk
  BY <1>8, StartWalkInv
<1>9. CASE WalkEntry
  BY <1>9, WalkEntryInv
<1>10. CASE EndOfWalk
  BY <1>10, EndOfWalkInv
<1>11. CASE Change
  BY <1>11, ChangeInv
<1> QED
  BY <1>1, <1>2, <1>3, <1>4, <1>5, <1>6, <1>7, <1>8, <1>9, <1>10, <1>11 DEF Next, Step, Ended

-----------------------------------------------------------------------------
(***************************************************************************)
(* Nothing is reported twice: the inductive invariant OneSource, action by  *)
(* action.                                                                  *)
(***************************************************************************)

\* Different paths are reported as different results, also where some of them are
\* relative to the starting directory (Promise!Coded!Report).
LEMMA ReportsDiffer ==
    ASSUME NEW pattern, NEW path \in Seq(Name), NEW other \in Seq(Name),
           Promise!Coded!Report(pattern, path) = Promise!Coded!Report(pattern, other)
    PROVE  path = other
<1> DEFINE n == Len(Home)
<1>1. Home \in Seq(Name)
  BY WalkerAssumption
<1>2. ASSUME NEW p \in Seq(Name), Promise!Coded!IsPrefix(Home, p)
      PROVE  n \in 0 .. Len(p) /\ Home \o Rest(p, n) = p
  <2>1. n \in 0 .. Len(p)
    BY <1>1, <1>2 DEF Promise!Coded!IsPrefix
  <2>2. \A i \in 1 .. n : p[i] = Home[i]
    <3>1. SubSeq(Home, 1, n) = SubSeq(p, 1, n)
      BY <1>2 DEF Promise!Coded!IsPrefix
    <3>2. \A i \in 1 .. n : SubSeq(Home, 1, n)[i] = Home[i] /\ SubSeq(p, 1, n)[i] = p[i]
      BY <1>1, <2>1
    <3> QED
      BY <3>1, <3>2
  <2>3. Leads(Home, p)
    BY <2>1, <2>2 DEF Leads
  <2>4. Upto(p, n) = Home
    BY <1>1, <1>2, <2>3, LeadsWhole
  <2> QED
    BY <1>2, <2>1, <2>4, RestSteps
<1>3. CASE ~pattern.absolute
  BY <1>3 DEF Promise!Coded!Report
<1>4. CASE pattern.absolute
  <2> DEFINE Inside(p) == Promise!Coded!HasRecursion(pattern) /\ Promise!Coded!IsPrefix(Home, p)
  <2>1. \A p : Promise!Coded!Report(pattern, p) =
                 IF Inside(p) THEN [from |-> "home", path |-> Rest(p, n)] ELSE [from |-> "/", path |-> p]
    BY <1>4 DEF Promise!Coded!Report, Rest
  <2>2. Inside(path) <=> Inside(other)
    BY <2>1
  <2>3. CASE Inside(path)
    <3>1. Rest(path, n) = Rest(other, n)
      BY <2>1, <2>2, <2>3
    <3>2. Promise!Coded!IsPrefix(Home, path) /\ Promise!Coded!IsPrefix(Home, other)
      BY <2>2, <2>3
    <3> HIDE DEF n
    <3> QED
      BY <1>2, <3>1, <3>2
  <2>4. CASE ~Inside(path)
    BY <2>1, <2>2, <2>4
  <2> QED
    BY <2>3, <2>4
<1> QED
  BY <1>3, <1>4

\* What is reported for a path is what the promise reports for it, one that a walk
\* behind ** found and one that the queue's walkers found (Walker::next).
LEMMA ReportedAs ==
    ASSUME NEW dir
    PROVE  /\ ~Promise!Coded!HasRecursion(wanted) => Reported(dir) = Promise!Coded!Report(wanted, dir)
           /\ Promise!Coded!HasRecursion(wanted) /\ (wanted.absolute => IsPrefix(Home, dir)) =>
                Stripped(dir) = Promise!Coded!Report(wanted, dir)
<1>1. IsPrefix(Home, dir) => Promise!Coded!IsPrefix(Home, dir)
  BY DEF IsPrefix, Promise!Coded!IsPrefix
<1> QED
  BY <1>1 DEF Reported, Stripped, Promise!Coded!Report

\* A result is a further copy of that path alone that it reports.
LEMMA FoundOther ==
    ASSUME found \in [DOMAIN found -> Nat \ {0}], NEW dir \in Seq(Name), NEW path \in Seq(Name),
           Found(Promise!Coded!Report(wanted, dir)), wanted' = wanted
    PROVE  /\ path # dir => Copies(found, Promise!Coded!Report(wanted, path))'
                = Copies(found, Promise!Coded!Report(wanted, path))
           /\ path = dir /\ Copies(found, Promise!Coded!Report(wanted, path)) = {} =>
                Copies(found, Promise!Coded!Report(wanted, path))' = {1}
<1> DEFINE report == Promise!Coded!Report(wanted, dir)
           here == Promise!Coded!Report(wanted, path)
<1>1. path # dir => here # report
  BY ReportsDiffer
<1>2. here' = here
  BY DEF Promise!Coded!Report
<1>3. path = dir => here = report
  OBVIOUS
<1>4. Found(report)
  OBVIOUS
<1> HIDE DEF report, here
<1>5. /\ \A r : r # report => Copies(found', r) = Copies(found, r)
      /\ Copies(found, report) = {} => Copies(found', report) = {1}
  BY <1>4, FoundMore
<1>6. Copies(found, here)' = Copies(found', here)
  BY <1>2
<1>7. /\ path # dir => Copies(found, here)' = Copies(found, here)
      /\ path = dir /\ Copies(found, here) = {} => Copies(found, here)' = {1}
  BY <1>1, <1>3, <1>5, <1>6
<1> QED
  BY <1>7 DEF here

\* A path that the walker at work reports at its last literals led there before
\* (AtEnd).
LEMMA AtEndSole ==
    ASSUME PatternsAreRead, WalkInv, AtEnd, NEW path \in Seq(Name), Sole(path)
    PROVE  Sole(path)'
<1> DEFINE candidate == NextCandidate(Head(stack))
           dir == candidate.route.dir
           R == Routed(stack, open, path)
           L == Left(recursive, stack, open, path)
           E == Expected(open, stack, recursive, path)
           C == Copies(found, Promise!Coded!Report(wanted, path))
<1>1. Starting /\ Stands(candidate)
  BY CandidateStands DEF AtEnd
<1>2. /\ ~candidate.some /\ stack' = Tail(stack) /\ open = <<>> /\ open' = open
      /\ recursive' = recursive /\ wanted' = wanted
      /\ found' = found \/ Found(Reported(dir))
  BY <1>1 DEF AtEnd, Starting, world
<1>3. stack \in Seq(RouteSet) /\ stack # <<>> /\ found \in [DOMAIN found -> Nat \ {0}]
  BY <1>1 DEF Starting, Walking, WalkInv, WalkTyped
<1>4. dir \in Seq(Name) /\ ~Promise!Coded!HasRecursion(wanted) /\ (Leads(dir, path) => Leads(Head(stack).dir, path))
  BY <1>1, <1>2 DEF Stands, RouteSet
<1>5. Reported(dir) = Promise!Coded!Report(wanted, dir)
  BY <1>4, ReportedAs
<1> HIDE DEF candidate, dir
<1>6. 1 \in DOMAIN stack /\ Head(stack) = stack[1]
  BY <1>3, TailSteps
<1>7. \A i : i \in Routed(Tail(stack), <<>>, path) <=> i \in Nat \ {0} /\ i + 1 \in R
  BY <1>3, RoutedTail
<1>8. \A i : i \in R' <=> i \in Nat \ {0} /\ i + 1 \in R
  BY <1>2, <1>7
<1>9. L' = L
  BY <1>2 DEF Left
<1>10. E' = {}
  BY <1>2 DEF Expected
<1>11. dir = path => 1 \in R
  <2>1. Leads(path, path)
    BY LeadsWhole
  <2> QED
    BY <1>2, <1>4, <1>6, <2>1 DEF Routed
<1>12. C' = C \/ (1 \in R /\ (C = {} => C' = {1}))
  <2>1. CASE found' = found
    <3>1. C' = C
      BY <1>2, <2>1 DEF Promise!Coded!Report
    <3> QED
      BY <3>1
  <2>2. CASE Found(Reported(dir))
    <3>1. Found(Promise!Coded!Report(wanted, dir))
      BY <1>5, <2>2
    <3>2. (path # dir => C' = C) /\ (path = dir /\ C = {} => C' = {1})
      BY <1>2, <1>3, <1>4, <3>1, FoundOther
    <3> QED
      BY <1>11, <3>2
  <2> QED
    BY <1>2, <2>1, <2>2
<1>13. Lone(R, L, E, C)
  BY DEF Sole
<1> HIDE DEF R, L, E, C
<1>14. R \subseteq Nat
  BY <1>3 DEF R, Routed
<1>15. Lone(R', L', E', C')
  BY <1>8, <1>9, <1>10, <1>12, <1>13, <1>14 DEF Lone
<1> QED
  BY <1>15 DEF Sole, R, L, E, C

\* What is left to a RecursiveWalker was the walker's at work (Recur).
LEMMA RecurSole ==
    ASSUME PatternsAreRead, WalkInv, Recur, NEW path \in Seq(Name), Sole(path)
    PROVE  Sole(path)'
<1> DEFINE candidate == NextCandidate(Head(stack))
           dir == candidate.route.dir
           walker == [next |-> candidate.route.next + 1, dir |-> dir]
           R == Routed(stack, open, path)
           L == Left(recursive, stack, open, path)
           E == Expected(open, stack, recursive, path)
           C == Copies(found, Promise!Coded!Report(wanted, path))
<1>1. Starting /\ Stands(candidate)
  BY CandidateStands DEF Recur
<1>2. /\ stack' = Tail(stack) /\ open = <<>> /\ open' = open
      /\ recursive' = Append(recursive, walker) /\ wanted' = wanted /\ found' = found
  BY <1>1 DEF Recur, Starting, world
<1>3. stack \in Seq(RouteSet) /\ stack # <<>> /\ recursive \in Seq(LeftSet)
  BY <1>1 DEF Starting, Walking, WalkInv, WalkTyped
<1>4. dir \in Seq(Name) /\ (Leads(dir, path) => Leads(Head(stack).dir, path))
      /\ walker \in LeftSet /\ walker.dir = dir
  BY <1>1 DEF Stands, RouteSet, LeftSet
<1> HIDE DEF candidate, dir, walker
<1>5. 1 \in DOMAIN stack /\ Head(stack) = stack[1]
  BY <1>3, TailSteps
<1>6. \A i : i \in Routed(Tail(stack), <<>>, path) <=> i \in Nat \ {0} /\ i + 1 \in R
  BY <1>3, RoutedTail
<1>7. \A i : i \in R' <=> i \in Nat \ {0} /\ i + 1 \in R
  BY <1>2, <1>6
<1>8. \A i : i \in Left(Append(recursive, walker), Tail(stack), <<>>, path) <=>
               i \in Left(recursive, stack, <<>>, path) \/ (i = Len(recursive) + 1 /\ Leads(walker.dir, path))
  BY <1>3, <1>4, LeftMore
<1>9. \A i : i \in L' <=> i \in L \/ (i = Len(recursive) + 1 /\ Leads(dir, path))
  BY <1>2, <1>4, <1>8
<1>10. E' = {}
  BY <1>2 DEF Expected
<1>11. Leads(dir, path) => 1 \in R
  BY <1>2, <1>4, <1>5 DEF Routed
<1>12. C' = C
  BY <1>2 DEF Promise!Coded!Report
<1>13. Lone(R, L, E, C)
  BY DEF Sole
<1>14. R \subseteq Nat
  BY <1>3 DEF Routed
<1> HIDE DEF R, L, E, C
<1>15. Lone(R', L', E', C')
  BY <1>7, <1>9, <1>10, <1>11, <1>12, <1>13, <1>14 DEF Lone
<1> QED
  BY <1>15 DEF Sole, R, L, E, C

\* What a directory lists is for the walker that opened it (OpenDir).
LEMMA OpenDirSole ==
    ASSUME PatternsAreRead, WalkInv, OpenDir, NEW path \in Seq(Name), Sole(path)
    PROVE  Sole(path)'
<1> DEFINE candidate == NextCandidate(Head(stack))
           dir == candidate.route.dir
           place == Resolve(tree, Located(dir))
           listing == Listing(tree, dir, place)
           route == Route(candidate.route.next + 1, dir, candidate.route.literals)
           R == Routed(stack, open, path)
           L == Left(recursive, stack, open, path)
           E == Expected(open, stack, recursive, path)
           C == Copies(found, Promise!Coded!Report(wanted, path))
<1>1. Starting /\ Stands(candidate)
  BY CandidateStands DEF OpenDir
<1>2. /\ open = <<>> /\ recursive' = recursive /\ wanted' = wanted /\ found' = found
      /\ \/ open' = <<listing>> /\ stack' = <<route>> \o Tail(stack)
         \/ open' = <<>> /\ stack' = Tail(stack)
  BY <1>1 DEF OpenDir, Starting, world
<1>3. stack \in Seq(RouteSet) /\ stack # <<>>
  BY <1>1 DEF Starting, Walking, WalkInv, WalkTyped
<1>4. dir \in Seq(Name) /\ (Leads(dir, path) => Leads(Head(stack).dir, path))
      /\ route \in RouteSet
  BY <1>1 DEF Stands, RouteSet, Route
<1>5. listing.dir = dir
  BY DEF Listing
<1> HIDE DEF candidate, dir, listing, route
<1>6. 1 \in DOMAIN stack /\ Head(stack) = stack[1] /\ DOMAIN stack \subseteq Nat
  BY <1>3, TailSteps
<1>7. Leads(dir, path) => 1 \in R
  BY <1>2, <1>4, <1>6 DEF Routed
<1>8. C' = C
  BY <1>2 DEF Promise!Coded!Report
<1>9. L' = L
  <2>1. stack # <<>>
    BY <1>3
  <2>2. open' = <<>> \/ stack' # <<>>
    <3> DEFINE opened == <<route>> \o Tail(stack)
    <3>1. Len(opened) = Len(stack) /\ Len(stack) # 0
      BY <1>3, <1>4, HeadSteps, TailSteps
    <3>2. opened # <<>>
      BY <3>1
    <3> QED
      BY <1>2, <3>2
  <2> QED
    BY <1>2, <2>1, <2>2 DEF Left
<1>10. Lone(R, L, E, C)
  BY DEF Sole
<1>11. R \subseteq Nat
  BY <1>3 DEF Routed
<1>12. CASE open' = <<listing>> /\ stack' = <<route>> \o Tail(stack)
  <2> DEFINE listings == <<listing>>
  <2>1. listings # <<>> /\ DOMAIN listings = {1} /\ listings[1] = listing
    OBVIOUS
  <2> HIDE DEF listings
  <2>2. \A i : i \in Routed(<<route>> \o Tail(stack), listings, path) <=>
                 i # 1 /\ i \in Routed(stack, <<>>, path)
    BY <1>3, <1>4, <2>1, RoutedReads
  <2>3. open' = listings
    BY <1>12 DEF listings
  <2>4. \A i : i \in R' <=> i # 1 /\ i \in R
    BY <1>2, <1>12, <2>2, <2>3
  <2>5. \A j \in E' : j = 1 /\ Leads(dir, path)
    <3>1. stack' # <<>>
      <4> DEFINE opened == <<route>> \o Tail(stack)
      <4>1. Len(opened) = Len(stack) /\ Len(stack) # 0
        BY <1>3, <1>4, HeadSteps, TailSteps
      <4> QED
        BY <1>12, <4>1
    <3>2. Whole(stack', recursive', listing) = dir
      BY <1>5, <3>1 DEF Whole
    <3> QED
      BY <2>1, <2>3, <3>2 DEF Expected, Awaits
  <2> HIDE DEF R, L, E, C
  <2>6. Lone(R', L', E', C')
    BY <1>7, <1>8, <1>9, <1>10, <1>11, <2>4, <2>5 DEF Lone
  <2> QED
    BY <2>6 DEF Sole, R, L, E, C
<1>13. CASE open' = <<>> /\ stack' = Tail(stack)
  <2>1. \A i : i \in Routed(Tail(stack), <<>>, path) <=> i \in Nat \ {0} /\ i + 1 \in R
    BY <1>3, RoutedTail
  <2>2. \A i : i \in R' <=> i \in Nat \ {0} /\ i + 1 \in R
    BY <1>13, <2>1
  <2>3. E' = {}
    BY <1>13 DEF Expected
  <2> HIDE DEF R, L, E, C
  <2>4. Lone(R', L', E', C')
    BY <1>8, <1>9, <1>10, <1>11, <2>2, <2>3 DEF Lone
  <2> QED
    BY <2>4 DEF Sole, R, L, E, C
<1> QED
  BY <1>2, <1>12, <1>13

\* What a directory did not list when it ends is awaited no more (EndOfDir).
LEMMA EndOfDirSole ==
    ASSUME PatternsAreRead, WalkInv, EndOfDir, NEW path \in Seq(Name), Sole(path)
    PROVE  Sole(path)'
<1> DEFINE R == Routed(stack, open, path)
           L == Left(recursive, stack, open, path)
           E == Expected(open, stack, recursive, path)
           C == Copies(found, Promise!Coded!Report(wanted, path))
<1>1. stack \in Seq(RouteSet) /\ stack # <<>>
  BY DEF EndOfDir, Reading, Walking, WalkInv, WalkTyped
<1>2. stack' = Tail(stack) /\ open' = <<>> /\ recursive' = recursive /\ found' = found /\ wanted' = wanted
  BY DEF EndOfDir, world
<1>3. \A i : i \in Routed(Tail(stack), <<>>, path) <=> i \in Nat \ {0} /\ i + 1 \in R
  BY <1>1, RoutedTail
<1>4. \A i : i \in R' <=> i \in Nat \ {0} /\ i + 1 \in R
  BY <1>2, <1>3
<1>5. L' = L
  BY <1>1, <1>2 DEF Left
<1>6. E' = {}
  BY <1>2 DEF Expected
<1>7. C' = C
  BY <1>2 DEF Promise!Coded!Report
<1>8. Lone(R, L, E, C) /\ R \subseteq Nat
  BY <1>1 DEF Sole, Routed
<1> HIDE DEF R, L, E, C
<1>9. Lone(R', L', E', C')
  BY <1>4, <1>5, <1>6, <1>7, <1>8 DEF Lone
<1> QED
  BY <1>9 DEF Sole, R, L, E, C

\* What a walk's first directory lists was left to that walk (StartWalk).
LEMMA StartWalkSole ==
    ASSUME PatternsAreRead, WalkInv, StartWalk, NEW path \in Seq(Name), Sole(path)
    PROVE  Sole(path)'
<1> DEFINE dir == Head(recursive).dir
           none == <<>>
           place == Resolve(tree, Located(dir))
           listing == Listing(tree, none, place)
           R == Routed(stack, open, path)
           L == Left(recursive, stack, open, path)
           E == Expected(open, stack, recursive, path)
           C == Copies(found, Promise!Coded!Report(wanted, path))
<1>1. recursive \in Seq(LeftSet) /\ recursive # <<>>
  BY DEF StartWalk, Recurring, WalkInv, WalkTyped
<1>2. /\ stack = <<>> /\ stack' = <<>> /\ open = <<>> /\ wanted' = wanted /\ found' = found
      /\ \/ open' = <<listing>> /\ recursive' = recursive
         \/ open' = <<>> /\ recursive' = Tail(recursive)
  BY DEF StartWalk, Recurring, world
<1>3. 1 \in DOMAIN recursive /\ Head(recursive) = recursive[1] /\ recursive[1] \in LeftSet
  BY <1>1, TailSteps
<1>4. dir \in Seq(Name)
  BY <1>3 DEF LeftSet
<1>5. listing.dir = none /\ none \in Seq(Name)
  BY DEF Listing
<1> HIDE DEF none, listing
<1>6. R = {} /\ R' = {}
  BY <1>2 DEF Routed
<1>7. C' = C
  BY <1>2 DEF Promise!Coded!Report
<1>8. Lone(R, L, E, C) /\ L \subseteq Nat
  BY <1>1 DEF Sole, Left
<1>9. CASE open' = <<listing>> /\ recursive' = recursive
  <2>1. \A i : i \in L' <=> i # 1 /\ i \in L
    BY <1>2, <1>9 DEF Left
  <2>2. Leads(dir, path) => 1 \in L
    BY <1>2, <1>3 DEF Left
  <2>3. \A j \in E' : j = 1 /\ Leads(dir, path)
    <3>1. Whole(stack', recursive', listing) = dir \o none
      BY <1>2, <1>5, <1>9 DEF Whole
    <3>2. Leads(dir \o none, path) => Leads(dir, path)
      BY <1>4, <1>5, LeadsConcat
    <3>3. \A j \in E' : j = 1 /\ Leads(Whole(stack', recursive', listing), path)
      BY <1>9 DEF Expected, Awaits
    <3> QED
      BY <3>1, <3>2, <3>3
  <2> HIDE DEF R, L, E, C, dir
  <2>4. Lone(R', L', E', C')
    BY <1>6, <1>7, <1>8, <2>1, <2>2, <2>3 DEF Lone
  <2> QED
    BY <2>4 DEF Sole, R, L, E, C
<1>10. CASE open' = <<>> /\ recursive' = Tail(recursive)
  <2>1. \A i : i \in Left(Tail(recursive), <<>>, <<>>, path) <=> i \in Nat \ {0} /\ i + 1 \in L
    BY <1>1, LeftTail
  <2>2. \A i : i \in L' <=> i \in Nat \ {0} /\ i + 1 \in L
    BY <1>2, <1>10, <2>1
  <2>3. E' = {}
    BY <1>10 DEF Expected
  <2> HIDE DEF R, L, E, C
  <2>4. Lone(R', L', E', C')
    BY <1>6, <1>7, <1>8, <2>2, <2>3 DEF Lone
  <2> QED
    BY <2>4 DEF Sole, R, L, E, C
<1> QED
  BY <1>2, <1>9, <1>10

\* What a walk's directory did not list when it ends is awaited no more (EndOfWalk).
LEMMA EndOfWalkSole ==
    ASSUME PatternsAreRead, WalkInv, EndOfWalk, NEW path \in Seq(Name), Sole(path)
    PROVE  Sole(path)'
<1> DEFINE R == Routed(stack, open, path)
           L == Left(recursive, stack, open, path)
           E == Expected(open, stack, recursive, path)
           C == Copies(found, Promise!Coded!Report(wanted, path))
<1>1. recursive \in Seq(LeftSet) /\ recursive # <<>> /\ open \in Seq(Listings) /\ open # <<>>
  BY DEF EndOfWalk, Recurring, WalkInv, WalkTyped
<1>2. /\ stack = <<>> /\ stack' = <<>> /\ wanted' = wanted /\ found' = found
      /\ open' = Front(open)
      /\ recursive' = IF Len(open) = 1 THEN Tail(recursive) ELSE recursive
  BY DEF EndOfWalk, Recurring, world
<1>3. PICK listing \in Listings : TRUE
  BY <1>1, TailSteps, SMTT(20)
<1>4. PICK m \in Nat \ {0} :
        /\ m = Len(open) /\ DOMAIN open = 1 .. m /\ open' \in Seq(Listings)
        /\ Len(open') = m - 1 /\ DOMAIN open' = 1 .. (m - 1)
        /\ \A i \in 1 .. (m - 1) : open'[i] = open[i]
  <2> DEFINE front == Front(open)
  <2>1. /\ Len(open) \in Nat \ {0} /\ DOMAIN open = 1 .. Len(open)
        /\ front \in Seq(Listings) /\ Len(front) = Len(open) - 1 /\ DOMAIN front = 1 .. (Len(open) - 1)
        /\ \A i \in 1 .. (Len(open) - 1) : front[i] = open[i]
    BY <1>1, <1>3, LastSteps
  <2>2. open' = front
    BY <1>2
  <2> HIDE DEF front
  <2> QED
    BY <2>1, <2>2, Zenon
<1>5. R = {} /\ R' = {}
  BY <1>2 DEF Routed
<1>6. C' = C
  BY <1>2 DEF Promise!Coded!Report
<1>7. Lone(R, L, E, C) /\ L \subseteq Nat
  BY <1>1 DEF Sole, Left
<1>8. CASE m = 1
  <2>1. open' = <<>>
    BY <1>4, <1>8
  <2>2. recursive' = Tail(recursive)
    BY <1>2, <1>4, <1>8
  <2>3. \A i : i \in Left(Tail(recursive), <<>>, <<>>, path) <=> i \in Nat \ {0} /\ i + 1 \in L
    BY <1>1, LeftTail
  <2>4. \A i : i \in L' <=> i \in Nat \ {0} /\ i + 1 \in L
    BY <1>2, <2>1, <2>2, <2>3
  <2>5. E' = {}
    BY <2>1 DEF Expected
  <2> HIDE DEF R, L, E, C
  <2>6. Lone(R', L', E', C')
    BY <1>5, <1>6, <1>7, <2>4, <2>5 DEF Lone
  <2> QED
    BY <2>6 DEF Sole, R, L, E, C
<1>9. CASE m # 1
  <2>1. recursive' = recursive
    BY <1>2, <1>4, <1>9
  <2>2. open' # <<>>
    BY <1>4, <1>9
  <2>3. L' = L
    BY <1>1, <1>2, <2>1, <2>2 DEF Left
  <2>4. E' \subseteq E
    <3> SUFFICES ASSUME NEW j \in E'
                 PROVE  j \in E
      OBVIOUS
    <3>1. j \in 1 .. (m - 1)
      BY <1>4 DEF Expected
    <3>2. open'[j] = open[j] /\ j \in DOMAIN open
      BY <1>4, <3>1
    <3>3. Whole(stack', recursive', open'[j]) = Whole(stack, recursive, open[j])
      BY <1>2, <2>1, <3>2
    <3>4. Awaits(Whole(stack', recursive', open'[j]), DOMAIN open'[j].may, path)
      BY DEF Expected
    <3> QED
      BY <3>2, <3>3, <3>4 DEF Expected
  <2> HIDE DEF R, L, E, C
  <2>5. Lone(R', L', E', C')
    BY <1>5, <1>6, <1>7, <2>3, <2>4 DEF Lone
  <2> QED
    BY <2>5 DEF Sole, R, L, E, C
<1> QED
  BY <1>8, <1>9

\* An entry that becomes a result or another walker is listed once (NextEntry).
LEMMA NextEntrySole ==
    ASSUME PatternsAreRead, WalkInv, NextEntry, NEW path \in Seq(Name), Sole(path)
    PROVE  Sole(path)'
<1> DEFINE route == Head(stack)
           node == route.next - 1
           dir == route.dir
           reading == open[1]
           R == Routed(stack, open, path)
           L == Left(recursive, stack, open, path)
           E == Expected(open, stack, recursive, path)
           C == Copies(found, Promise!Coded!Report(wanted, path))
<1>1. /\ outcome = "walking" /\ stack # <<>> /\ open # <<>> /\ Reading
      /\ recursive' = recursive /\ wanted' = wanted /\ found \in [DOMAIN found -> Nat \ {0}]
  BY DEF NextEntry, Reading, Walking, world, WalkInv, WalkTyped
<1>2. Reads(route, reading, node)
  BY <1>1, ReadingReads
<1>3. PICK name \in DOMAIN reading.may :
        /\ open' = <<Listed(name, reading)>>
        /\ \/ Found(Reported(Append(dir, name))) /\ stack' = stack /\ IsLeaf(node)
           \/ stack' = Append(stack, Fork(route, name)) /\ found' = found
           \/ stack' = stack /\ found' = found
  BY DEF NextEntry
<1> HIDE DEF route, node, reading
<1> DEFINE listing == Listed(name, reading)
<1>4. /\ stack \in Seq(RouteSet) /\ route \in RouteSet /\ reading \in Listings /\ reading.dir = dir
      /\ dir \in Seq(Name) /\ \A j \in DOMAIN open : j = 1
  BY <1>2 DEF Reads, RouteSet
<1>5. /\ listing.dir = dir /\ DOMAIN listing.may = DOMAIN reading.may \ {name} /\ name \in Name
  BY <1>4, ListedOnce
<1> DEFINE child == Append(dir, name)
           fork == Fork(route, name)
<1>6. child \in Seq(Name) /\ fork \in RouteSet /\ fork.dir = child
  <2>1. Append(dir, name) \in Seq(Name)
    BY <1>4, <1>5, AppendSteps
  <2> QED
    BY <1>4, <2>1 DEF Fork, Route, RouteSet
<1>7. Leads(child, path) <=> Awaits(dir, {name}, path)
  BY <1>4, <1>5, LeadsAppend
<1>8. stack' # <<>>
  <2>1. Append(stack, fork) # <<>>
    BY <1>4, <1>6
  <2> QED
    BY <1>1, <1>3, <2>1
<1>9. open' # <<>> /\ open'[1] = listing /\ DOMAIN open' = {1}
  BY <1>3
<1> HIDE DEF listing, dir, child, fork
<1>10. L' = L
  BY <1>1, <1>8, <1>9 DEF Left
<1>11. \A j : j \in E <=> j = 1 /\ Awaits(dir, DOMAIN reading.may, path)
  <2>1. Whole(stack, recursive, reading) = dir
    BY <1>1, <1>4 DEF Whole
  <2>2. open[1] = reading
    BY DEF reading
  <2>3. 1 \in DOMAIN open
    BY <1>1, TailSteps DEF WalkInv, WalkTyped
  <2> QED
    BY <1>4, <2>1, <2>2, <2>3 DEF Expected
<1>12. \A j : j \in E' <=> j = 1 /\ Awaits(dir, DOMAIN reading.may \ {name}, path)
  <2>1. Whole(stack', recursive', listing) = dir
    BY <1>5, <1>8 DEF Whole
  <2>2. DOMAIN listing.may = DOMAIN reading.may \ {name}
    BY <1>5
  <2> QED
    BY <1>9, <2>1, <2>2 DEF Expected
<1>13. E' \subseteq E /\ (Leads(child, path) => E = {1} /\ E' = {})
  BY <1>7, <1>11, <1>12 DEF Awaits
<1>14. Lone(R, L, E, C) /\ DOMAIN stack \subseteq Nat
  BY <1>4 DEF Sole
<1>15. CASE Found(Reported(child)) /\ stack' = stack /\ IsLeaf(node)
  <2>1. AheadOf(At, nodes, wanted, node) /\ node = Len(nodes)
    BY <1>2, <1>15 DEF Reads, IsLeaf
  <2>2. ~Promise!Coded!HasRecursion(wanted)
    BY <2>1 DEF AheadOf
  <2>3. Found(Promise!Coded!Report(wanted, child))
    BY <1>15, <2>2, ReportedAs
  <2>4. (path # child => C' = C) /\ (path = child /\ C = {} => C' = {1})
    BY <1>1, <1>6, <2>3, FoundOther
  <2>5. path = child => Leads(child, path)
    BY <1>6, LeadsWhole
  <2>6. R' = R
    BY <1>1, <1>9, <1>15 DEF Routed
  <2> HIDE DEF R, L, E, C
  <2>7. Lone(R', L', E', C')
    BY <1>10, <1>13, <1>14, <2>4, <2>5, <2>6 DEF Lone
  <2> QED
    BY <2>7 DEF Sole, R, L, E, C
<1>16. CASE stack' = Append(stack, fork) /\ found' = found
  <2>1. C' = C
    BY <1>1, <1>16 DEF Promise!Coded!Report
  <2>2. \A i : i \in Routed(Append(stack, fork), open', path) <=>
                 i \in Routed(stack, open, path) \/ (i = Len(stack) + 1 /\ Leads(fork.dir, path))
    BY <1>1, <1>4, <1>6, <1>9, RoutedMore
  <2>3. \A i : i \in R' <=> i \in R \/ (i = Len(stack) + 1 /\ Leads(child, path))
    BY <1>6, <1>16, <2>2
  <2> HIDE DEF R, L, E, C
  <2>4. Lone(R', L', E', C')
    BY <1>10, <1>13, <1>14, <2>1, <2>3 DEF Lone
  <2> QED
    BY <2>4 DEF Sole, R, L, E, C
<1>17. CASE stack' = stack /\ found' = found
  <2>1. R' = R /\ C' = C
    BY <1>1, <1>9, <1>17 DEF Routed, Promise!Coded!Report
  <2> HIDE DEF R, L, E, C
  <2>2. Lone(R', L', E', C')
    BY <1>10, <1>13, <1>14, <2>1 DEF Lone
  <2> QED
    BY <2>2 DEF Sole, R, L, E, C
<1> QED
  BY <1>3, <1>15, <1>16, <1>17 DEF child, fork, dir

\* An entry of a walk is listed once, and is either a result or leads on (WalkEntry).
LEMMA WalkEntrySole ==
    ASSUME PatternsAreRead, WalkInv, WalkEntry, NEW path \in Seq(Name), Sole(path)
    PROVE  Sole(path)'
<1> DEFINE reading == Last(open)
           dir == Head(recursive).dir
           whole == dir \o reading.dir
           R == Routed(stack, open, path)
           L == Left(recursive, stack, open, path)
           E == Expected(open, stack, recursive, path)
           C == Copies(found, Promise!Coded!Report(wanted, path))
<1>1. /\ Recurring /\ open # <<>> /\ found \in [DOMAIN found -> Nat \ {0}]
      /\ stack = <<>> /\ stack' = <<>> /\ recursive' = recursive /\ wanted' = wanted
  BY DEF WalkInv, WalkTyped, WalkEntry, world, Recurring
<1>2. PICK m \in Nat : Recurs(reading, m, whole)
  <2>1. Recurs(reading, Len(open), whole) /\ Len(open) \in Nat
    BY <1>1, RecurringRecurs DEF Recurs
  <2> QED
    BY <2>1
<1> HIDE DEF reading
<1>3. PICK name \in DOMAIN reading.may : Enters(name, m, reading, whole)
  BY <1>2, WalkEntered
<1>4. /\ m \in Nat \ {0} /\ DOMAIN open = 1 .. m /\ reading \in Listings /\ reading = open[m]
      /\ dir \in Seq(Name) /\ reading.dir \in Seq(Name) /\ whole \in Seq(Name)
      /\ Promise!Coded!HasRecursion(wanted)
  BY <1>2 DEF Recurs
<1>5. m \in Nat \ {0} /\ DOMAIN open = 1 .. m
  BY <1>4
<1> DEFINE listed == Listed(name, reading)
           child == Append(whole, name)
<1>6. listed.dir = reading.dir /\ DOMAIN listed.may = DOMAIN reading.may \ {name} /\ name \in Name
  BY <1>4, ListedOnce
<1>7. child \in Seq(Name) /\ Len(child) = Len(whole) + 1
  BY <1>4, <1>6, AppendSteps
<1>8. Leads(child, path) <=> Awaits(whole, {name}, path)
  BY <1>4, <1>6, LeadsAppend
<1>9. open'[m] = listed
  BY <1>3, <1>5, EnteredOpen
<1>10. \A j \in 1 .. (m - 1) : open'[j] = open[j]
  BY <1>3, <1>5, EnteredOpen
<1>11. Len(open') \in Nat /\ DOMAIN open' = 1 .. Len(open')
  <2>1. open' \in Seq(Listings)
    BY <1>3, <1>5, EnteredOpen
  <2> QED
    BY <2>1
<1>12. Len(open') = m \/ Len(open') = m + 1
  BY <1>3, <1>5, EnteredOpen
<1>13. PICK n \in Nat : n = Len(open') /\ DOMAIN open' = 1 .. n /\ (n = m \/ n = m + 1)
  BY <1>11, <1>12, Zenon
<1>14. Len(open') = m + 1 => open'[m + 1].dir = Append(reading.dir, name)
  BY <1>3, <1>5, EnteredOpen
<1>15. \/ found' = found
       \/ Found(Stripped(child)) /\ (wanted.absolute => IsPrefix(Home, child))
  BY <1>3, <1>5, EnteredOpen
<1>16. dir \o Append(reading.dir, name) = child
  <2> DEFINE below == reading.dir
  <2>1. below \in Seq(Name) /\ whole = dir \o below
    BY <1>4
  <2> HIDE DEF below, dir
  <2>2. dir \o Append(below, name) = Append(dir \o below, name)
    BY <1>4, <1>6, <2>1, AppendFurther
  <2> QED
    BY <2>1, <2>2 DEF below
<1> HIDE DEF listed, child, whole
<1>17. R = {} /\ R' = {}
  BY <1>1 DEF Routed
<1>18. open' # <<>>
  <2>1. m \in DOMAIN open'
    BY <1>5, <1>13
  <2> QED
    BY <2>1
<1>19. L' = L
  BY <1>1, <1>18 DEF Left
<1>20. \A j : j \in E <=> j \in 1 .. m /\ Awaits(dir \o open[j].dir, DOMAIN open[j].may, path)
  BY <1>1, <1>4 DEF Expected, Whole
<1>21. m \in E <=> Awaits(whole, DOMAIN reading.may, path)
  BY <1>4, <1>20 DEF whole
<1>22. \A j : j \in E' <=> j \in 1 .. Len(open') /\ Awaits(dir \o open'[j].dir, DOMAIN open'[j].may, path)
  BY <1>1, <1>11 DEF Expected, Whole
<1>23. \A j \in 1 .. (m - 1) : j \in E' => j \in E
  <2> SUFFICES ASSUME NEW j \in 1 .. (m - 1), j \in E'
               PROVE  j \in E
    OBVIOUS
  <2>1. open'[j] = open[j] /\ j \in 1 .. m
    BY <1>5, <1>10
  <2>2. Awaits(dir \o open'[j].dir, DOMAIN open'[j].may, path)
    BY <1>22
  <2> QED
    BY <1>20, <2>1, <2>2
<1>24. m \in E' => Awaits(whole, DOMAIN reading.may \ {name}, path)
  <2>1. dir \o listed.dir = whole
    BY <1>6 DEF whole
  <2>2. m \in E' => Awaits(dir \o listed.dir, DOMAIN listed.may, path)
    BY <1>9, <1>22
  <2> QED
    BY <1>6, <2>1, <2>2
<1>25. m + 1 \in E' => Leads(child, path) /\ path # child
  <2> SUFFICES ASSUME m + 1 \in E'
               PROVE  Leads(child, path) /\ path # child
    OBVIOUS
  <2>5. Len(open') = m + 1
    <3>1. m + 1 \in 1 .. Len(open')
      BY <1>22
    <3>2. m + 1 \in 1 .. n
      BY <1>13, <3>1
    <3> QED
      BY <1>5, <1>13, <3>2
  <2>1. open'[m + 1].dir = Append(reading.dir, name)
    BY <1>14, <2>5
  <2>2. \E names : Awaits(dir \o open'[m + 1].dir, names, path)
    BY <1>22
  <2>3. \E names : Awaits(child, names, path)
    BY <1>16, <2>1, <2>2
  <2>4. Leads(child, path) /\ Len(child) < Len(path)
    BY <2>3 DEF Awaits
  <2> QED
    BY <1>7, <2>4
<1>26. \A j \in E' : j \in 1 .. (m - 1) \/ j = m \/ j = m + 1
  <2>1. Len(open') = m \/ Len(open') = m + 1
    BY <1>12
  <2>2. \A j \in E' : j \in 1 .. m \/ j \in 1 .. (m + 1)
    BY <1>22, <2>1
  <2> QED
    BY <1>4, <2>2
<1>27. (m \in E' => m \in E) /\ (Leads(child, path) => m \in E /\ m \notin E')
  BY <1>8, <1>21, <1>24 DEF Awaits
<1>28. C' = C \/ ((path # child => C' = C) /\ (path = child /\ C = {} => C' = {1}))
  <2>1. CASE found' = found
    BY <1>1, <2>1 DEF Promise!Coded!Report
  <2>2. CASE Found(Stripped(child)) /\ (wanted.absolute => IsPrefix(Home, child))
    <3>1. Found(Promise!Coded!Report(wanted, child))
      BY <1>4, <2>2, ReportedAs
    <3> QED
      BY <1>1, <1>7, <3>1, FoundOther
  <2> QED
    BY <1>15, <2>1, <2>2
<1>29. path = child => Leads(child, path)
  BY <1>7, LeadsWhole
<1>30. Lone(R, L, E, C)
  BY DEF Sole
<1> HIDE DEF R, L, E, C
<1>31. ASSUME NEW j \in E'
       PROVE  j \in E \/ (j = m + 1 /\ Leads(child, path) /\ path # child)
  BY <1>23, <1>25, <1>26, <1>27
<1>32. Lone(R', L', E', C')
  <2>1. CASE Leads(child, path)
    <3>1. m \in E /\ m \notin E'
      BY <1>27, <2>1
    <3>2. E = {m} /\ L = {} /\ C = {}
      BY <1>30, <3>1 DEF Lone
    <3>3. \A j \in E' : j = m + 1 /\ path # child
      BY <1>31, <3>1, <3>2
    <3>4. C' = {} \/ (C' = {1} /\ path = child)
      BY <1>28, <3>2
    <3> QED
      BY <1>17, <1>19, <3>2, <3>3, <3>4 DEF Lone
  <2>2. CASE ~Leads(child, path)
    <3>1. E' \subseteq E /\ C' = C
      BY <1>28, <1>29, <1>31, <2>2
    <3> QED
      BY <1>17, <1>19, <1>30, <3>1 DEF Lone
  <2> QED
    BY <2>1, <2>2
<1> QED
  BY <1>32 DEF Sole, R, L, E, C

\* The name that a path has next in a directory that is read must be found there: no
\* literal stands for it.
LEMMA ReadIsSearched ==
    ASSUME PatternsAreRead, WalkInv, outcome = "walking", NEW j \in DOMAIN open
    PROVE  LET whole == Whole(stack, recursive, open[j])
           IN  whole \in Seq(Name) /\ Searched(wanted, Len(whole) + 1)
<1> DEFINE whole == Whole(stack, recursive, open[j])
<1>1. WalkTyped /\ LeftAtFirst /\ OpenAreRead /\ open \in Seq(Listings) /\ recursive \in Seq(LeftSet)
  BY DEF WalkInv, WalkTyped
<1>2. open # <<>> /\ open[j] \in Listings
  BY <1>1
<1>3. open[j].dir \in Seq(Name)
  BY <1>2 DEF Listings
<1>4. CASE stack # <<>>
  <2>1. Reading
    BY <1>2, <1>4 DEF Reading, Walking
  <2> DEFINE route == Head(stack)
             node == route.next - 1
  <2>2. Reads(route, open[1], node)
    BY <2>1, ReadingReads
  <2> HIDE DEF route, node
  <2>3. /\ j = 1 /\ open[1].dir = route.dir /\ At[node] = Len(route.dir)
        /\ nodes[node].kind # "literals" /\ AheadOf(At, nodes, wanted, node)
    BY <2>2 DEF Reads
  <2>4. whole = route.dir
    BY <1>4, <2>3 DEF Whole
  <2>5. ~Promise!Coded!AsWritten(wanted.components[At[node] + 1])
    BY <2>3 DEF AheadOf
  <2> QED
    BY <1>3, <2>3, <2>4, <2>5 DEF Searched
<1>5. CASE stack = <<>>
  <2> DEFINE dir == Head(recursive).dir
             below == open[j].dir
  <2>1. recursive # <<>>
    BY <1>1, <1>2, <1>5 DEF OpenAreRead
  <2>2. 1 \in DOMAIN recursive /\ Head(recursive) = recursive[1] /\ recursive[1] \in LeftSet
    BY <1>1, <2>1, TailSteps
  <2>3. dir \in Seq(Name) /\ Len(dir) = First(wanted) - 1
    BY <1>1, <2>2 DEF LeftAtFirst, LeftSet
  <2>4. below \in Seq(Name)
    BY <1>3
  <2>5. whole = dir \o below
    BY <1>5 DEF Whole
  <2> HIDE DEF dir, below, whole
  <2>6. whole \in Seq(Name) /\ Len(whole) = Len(dir) + Len(below)
    <3>1. dir \o below \in Seq(Name) /\ Together(dir \o below, dir, below)
      BY <2>3, <2>4, ConcatTogether
    <3> QED
      BY <2>5, <3>1 DEF Together
  <2>7. First(wanted) \in Nat
    <3>1. Readable(wanted)
      BY <1>1 DEF WalkTyped
    <3> QED
      BY <3>1, FirstIs, PatternTyped
  <2>8. ~(Len(whole) + 1 < First(wanted))
    BY <2>3, <2>4, <2>6, <2>7
  <2> QED
    BY <2>6, <2>8 DEF whole, Searched
<1> QED
  BY <1>4, <1>5

\* A file that another process creates is none that a path waits for, if that matched
\* before (Change).
LEMMA ChangeSole ==
    ASSUME PatternsAreRead, WalkInv, Change, NEW path \in Promise!Coded!Matched(tree, wanted), Sole(path)
    PROVE  Sole(path)'
<1> DEFINE R == Routed(stack, open, path)
           L == Left(recursive, stack, open, path)
           E == Expected(open, stack, recursive, path)
           C == Copies(found, Promise!Coded!Report(wanted, path))
<1>1. /\ outcome = "walking" /\ UNCHANGED <<wanted, stack, recursive, found>>
      /\ WalkTyped /\ OpenAreRead /\ open \in Seq(Listings) /\ Tidy(tree) /\ Readable(wanted)
  BY DEF Change, WalkInv, WalkTyped
<1>2. PICK touched : /\ Touched(touched, tree') /\ open' \in Seq(Listings) /\ DOMAIN open' = DOMAIN open
                     /\ \A i \in DOMAIN open : Sees(touched, open[i], open'[i])
  BY <1>1, ChangeTouches
<1>3. open = <<>> <=> open' = <<>>
  BY <1>1, <1>2
<1>4. R' = R /\ L' = L /\ C' = C
  BY <1>1, <1>3 DEF Routed, Left, Promise!Coded!Report
<1>5. path \in Seq(Name)
  BY <1>1, MatchedNames
<1>6. E' \subseteq E
  <2> SUFFICES ASSUME NEW j \in E', j \notin E
               PROVE  FALSE
    OBVIOUS
  <2> DEFINE listing == open[j]
             more == open'[j]
             whole == Whole(stack, recursive, listing)
             k == Len(whole) + 1
  <2>1. j \in DOMAIN open /\ Sees(touched, listing, more) /\ listing \in Listings
    BY <1>1, <1>2 DEF Expected
  <2>2. Whole(stack', recursive', more) = whole
    BY <1>1, <2>1 DEF Sees, Whole
  <2>3. Awaits(whole, DOMAIN more.may, path) /\ ~Awaits(whole, DOMAIN listing.may, path)
    BY <2>1, <2>2 DEF Expected
  <2>4. whole \in Seq(Name) /\ Searched(wanted, k)
    BY <1>1, <2>1, ReadIsSearched
  <2>5. ListingOf(tree, wanted, whole, listing)
    BY <1>1, <2>1 DEF OpenAreRead
  <2> HIDE DEF listing, more, whole
  <2>6. k \in 1 .. Len(path) /\ path[k] \in DOMAIN more.may \ DOMAIN listing.may /\ Leads(whole, path)
    BY <1>5, <2>3, <2>4 DEF Awaits
  <2>7. listing.place = Front(touched) /\ touched \notin DOMAIN tree /\ path[k] = Last(touched)
    BY <2>1, <2>6 DEF Sees
  <2>8. path[k] \in Names(tree, Place(tree, wanted, path, k - 1))
    BY <1>1, <2>4, <2>6, MatchedNames
  <2>9. Place(tree, wanted, path, k - 1) = listing.place
    <3>1. k - 1 = Len(whole) /\ Upto(path, Len(whole)) = whole
      BY <1>5, <2>4, <2>6, LeadsWhole
    <3> QED
      BY <2>5, <3>1 DEF Place, ListingOf
  <2>10. Last(touched) \in Names(tree, Front(touched))
    BY <2>7, <2>8, <2>9
  <2>11. touched \in Seq(Name) /\ touched # <<>>
    BY <1>2, WalkerAssumption DEF Touched, IsPath
  <2>12. Front(touched) \in Seq(Name) /\ touched = Append(Front(touched), Last(touched))
    BY <2>11, FrontAndLast
  <2>13. Append(Front(touched), Last(touched)) \in DOMAIN tree
    BY <1>1, <2>10, <2>12, NamesAre
  <2> QED
    BY <2>7, <2>12, <2>13
<1>7. Lone(R, L, E, C)
  BY DEF Sole
<1> HIDE DEF R, L, E, C
<1>8. Lone(R', L', E', C')
  BY <1>4, <1>6, <1>7 DEF Lone
<1> QED
  BY <1>8 DEF Sole, R, L, E, C

\* At first a path can only come from the walker that starts, and nothing is reported.
LEMMA InitSole ==
    ASSUME Init
    PROVE  SteadyMatch /\ OneSource
<1>1. /\ recursive = <<>> /\ open = <<>> /\ found = EmptyBag /\ steady = Promise!Coded!Matches(tree, wanted)
      /\ stack = <<>> \/ stack = <<Route(1, <<>>, FALSE)>>
  BY DEF Init
<1>2. ASSUME NEW path
      PROVE  Sole(path)
  <2> DEFINE R == Routed(stack, open, path)
             L == Left(recursive, stack, open, path)
             E == Expected(open, stack, recursive, path)
             C == Copies(found, Promise!Coded!Report(wanted, path))
  <2>1. \A i \in DOMAIN stack : i = 1
    <3> DEFINE first == Route(1, <<>>, FALSE)
    <3>1. stack = <<>> \/ stack = <<first>>
      BY <1>1
    <3> HIDE DEF first
    <3> QED
      BY <3>1
  <2>2. \A i \in R : i = 1
    BY <2>1 DEF Routed
  <2>3. L = {} /\ E = {}
    BY <1>1 DEF Left, Expected
  <2>4. C = {}
    BY <1>1 DEF Copies, EmptyBag, SetToBag
  <2> HIDE DEF R, L, E, C
  <2>5. Lone(R, L, E, C)
    BY <2>2, <2>3, <2>4 DEF Lone
  <2> QED
    BY <2>5 DEF Sole, R, L, E, C
<1> QED
  BY <1>1, <1>2 DEF SteadyMatch, OneSource

\* Every step keeps it: the walker's own, and a change by another process, after which
\* fewer paths have matched all the time.
LEMMA NextSole ==
    ASSUME PatternsAreRead, WalkInv, SteadyMatch, OneSource, [Next]_vars
    PROVE  SteadyMatch' /\ OneSource'
<1>1. CASE UNCHANGED vars
  BY <1>1 DEF SteadyMatch, OneSource, Sole, vars
<1>2. CASE Step
  <2>1. tree' = tree /\ wanted' = wanted /\ steady' = steady /\ outcome = "walking"
    BY <1>2 DEF Step, AtEnd, Recur, OpenDir, NextEntry, EndOfDir, StartWalk, WalkEntry, EndOfWalk, Finish,
                world, Starting, Reading, Walking, Recurring
  <2>2. SteadyMatch'
    BY <2>1 DEF SteadyMatch
  <2>3. Tidy(tree) /\ Readable(wanted)
    BY <2>1 DEF WalkInv, WalkTyped
  <2>4. ASSUME NEW path \in Promise!Coded!Matched(tree, wanted), Sole(path)
        PROVE  Sole(path)'
    <3>1. path \in Seq(Name)
      BY <2>3, MatchedNames
    <3>2. CASE AtEnd
      BY <2>4, <3>1, <3>2, AtEndSole
    <3>3. CASE Recur
      BY <2>4, <3>1, <3>3, RecurSole
    <3>4. CASE OpenDir
      BY <2>4, <3>1, <3>4, OpenDirSole
    <3>5. CASE NextEntry
      BY <2>4, <3>1, <3>5, NextEntrySole
    <3>6. CASE EndOfDir
      BY <2>4, <3>1, <3>6, EndOfDirSole
    <3>7. CASE StartWalk
      BY <2>4, <3>1, <3>7, StartWalkSole
    <3>8. CASE WalkEntry
      BY <2>4, <3>1, <3>8, WalkEntrySole
    <3>9. CASE EndOfWalk
      BY <2>4, <3>1, <3>9, EndOfWalkSole
    <3>10. CASE Finish
      BY <2>4, <3>10 DEF Finish, walk, world, Sole
    <3> QED
      BY <1>2, <3>2, <3>3, <3>4, <3>5, <3>6, <3>7, <3>8, <3>9, <3>10 DEF Step
  <2>5. Promise!Coded!Matched(tree, wanted)' = Promise!Coded!Matched(tree, wanted)
        /\ \A path : Promise!Coded!Report(wanted, path)' = Promise!Coded!Report(wanted, path)
    BY <2>1
  <2> QED
    BY <2>1, <2>2, <2>4, <2>5 DEF OneSource
<1>3. CASE Change
  <2>1. WalkTyped /\ Tidy(tree) /\ Readable(wanted) /\ wanted' = wanted
    BY <1>3 DEF WalkInv, WalkTyped, Change
  <2>2. steady' = steady \cap Promise!Coded!Matches(tree', wanted) /\ Tidy(tree')
    BY <1>3, <2>1, ChangeTouches
  <2>3. SteadyMatch'
    BY <2>1, <2>2 DEF SteadyMatch
  <2>4. ASSUME NEW path \in Promise!Coded!Matched(tree', wanted), Promise!Coded!Report(wanted, path) \in steady'
        PROVE  Sole(path)'
    <3>1. path \in Seq(Name)
      BY <2>1, <2>2, <2>4, MatchedNames
    <3>2. Promise!Coded!Report(wanted, path) \in steady
            /\ Promise!Coded!Report(wanted, path) \in Promise!Coded!Matches(tree, wanted)
      BY <2>2, <2>4 DEF SteadyMatch
    <3>3. PICK other \in Promise!Coded!Matched(tree, wanted) :
                 Promise!Coded!Report(wanted, path) = Promise!Coded!Report(wanted, other)
      BY <3>2 DEF Promise!Coded!Matches
    <3>4. other \in Seq(Name)
      BY <2>1, <3>3, MatchedNames
    <3>5. path = other
      BY <3>1, <3>3, <3>4, ReportsDiffer
    <3>6. path \in Promise!Coded!Matched(tree, wanted) /\ Sole(path)
      BY <3>2, <3>3, <3>5 DEF OneSource
    <3> QED
      BY <1>3, <3>6, ChangeSole
  <2> QED
    BY <2>1, <2>3, <2>4 DEF OneSource
<1> QED
  BY <1>1, <1>2, <1>3 DEF Next, Ended

\* Then nothing that matched all the time has been reported twice.
LEMMA LoneIsOnce ==
    ASSUME WalkInv, SteadyMatch, OneSource
    PROVE  FoundOnce
<1> SUFFICES ASSUME NEW report \in steady \cap BagToSet(found)
             PROVE  found[report] <= 1
  BY DEF FoundOnce
<1>1. PICK path \in Promise!Coded!Matched(tree, wanted) : report = Promise!Coded!Report(wanted, path)
  BY DEF SteadyMatch, Promise!Coded!Matches
<1>2. Sole(path)
  BY <1>1 DEF OneSource
<1>3. \A i, j \in Copies(found, report) : i = j
  BY <1>1, <1>2 DEF Sole, Lone
<1>4. report \in DOMAIN found /\ found[report] \in Nat \ {0}
  BY DEF BagToSet, WalkInv, WalkTyped
<1>5. \A i, j \in 1 .. found[report] : i = j
  BY <1>3, <1>4 DEF Copies
<1>6. 1 \in 1 .. found[report] /\ found[report] \in 1 .. found[report]
  BY <1>4
<1>7. found[report] = 1
  BY <1>5, <1>6
<1> QED
  BY <1>7

\* Whatever the file tree, the pattern and the changes that other processes make, nothing
\* that was there all the time is reported twice (Walker::next).
THEOREM WalkerFindsOnce ==
    ASSUME PatternsAreRead
    PROVE  Spec => []FoundOnce
<1> DEFINE Inv == WalkInv /\ SteadyMatch /\ OneSource
<1>1. Init => Inv
  BY InitInv, InitSole
<1>2. Inv /\ [Next]_vars => Inv'
  BY NextInv, NextSole
<1>3. Inv => FoundOnce
  BY LoneIsOnce
<1> QED
  BY <1>1, <1>2, <1>3, PTL DEF Spec
==============================================================================
