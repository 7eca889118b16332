---------------------------- MODULE PromiseProofs ----------------------------
(***************************************************************************)
(* Proofs about Walker: the walk keeps the promise of filename generation  *)
(* (Globbing).                                                             *)
(***************************************************************************)
EXTENDS WalkerProofs

-----------------------------------------------------------------------------
(* What a path that matches goes through.                                  *)

\* ** and the components behind it do not stand for the empty path: ** takes at least
\* one directory (RecursiveRegex).
LEMMA CoversNothing ==
    ASSUME NEW components, Len(components) \in Nat \ {0}
    PROVE  ~Promise!Coded!Covers(components, <<>>)
<1> DEFINE none == <<>>
           size == Len(components)
           From(f, i) ==
             {j \in 1 .. Len(none) : \E m \in f[i + 1] :
               /\ Promise!Coded!Takes(components, i, m - j)
               /\ IF components[i].kind = "recursion"
                  THEN \A n \in j .. (m - 1) : ~Promise!Coded!Hidden(none[n])
                  ELSE /\ components[i].kind = "named"
                       /\ Promise!Coded!Means(components[i].pieces, Promise!Coded!Joined(SubSeq(none, j, m - 1)))}
           Is(f) == f = [i \in 1 .. (size + 1) |-> IF i > size THEN {Len(none) + 1} ELSE From(f, i)]
           begins == CHOOSE f : Is(f)
           g == [i \in 1 .. (size + 1) |-> IF i > size THEN {Len(none) + 1} ELSE {}]
<1>1. Promise!Coded!Covers(components, none) <=> 1 \in begins[1]
  BY Zenon DEF Promise!Coded!Covers
<1>2. size \in Nat /\ 1 \in 1 .. (size + 1) /\ ~(1 > size)
  OBVIOUS
<1>3. 1 .. Len(none) = {}
  OBVIOUS
<1> HIDE DEF none, size
<1>4. \A f, i : From(f, i) = {}
  BY <1>3
<1> HIDE DEF From
<1>5. Is(g)
  BY <1>4
<1>6. Is(begins)
  <2> HIDE DEF Is, g
  <2> QED
    BY <1>5
<1> HIDE DEF begins
<1>7. begins[1] = From(begins, 1)
  BY <1>2, <1>6
<1>8. begins[1] = {}
  BY <1>4, <1>7
<1> QED
  BY <1>1, <1>8 DEF none

\* Where a path leads, name by name.
LEMMA PlaceSteps ==
    ASSUME NEW files, Tidy(files), NEW pattern, Promise!Coded!Base(pattern) \in Seq(Name), NEW path \in Seq(Name),
           NEW k \in 1 .. Len(path)
    PROVE  /\ Place(files, pattern, path, k) \in Seq(Name) /\ Place(files, pattern, path, k - 1) \in Seq(Name)
           /\ path[k] \in Name
           /\ Place(files, pattern, path, k) = Enter(files, Place(files, pattern, path, k - 1), path[k])
<1> DEFINE before == Upto(path, k - 1)
<1>1. k - 1 \in 0 .. Len(path) /\ k \in 0 .. Len(path) /\ k # 0
  OBVIOUS
<1>2. path[k] \in Name /\ before \in Seq(Name) /\ Upto(path, k) = Append(before, path[k])
      /\ Upto(path, k) \in Seq(Name)
  BY <1>1, UptoSteps, ZenonT(30)
<1> HIDE DEF before
<1>3. Promise!Coded!Spot(files, Promise!Coded!Base(pattern), Append(before, path[k])) =
        Enter(files, Promise!Coded!Spot(files, Promise!Coded!Base(pattern), before), path[k])
  BY <1>2, SpotSteps
<1>4. /\ Promise!Coded!Spot(files, Promise!Coded!Base(pattern), before) \in Seq(Name)
      /\ Promise!Coded!Spot(files, Promise!Coded!Base(pattern), Upto(path, k)) \in Seq(Name)
  BY <1>2, SpotSteps
<1> QED
  BY <1>2, <1>3, <1>4 DEF Place, before

\* A path that matches leads through directories, and ** and what is behind it take at
\* least one name of it.
LEMMA MatchedDirs ==
    ASSUME PatternsAreRead, NEW pattern, Readable(pattern), NEW files, Tidy(files),
           NEW path \in Promise!Coded!Matched(files, pattern)
    PROVE  /\ Promise!Coded!HasRecursion(pattern) => First(pattern) \in 1 .. Len(path)
           /\ \A k \in 0 .. (Len(path) - 1) : IsDir(files, Place(files, pattern, path, k))
<1> DEFINE all == pattern.components
           N == Len(all)
           n == Len(path)
           P(k) == Place(files, pattern, path, k)
<1>1. /\ path \in Seq(Name) /\ n \in Nat
      /\ ~Promise!Coded!HasRecursion(pattern) => n = N
      /\ Promise!Coded!HasRecursion(pattern) => First(pattern) - 1 \in 0 .. n
      /\ \A k \in 1 .. n : Searched(pattern, k) => path[k] \in Names(files, P(k - 1))
  BY MatchedNames
<1>2. /\ N \in Nat \ {0} /\ Promise!Coded!Base(pattern) \in Seq(Name) /\ First(pattern) \in 1 .. (N + 1)
      /\ Promise!Coded!HasRecursion(pattern) <=> First(pattern) # N + 1
      /\ Promise!Coded!HasRecursion(pattern) => First(pattern) < N
  BY PatternTyped, FirstIs
<1>3. IF Promise!Coded!HasRecursion(pattern) THEN MatchesBehind(files, pattern, path) ELSE MatchesAll(files, pattern, path)
  BY MatchedAre
<1>4. Promise!Coded!HasRecursion(pattern) => First(pattern) \in 1 .. n
  <2> SUFFICES ASSUME Promise!Coded!HasRecursion(pattern), First(pattern) - 1 = n
               PROVE  FALSE
    BY <1>1, <1>2
  <2> DEFINE behind == Behind(pattern)
  <2>1. Promise!Coded!Covers(behind, Rest(path, n))
    BY <1>3 DEF MatchesBehind
  <2>2. Rest(path, n) = <<>>
    BY <1>1 DEF Rest
  <2>3. Len(behind) \in Nat \ {0}
    <3>1. Len(behind) = (N - First(pattern)) + 1
      BY <1>2 DEF Behind, Readable
    <3> HIDE DEF behind, N
    <3> QED
      BY <1>2, <3>1
  <2> HIDE DEF behind
  <2> QED
    BY <2>1, <2>2, <2>3, CoversNothing
<1>5. \A k \in 1 .. n : P(k) = Enter(files, P(k - 1), path[k]) /\ P(k) \in Seq(Name) /\ P(k - 1) \in Seq(Name)
  BY <1>1, <1>2, PlaceSteps
<1>6. ASSUME n # 0
      PROVE  IsDir(files, P(n - 1))
  <2>1. n \in 1 .. n /\ P(n) = Enter(files, P(n - 1), path[n]) /\ P(n - 1) \in Seq(Name)
    BY <1>1, <1>5, <1>6
  <2>2. CASE Searched(pattern, n)
    <3>1. path[n] \in Names(files, P(n - 1))
      BY <1>1, <2>1, <2>2
    <3> HIDE DEF P
    <3> QED
      BY <2>1, <3>1, NamesLie
  <2>3. CASE ~Searched(pattern, n)
    <3>1. ~Promise!Coded!HasRecursion(pattern) /\ n = N /\ Promise!Coded!AsWritten(all[N])
      BY <1>1, <1>2, <1>4, <2>3 DEF Searched
    <3>2. Promise!Coded!Spot(files, Promise!Coded!Base(pattern), path) # Absent
      BY <1>3, <3>1, SameFiles DEF MatchesAll
    <3>3. Upto(path, n) = path
      BY <1>1, UptoSteps
    <3>4. P(n) # Absent
      BY <3>2, <3>3 DEF Place
    <3> HIDE DEF P
    <3> QED
      BY <2>1, <3>4, EnterFromDir
  <2> QED
    BY <2>2, <2>3
<1> DEFINE T == {k \in 0 .. (n - 1) : ~IsDir(files, P(k))}
<1>7. T = {}
  <2> SUFFICES ASSUME T # {}
               PROVE  FALSE
    OBVIOUS
  <2>1. n # 0 /\ n - 1 \in Nat
    BY <1>1
  <2>2. T \in SUBSET (0 .. (n - 1))
    OBVIOUS
  <2> HIDE DEF T
  <2>3. PICK k \in T : \A i \in T : i <= k
    BY <2>1, <2>2, GreatestNumber
  <2>4. k \in 0 .. (n - 1) /\ ~IsDir(files, P(k))
    BY <2>3 DEF T
  <2>5. k # n - 1
    BY <1>6, <2>1, <2>4
  <2>6. k + 1 \in 0 .. (n - 1) /\ k + 1 \in 1 .. n /\ k + 1 \notin T
    BY <1>1, <2>3, <2>4, <2>5
  <2>7. IsDir(files, P(k + 1))
    BY <2>6 DEF T
  <2>8. P(k + 1) # Absent
    BY <2>7, AbsentHasNothing
  <2>9. P(k + 1) = Enter(files, P(k), path[k + 1])
    <3>1. (k + 1) - 1 = k
      BY <2>4
    <3> QED
      BY <1>5, <2>6, <3>1
  <2> HIDE DEF P
  <2>10. IsDir(files, P(k))
    BY <2>8, <2>9, EnterFromDir
  <2> QED
    BY <2>4, <2>10
<1> QED
  BY <1>4, <1>7

\* A name that must be found in a directory, with more names behind it, is none of a file.
LEMMA MatchedNoFile ==
    ASSUME PatternsAreRead, NEW pattern, Readable(pattern), NEW files, Tidy(files),
           NEW path \in Promise!Coded!Matched(files, pattern), NEW k \in 1 .. (Len(path) - 1), Searched(pattern, k)
    PROVE  /\ Append(Place(files, pattern, path, k - 1), path[k]) \in DOMAIN files
           /\ files[Append(Place(files, pattern, path, k - 1), path[k])].kind # "file"
<1> DEFINE place == Place(files, pattern, path, k - 1)
           further == Place(files, pattern, path, k)
           name == path[k]
           child == Append(place, name)
<1>1. path \in Seq(Name) /\ Promise!Coded!Base(pattern) \in Seq(Name)
  BY MatchedNames, PatternTyped
<1>2. k \in 1 .. Len(path) /\ k \in 0 .. (Len(path) - 1)
  BY <1>1
<1>3. place \in Seq(Name) /\ further = Enter(files, place, name)
  BY <1>1, <1>2, PlaceSteps
<1>4. name \in Names(files, place) /\ IsDir(files, further)
  BY <1>2, MatchedNames, MatchedDirs
<1> HIDE DEF place, further, name
<1>5. /\ child \in DOMAIN files
      /\ Enter(files, place, name) =
           IF files[child].kind # "link" THEN child
           ELSE IF Known(files, files[child].to) THEN files[child].to ELSE Absent
  BY <1>3, <1>4, EnterEntry
<1>6. ASSUME files[child].kind = "file"
      PROVE  FALSE
  <2>1. further = child
    BY <1>3, <1>5, <1>6
  <2>2. child # <<>>
    BY <1>5, EntryIsTidy
  <2> QED
    BY <1>4, <1>6, <2>1, <2>2 DEF IsDir
<1> QED
  BY <1>5, <1>6 DEF child, place, name

-----------------------------------------------------------------------------
(***************************************************************************)
(* The directories that the walker goes to are those that the components    *)
(* lead to, whatever files come and go: their names are of directories, of  *)
(* links or literals.                                                       *)
(***************************************************************************)

\* Every name of the directory is what its component asks for, and that of no file.
Firm(files, pattern, dir) ==
    \A k \in 1 .. Len(dir) :
      /\ dir[k] \in Onward(files, pattern, k, Upto(dir, k - 1))
      /\ ~Promise!Coded!AsWritten(pattern.components[k]) =>
           LET child == Append(Place(files, pattern, dir, k - 1), dir[k])
           IN  child \in DOMAIN files /\ files[child].kind # "file"

\* Where its literals do not say it, a name is one that the directory lists and that fits.
LEMMA OnwardAre ==
    ASSUME NEW files, NEW pattern, NEW k, NEW dir, NEW name, ~Promise!Coded!AsWritten(pattern.components[k])
    PROVE  name \in Onward(files, pattern, k, dir) <=>
             /\ name \in Names(files, Promise!Coded!Spot(files, Promise!Coded!Base(pattern), dir))
             /\ \/ pattern.components[k].kind = "recursion"
                \/ Promise!Coded!Means(pattern.components[k].pieces, name)
BY SameFiles DEF Onward, Promise!Coded!Fitting

\* Such a directory stays one while files come and go.
LEMMA FirmKept ==
    ASSUME NEW files, Tidy(files), NEW other, Tidy(other), Kept(files, other), Kept(other, files),
           NEW pattern, Promise!Coded!Base(pattern) \in Seq(Name), NEW dir \in Seq(Name), Firm(files, pattern, dir)
    PROVE  Firm(other, pattern, dir)
<1> SUFFICES ASSUME NEW k \in 1 .. Len(dir)
             PROVE  /\ dir[k] \in Onward(other, pattern, k, Upto(dir, k - 1))
                    /\ ~Promise!Coded!AsWritten(pattern.components[k]) =>
                         LET child == Append(Place(other, pattern, dir, k - 1), dir[k])
                         IN  child \in DOMAIN other /\ other[child].kind # "file"
  BY DEF Firm
<1> DEFINE upto == Upto(dir, k - 1)
           name == dir[k]
           place == Promise!Coded!Spot(files, Promise!Coded!Base(pattern), upto)
<1>1. CASE Promise!Coded!AsWritten(pattern.components[k])
  BY <1>1 DEF Firm, Onward
<1>2. CASE ~Promise!Coded!AsWritten(pattern.components[k])
  <2>1. upto \in Seq(Name)
    <3>1. k - 1 \in 0 .. Len(dir)
      OBVIOUS
    <3> QED
      BY <3>1, UptoSteps
  <2> DEFINE child == Append(place, name)
  <2>2. name \in Onward(files, pattern, k, upto) /\ child \in DOMAIN files /\ files[child].kind # "file"
    BY <1>2 DEF Firm, Place
  <2> HIDE DEF upto, name
  <2>3. /\ name \in Names(files, place)
        /\ \/ pattern.components[k].kind = "recursion"
           \/ Promise!Coded!Means(pattern.components[k].pieces, name)
    BY <1>2, <2>2, OnwardAre
  <2>4. place \in Seq(Name)
    BY <2>1, SpotSteps
  <2>5. IsDir(files, place)
    <3> HIDE DEF place
    <3> QED
      BY <2>3, <2>4, NamesLie
  <2>6. Promise!Coded!Spot(other, Promise!Coded!Base(pattern), upto) = place
    BY <2>1, <2>5, SpotKept
  <2>7. child \in DOMAIN other /\ other[child] = files[child]
    BY <2>2 DEF Kept
  <2>8. name \in Names(other, place)
    <3> HIDE DEF place
    <3>1. name \in Name
      BY <2>3, <2>4, NamesAre
    <3> QED
      BY <2>4, <2>7, <3>1, NamesAre
  <2>9. name \in Onward(other, pattern, k, upto)
    BY <1>2, <2>3, <2>6, <2>8, OnwardAre
  <2> QED
    BY <2>2, <2>6, <2>7, <2>9 DEF Place, upto, name
<1> QED
  BY <1>1, <1>2

\* It stays one with a further name of that kind.
LEMMA FirmFurther ==
    ASSUME NEW files, NEW pattern, NEW dir \in Seq(Name), Firm(files, pattern, dir),
           NEW more \in Seq(Name), NEW full \in Seq(Name), Together(full, dir, more),
           \A k \in (Len(dir) + 1) .. Len(full) :
             /\ full[k] \in Onward(files, pattern, k, Upto(full, k - 1))
             /\ ~Promise!Coded!AsWritten(pattern.components[k]) =>
                  LET child == Append(Place(files, pattern, full, k - 1), full[k])
                  IN  child \in DOMAIN files /\ files[child].kind # "file"
    PROVE  Firm(files, pattern, full)
<1>1. Len(dir) \in 0 .. Len(full) /\ Upto(full, Len(dir)) = dir
  BY ComesApart
<1>2. ASSUME NEW k \in 1 .. Len(dir)
      PROVE  full[k] = dir[k] /\ Upto(full, k - 1) = Upto(dir, k - 1)
  <2>1. k - 1 \in 0 .. Len(dir)
    OBVIOUS
  <2>2. Upto(Upto(full, Len(dir)), k - 1) = Upto(full, k - 1)
    BY <1>1, <2>1, UptoSteps
  <2> QED
    BY <1>1, <2>2 DEF Together
<1>3. \A k \in 1 .. Len(dir) : Place(files, pattern, full, k - 1) = Place(files, pattern, dir, k - 1)
  BY <1>2 DEF Place
<1>4. \A k \in 1 .. Len(full) : k \in 1 .. Len(dir) \/ k \in (Len(dir) + 1) .. Len(full)
  BY <1>1
<1>5. ASSUME NEW k \in 1 .. Len(dir)
      PROVE  /\ full[k] \in Onward(files, pattern, k, Upto(full, k - 1))
             /\ ~Promise!Coded!AsWritten(pattern.components[k]) =>
                  LET child == Append(Place(files, pattern, full, k - 1), full[k])
                  IN  child \in DOMAIN files /\ files[child].kind # "file"
  BY <1>2, <1>3 DEF Firm
<1> QED
  BY <1>4, <1>5 DEF Firm

\* The components lead to such a directory.
LEMMA FirmReached ==
    ASSUME PatternsAreRead, NEW pattern, Readable(pattern), NEW files, Tidy(files), NEW dir \in Seq(Name),
           Firm(files, pattern, dir), Len(dir) <= Len(pattern.components)
    PROVE  dir \in Promise!Coded!Reached(files, pattern, Len(dir))
<1>1. Len(dir) \in 0 .. Len(pattern.components)
  BY PatternTyped
<1>2. \A k \in 1 .. Len(dir) : dir[k] \in Onward(files, pattern, k, Upto(dir, k - 1))
  BY DEF Firm
<1> QED
  BY <1>1, <1>2, ReachedAre

\* No pattern that is read has a broken component.
LEMMA ReadIsWhole ==
    ASSUME PatternsAreRefused, NEW pattern, Readable(pattern)
    PROVE  NotBroken(pattern)
BY DEF PatternsAreRefused, Readable, NotBroken

\* What the last literals lead to matches if it is there (AtEnd).
LEMMA LiteralsMatch ==
    ASSUME PatternsAreRead, PatternsAreRefused, NEW pattern, Readable(pattern), NEW files, Tidy(files),
           NEW dir \in Seq(Name), Firm(files, pattern, dir), ~Promise!Coded!HasRecursion(pattern),
           Len(dir) = Len(pattern.components), Promise!Coded!Spot(files, Promise!Coded!Base(pattern), dir) # Absent
    PROVE  dir \in Promise!Coded!Matched(files, pattern)
<1>1. dir \in Promise!Coded!Reached(files, pattern, Len(pattern.components))
  <2>1. Len(dir) <= Len(pattern.components)
    BY PatternTyped
  <2> QED
    BY <2>1, FirmReached
<1>2. MatchesAll(files, pattern, dir)
  BY <1>1, SameFiles DEF MatchesAll
<1> QED
  BY <1>2, ReadIsWhole, MatchedAre

\* An entry that fits the last component matches (NextEntry).
LEMMA LastNameMatches ==
    ASSUME PatternsAreRead, PatternsAreRefused, NEW pattern, Readable(pattern), NEW files, Tidy(files),
           NEW dir \in Seq(Name), Firm(files, pattern, dir), ~Promise!Coded!HasRecursion(pattern),
           NEW k, k = Len(pattern.components), Len(dir) + 1 = k, ~Promise!Coded!AsWritten(pattern.components[k]),
           NEW name \in Onward(files, pattern, k, dir)
    PROVE  Append(dir, name) \in Promise!Coded!Matched(files, pattern)
<1> DEFINE path == Append(dir, name)
<1>1. name \in Name
  <2> DEFINE place == Promise!Coded!Spot(files, Promise!Coded!Base(pattern), dir)
  <2>1. name \in Names(files, place)
    BY OnwardAre
  <2>2. place \in Seq(Name)
    BY PatternTyped, SpotSteps
  <2> HIDE DEF place
  <2> QED
    BY <2>1, <2>2, NamesAre
<1>2. /\ path \in Seq(Name) /\ Len(path) = k /\ path[k] = name /\ Len(dir) \in Nat
      /\ \A i \in 1 .. Len(dir) : path[i] = dir[i]
  BY <1>1, AppendSteps
<1> HIDE DEF path
<1>3. Leads(dir, path)
  BY <1>2 DEF Leads
<1>4. Upto(path, Len(dir)) = dir
  BY <1>2, <1>3, LeadsWhole
<1>5. \A i \in 1 .. Len(dir) : Upto(path, i - 1) = Upto(dir, i - 1)
  <2> SUFFICES ASSUME NEW i \in 1 .. Len(dir)
               PROVE  Upto(path, i - 1) = Upto(dir, i - 1)
    OBVIOUS
  <2>1. i - 1 \in 0 .. Len(dir) /\ Len(dir) \in 0 .. Len(path)
    BY <1>2
  <2>2. Upto(Upto(path, Len(dir)), i - 1) = Upto(path, i - 1)
    BY <1>2, <2>1, UptoSteps
  <2> QED
    BY <1>4, <2>2
<1>6. ASSUME NEW i \in 1 .. k
      PROVE  path[i] \in Onward(files, pattern, i, Upto(path, i - 1))
  <2>1. CASE i \in 1 .. Len(dir)
    BY <1>2, <1>5, <2>1 DEF Firm
  <2>2. CASE i \notin 1 .. Len(dir)
    <3>1. i = k /\ i - 1 = Len(dir)
      BY <1>2, <2>2
    <3> QED
      BY <1>2, <1>4, <3>1
  <2> QED
    BY <2>1, <2>2
<1>7. path \in Promise!Coded!Reached(files, pattern, k)
  <2>1. k \in 0 .. Len(pattern.components)
    BY <1>2
  <2> QED
    BY <1>2, <1>6, <2>1, ReachedAre
<1>8. MatchesAll(files, pattern, path)
  BY <1>7 DEF MatchesAll
<1> QED
  BY <1>2, <1>8, ReadIsWhole, MatchedAre DEF path

\* What a walk behind ** comes to matches if the rest of the pattern stands for it
\* (WalkEntry).
LEMMA WalkMatches ==
    ASSUME PatternsAreRead, PatternsAreRefused, NEW pattern, Readable(pattern), NEW files, Tidy(files),
           NEW start \in Seq(Name), Firm(files, pattern, start), Promise!Coded!HasRecursion(pattern),
           Len(start) = First(pattern) - 1, NEW path \in Seq(Name),
           WalksOn(files, Promise!Coded!Base(pattern) \o start, path), Promise!Coded!Covers(Behind(pattern), path)
    PROVE  start \o path \in Promise!Coded!Matched(files, pattern)
<1> DEFINE full == start \o path
           base == Promise!Coded!Base(pattern)
<1>1. full \in Seq(Name) /\ Together(full, start, path)
  BY ConcatTogether
<1> HIDE DEF full
<1>2. Len(start) \in 0 .. Len(full) /\ Upto(full, Len(start)) = start /\ Rest(full, Len(start)) = path
  BY <1>1, ComesApart
<1>3. First(pattern) \in 1 .. (Len(pattern.components) + 1) /\ Len(pattern.components) \in Nat /\ base \in Seq(Name)
  BY FirstIs, PatternTyped
<1>4. start \in Promise!Coded!Reached(files, pattern, Len(start))
  BY <1>3, FirmReached
<1>5. path \in Promise!Coded!Below(files, base \o start)
  <2>1. base \o start \in Seq(Name)
    BY <1>3, ConcatTogether
  <2> QED
    BY <2>1, BelowAre
<1>6. MatchesBehind(files, pattern, full)
  BY <1>2, <1>4, <1>5 DEF MatchesBehind
<1> QED
  BY <1>1, <1>6, ReadIsWhole, MatchedAre DEF full

\* The directory of a candidate is its walker's and the literals that follow.
Joins(candidate, more) ==
    LET from == Head(stack).dir
        dir  == candidate.route.dir
    IN  /\ from \in Seq(Name) /\ dir \in Seq(Name) /\ more \in Seq(Name) /\ Together(dir, from, more)
        /\ \A k \in (Len(from) + 1) .. Len(dir) :
             Promise!Coded!AsWritten(wanted.components[k]) /\ dir[k] = Promise!Coded!Written(wanted.components[k])
        /\ candidate.some \/ (candidate.route.literals /\ Promise!Coded!AsWritten(wanted.components[Len(wanted.components)]))

\* The candidate that a walker takes joins the literals that its next node has, if it is
\* one of literals (next_candidate_path).
LEMMA CandidateJoins ==
    ASSUME PatternsAreRead, WalkInv, Starting
    PROVE  \E more : Joins(NextCandidate(Head(stack)), more)
<1> DEFINE route == Head(stack)
           n == route.next
           N == Len(wanted.components)
           start == route.dir
           candidate == NextCandidate(route)
<1>1. Readable(wanted) /\ outcome = "walking" /\ stack # <<>> /\ open = <<>> /\ stack \in Seq(RouteSet)
  BY DEF WalkInv, WalkTyped, Starting, Walking
<1>2. /\ Laid(At, nodes, wanted, N) /\ DOMAIN nodes = 1 .. Len(nodes) /\ Len(nodes) \in Nat
      /\ N \in Nat \ {0}
  BY <1>1, NodesLaid, PatternTyped DEF WalkInv
<1>3. route = stack[1] /\ route \in RouteSet /\ 1 \in DOMAIN stack
  BY <1>1, TailSteps
<1>4. n \in DOMAIN nodes /\ At[n] = Len(start)
  BY <1>1, <1>3 DEF WalkInv, RoutesLie, NodeAt
<1>5. start \in Seq(Name)
  BY <1>3 DEF RouteSet
<1> HIDE DEF route, n, start, N
<1>6. CASE nodes[n].kind = "literals"
  <2> DEFINE more == nodes[n].path
             dir == start \o more
             next == n + 1
             some == next <= Len(nodes)
  <2>1. n \in Nat \ {0} /\ n \in 1 .. Len(nodes) /\ n <= Len(nodes)
    BY <1>2, <1>4
  <2>2. candidate = [route |-> Route(next, dir, TRUE), some |-> some]
    <3>1. n <= Len(nodes)
      BY <2>1
    <3> QED
      BY <1>6, <3>1 DEF NextCandidate, n, Route, start
  <2>3. /\ more \in Seq(Name) /\ At[n + 1] = At[n] + Len(more)
        /\ \A i \in 1 .. Len(more) : /\ Promise!Coded!AsWritten(wanted.components[At[n] + i])
                                     /\ more[i] = Promise!Coded!Written(wanted.components[At[n] + i])
    BY <1>2, <1>6, <2>1 DEF Laid, Lies
  <2> HIDE DEF more, some
  <2>4. dir \in Seq(Name) /\ Together(dir, start, more)
    BY <1>5, <2>3, ConcatTogether
  <2> HIDE DEF dir
  <2>5. candidate.route.dir = dir /\ candidate.some = some /\ candidate.route.literals = TRUE
    BY <2>2 DEF Route
  <2>6. ASSUME NEW k \in (Len(start) + 1) .. Len(dir)
        PROVE  Promise!Coded!AsWritten(wanted.components[k]) /\ dir[k] = Promise!Coded!Written(wanted.components[k])
    <3>1. PICK a \in Nat, b \in Nat : a = Len(start) /\ b = Len(more) /\ Len(dir) = a + b
      BY <1>5, <2>3, <2>4 DEF Together
    <3>2. k - a \in 1 .. b /\ a + (k - a) = k
      BY <3>1
    <3>3. dir[k] = more[k - a]
      BY <2>4, <3>1, <3>2 DEF Together
    <3> QED
      BY <1>4, <2>3, <3>1, <3>2, <3>3
  <2>7. ASSUME ~some
        PROVE  Promise!Coded!AsWritten(wanted.components[N])
    <3>1. PICK m \in Nat : m = Len(nodes)
      BY <1>2
    <3>2. n = m
      BY <2>1, <2>7, <3>1 DEF some
    <3>3. At \in [1 .. (m + 1) -> 0 .. N] /\ At[1] = 0 /\ At[m + 1] = N /\ \A i \in 1 .. (m - 1) : At[i + 1] < N
      BY <1>2, <3>1 DEF Laid
    <3>4. At[n] \in Nat /\ At[n] < N
      <4>1. CASE n = 1
        BY <1>2, <3>3, <4>1
      <4>2. CASE n # 1
        <5>1. n - 1 \in 1 .. (m - 1) /\ (n - 1) + 1 = n /\ n \in 1 .. (m + 1)
          BY <2>1, <3>2, <4>2
        <5>2. At[n] < N
          BY <3>3, <5>1
        <5> QED
          BY <1>2, <3>3, <5>1, <5>2
      <4> QED
        BY <4>1, <4>2
    <3>5. PICK b \in Nat : b = Len(more) /\ N = At[n] + b
      BY <2>3, <3>2, <3>3
    <3>6. b \in 1 .. b
      BY <1>2, <3>4, <3>5
    <3> QED
      BY <2>3, <3>5, <3>6
  <2>8. candidate.some \/ (candidate.route.literals /\ Promise!Coded!AsWritten(wanted.components[N]))
    BY <2>5, <2>7
  <2> HIDE DEF candidate
  <2>9. Joins(candidate, more)
    BY <1>5, <2>3, <2>4, <2>5, <2>6, <2>8 DEF Joins, start, route, N
  <2> QED
    BY <2>9 DEF candidate, route
<1>7. CASE nodes[n].kind # "literals"
  <2> DEFINE none == <<>>
  <2>1. n \in Nat /\ n <= Len(nodes)
    BY <1>2, <1>4
  <2>2. candidate = [route |-> route, some |-> TRUE]
    BY <1>7, <2>1 DEF NextCandidate, n
  <2> HIDE DEF candidate
  <2>3. candidate.route.dir = start /\ candidate.some = TRUE
    BY <2>2 DEF start
  <2>4. none \in Seq(Name) /\ Together(start, start, none)
    BY <1>5 DEF Together
  <2>5. (Len(start) + 1) .. Len(start) = {}
    BY <1>5
  <2> HIDE DEF none
  <2>6. Joins(candidate, none)
    BY <1>5, <2>3, <2>4, <2>5 DEF Joins, start, route
  <2> QED
    BY <2>6 DEF candidate, route
<1> QED
  BY <1>6, <1>7

\* Its directory stays one that the components lead to.
LEMMA CandidateFirm ==
    ASSUME PatternsAreRead, WalkInv, Starting, Firm(tree, wanted, Head(stack).dir)
    PROVE  Firm(tree, wanted, NextCandidate(Head(stack)).route.dir)
<1> DEFINE candidate == NextCandidate(Head(stack))
           start == Head(stack).dir
           dir == candidate.route.dir
<1>1. PICK more : Joins(candidate, more)
  BY CandidateJoins
<1>2. /\ start \in Seq(Name) /\ dir \in Seq(Name) /\ more \in Seq(Name) /\ Together(dir, start, more)
      /\ \A k \in (Len(start) + 1) .. Len(dir) :
           Promise!Coded!AsWritten(wanted.components[k]) /\ dir[k] = Promise!Coded!Written(wanted.components[k])
  BY <1>1 DEF Joins
<1> HIDE DEF candidate, start, dir
<1>3. \A k \in (Len(start) + 1) .. Len(dir) :
        /\ dir[k] \in Onward(tree, wanted, k, Upto(dir, k - 1))
        /\ ~Promise!Coded!AsWritten(wanted.components[k]) =>
             LET child == Append(Place(tree, wanted, dir, k - 1), dir[k])
             IN  child \in DOMAIN tree /\ tree[child].kind # "file"
  BY <1>2 DEF Onward
<1>4. Firm(tree, wanted, start)
  BY DEF start
<1> QED
  BY <1>2, <1>3, <1>4, FirmFurther DEF candidate, dir

\* How long a path that matches is.
LEMMA MatchedLong ==
    ASSUME PatternsAreRead, NEW pattern, Readable(pattern), NEW files, Tidy(files),
           NEW path \in Promise!Coded!Matched(files, pattern)
    PROVE  First(pattern) - 1 \in 0 .. Len(path)
<1>1. ~Promise!Coded!HasRecursion(pattern)
        => Len(path) = Len(pattern.components) /\ First(pattern) = Len(pattern.components) + 1
  BY MatchedNames, FirstIs
<1>2. Len(pattern.components) \in Nat
  BY PatternTyped
<1>3. CASE ~Promise!Coded!HasRecursion(pattern)
  BY <1>1, <1>2, <1>3
<1>4. CASE Promise!Coded!HasRecursion(pattern)
  BY <1>4, MatchedNames
<1> QED
  BY <1>3, <1>4

\* It leads to every path that matches and that its walker's directory leads to.
LEMMA CandidateLeads ==
    ASSUME PatternsAreRead, WalkInv, Starting, NEW path \in Promise!Coded!Matched(tree, wanted),
           Leads(Head(stack).dir, path)
    PROVE  Leads(NextCandidate(Head(stack)).route.dir, path)
<1> DEFINE candidate == NextCandidate(Head(stack))
           start == Head(stack).dir
           dir == candidate.route.dir
<1>1. Readable(wanted) /\ Tidy(tree)
  BY DEF WalkInv, WalkTyped, Starting, Walking
<1>2. PICK more : Joins(candidate, more)
  BY CandidateJoins
<1>3. /\ start \in Seq(Name) /\ dir \in Seq(Name)
      /\ more \in Seq(Name) /\ Together(dir, start, more)
      /\ \A k \in (Len(start) + 1) .. Len(dir) :
           Promise!Coded!AsWritten(wanted.components[k]) /\ dir[k] = Promise!Coded!Written(wanted.components[k])
  BY <1>2 DEF Joins
<1>4. Len(dir) < First(wanted)
  BY CandidateStands DEF Stands
<1>5. /\ path \in Seq(Name) /\ First(wanted) - 1 \in 0 .. Len(path)
      /\ \A k \in 1 .. Len(path) : k < First(wanted) => path[k] \in Onward(tree, wanted, k, Upto(path, k - 1))
  BY <1>1, MatchedNames, MatchedLong
<1>6. Leads(start, path)
  BY DEF start
<1> HIDE DEF candidate, start, dir
<1>7. PICK a \in Nat, d \in Nat : a = Len(start) /\ d = Len(dir)
  BY <1>3
<1>8. PICK f \in Nat, p \in Nat : f = First(wanted) /\ p = Len(path) /\ d < f /\ f - 1 <= p
  <2>1. First(wanted) \in Nat
    BY <1>1, FirstIs, PatternTyped
  <2> QED
    BY <1>4, <1>5, <1>7, <2>1
<1>9. ASSUME NEW k \in 1 .. d
      PROVE  path[k] = dir[k]
  <2>1. CASE k \in 1 .. a
    BY <1>3, <1>6, <1>7, <2>1 DEF Together, Leads
  <2>2. CASE k \notin 1 .. a
    <3>1. k \in (a + 1) .. d /\ k \in 1 .. p /\ k < f
      BY <1>7, <1>8, <2>2
    <3>2. Promise!Coded!AsWritten(wanted.components[k]) /\ dir[k] = Promise!Coded!Written(wanted.components[k])
      BY <1>3, <1>7, <3>1
    <3>3. path[k] \in Onward(tree, wanted, k, Upto(path, k - 1))
      BY <1>5, <1>8, <3>1
    <3> QED
      BY <3>2, <3>3 DEF Onward
  <2> QED
    BY <2>1, <2>2
<1>10. Leads(dir, path)
  <2>1. d <= p
    BY <1>8
  <2> QED
    BY <1>7, <1>8, <1>9, <2>1 DEF Leads
<1> QED
  BY <1>10 DEF dir, candidate

-----------------------------------------------------------------------------
(***************************************************************************)
(* A walk behind ** visits the paths below its first directory that the     *)
(* promise has it visit.                                                    *)
(***************************************************************************)

\* Where a walk below a directory gets to, it came through directories.
LEMMA SpotDirs ==
    ASSUME NEW files, Tidy(files), NEW base \in Seq(Name), NEW path \in Seq(Name),
           IsDir(files, Promise!Coded!Spot(files, base, path)), NEW n \in 0 .. Len(path)
    PROVE  Upto(path, n) \in Seq(Name) /\ IsDir(files, Promise!Coded!Spot(files, base, Upto(path, n)))
<1> DEFINE m == Len(path)
           P(k) == Promise!Coded!Spot(files, base, Upto(path, k))
           T == {k \in 0 .. m : ~IsDir(files, P(k))}
<1>1. m \in Nat /\ Upto(path, m) = path
  BY UptoSteps
<1>2. T = {}
  <2> SUFFICES ASSUME T # {}
               PROVE  FALSE
    OBVIOUS
  <2>1. T \in SUBSET (0 .. m)
    OBVIOUS
  <2> HIDE DEF T
  <2>2. PICK k \in T : \A i \in T : i <= k
    BY <1>1, <2>1, GreatestNumber
  <2>3. k \in 0 .. m /\ ~IsDir(files, P(k))
    BY <2>2 DEF T
  <2>4. k # m
    BY <1>1, <2>3
  <2>5. k + 1 \in 0 .. m /\ k + 1 \notin T /\ (k + 1) - 1 = k /\ k + 1 # 0
    BY <1>1, <2>2, <2>3, <2>4
  <2>6. IsDir(files, P(k + 1))
    BY <2>5 DEF T
  <2> DEFINE upto == Upto(path, k)
             name == path[k + 1]
  <2>7. upto \in Seq(Name) /\ name \in Name /\ Upto(path, k + 1) = Append(upto, name)
    BY <2>3, <2>5, UptoSteps
  <2> HIDE DEF upto, name
  <2>8. Promise!Coded!Spot(files, base, Append(upto, name)) = Enter(files, Promise!Coded!Spot(files, base, upto), name)
    BY <2>7, SpotSteps
  <2>9. IsDir(files, Promise!Coded!Spot(files, base, Append(upto, name)))
    BY <2>6, <2>7
  <2>10. Promise!Coded!Spot(files, base, Append(upto, name)) # Absent
    BY <2>9, AbsentHasNothing
  <2>11. IsDir(files, Promise!Coded!Spot(files, base, upto))
    BY <2>8, <2>10, EnterFromDir
  <2> QED
    BY <2>3, <2>11 DEF upto
<1>3. Upto(path, n) \in Seq(Name)
  BY UptoSteps
<1> QED
  BY <1>2, <1>3

\* A name with which a walk goes on, in the words of the file tree.
LEMMA OnAre ==
    ASSUME NEW files, NEW base, NEW path, NEW name,
           NEW spot, spot = Promise!Coded!Spot(files, base, path),
           NEW to, to = Promise!Coded!Spot(files, base, Append(path, name))
    PROVE  name \in Promise!Coded!On(files, base, path) <=>
             /\ name \in Names(files, spot) /\ to # Absent
             /\ files[Append(spot, name)].kind = "link" => to \notin Promise!Coded!Came(files, base, path)
BY SameFiles DEF Promise!Coded!On

\* Where a walk came from, in the words of the file tree.
LEMMA CameAre ==
    ASSUME NEW files, NEW base, NEW path \in Seq(Name), NEW place
    PROVE  place \in Promise!Coded!Came(files, base, path) <=>
             \E n \in 0 .. Len(path) : place = Promise!Coded!Spot(files, base, Upto(path, n))
BY DEF Promise!Coded!Came, Upto

\* A walk to a directory can be gone again while files come and go.
LEMMA WalkKept ==
    ASSUME NEW files, Tidy(files), NEW other, Tidy(other), Kept(files, other), Kept(other, files),
           NEW base \in Seq(Name), NEW path \in Seq(Name),
           WalksOn(files, base, path), IsDir(files, Promise!Coded!Spot(files, base, path))
    PROVE  WalksOn(other, base, path)
<1> SUFFICES ASSUME NEW k \in 1 .. Len(path)
             PROVE  path[k] \in Promise!Coded!On(other, base, Upto(path, k - 1))
  BY DEF WalksOn
<1> DEFINE upto == Upto(path, k - 1)
           name == path[k]
           spot == Promise!Coded!Spot(files, base, upto)
           to == Promise!Coded!Spot(files, base, Append(upto, name))
           child == Append(spot, name)
<1>1. k - 1 \in 0 .. Len(path) /\ k \in 0 .. Len(path) /\ k # 0
  OBVIOUS
<1>2. /\ upto \in Seq(Name) /\ name \in Name /\ Upto(path, k) = Append(upto, name)
      /\ Append(upto, name) \in Seq(Name) /\ Len(upto) = k - 1
      /\ \A n \in 0 .. (k - 1) : Upto(upto, n) = Upto(path, n)
  <2>1. /\ Upto(path, k) \in Seq(Name) /\ path[k] \in Name
        /\ Upto(path, k) = Append(Upto(path, k - 1), path[k])
    BY <1>1, UptoSteps
  <2>2. /\ Upto(path, k - 1) \in Seq(Name) /\ Len(Upto(path, k - 1)) = k - 1
        /\ \A n \in 0 .. (k - 1) : Upto(Upto(path, k - 1), n) = Upto(path, n)
    BY <1>1, UptoSteps
  <2> HIDE DEF upto, name
  <2>3. Append(upto, name) = Upto(path, k)
    BY <2>1 DEF upto, name
  <2>4. Append(upto, name) \in Seq(Name)
    <3>1. Upto(path, k) \in Seq(Name)
      BY <2>1
    <3> QED
      BY ONLY <2>3, <3>1
  <2> QED
    BY <2>1, <2>2, <2>3, <2>4 DEF upto, name
<1>3. IsDir(files, spot) /\ IsDir(files, to)
  BY <1>1, <1>2, SpotDirs
<1>4. name \in Promise!Coded!On(files, base, upto)
  BY DEF WalksOn
<1> HIDE DEF upto, name
<1>5. Promise!Coded!Spot(other, base, upto) = spot /\ Promise!Coded!Spot(other, base, Append(upto, name)) = to
  <2>1. Promise!Coded!Spot(other, base, upto) = spot
    BY <1>2, <1>3, SpotKept
  <2> DEFINE further == Append(upto, name)
  <2>2. further \in Seq(Name) /\ IsDir(files, Promise!Coded!Spot(files, base, further))
    BY <1>2, <1>3
  <2> HIDE DEF further
  <2>3. Promise!Coded!Spot(other, base, further) = Promise!Coded!Spot(files, base, further)
    BY <2>2, SpotKept
  <2> QED
    BY <2>1, <2>3 DEF further
<1>6. /\ name \in Names(files, spot) /\ to # Absent
      /\ files[child].kind = "link" => to \notin Promise!Coded!Came(files, base, upto)
  BY <1>4, OnAre
<1>7. spot \in Seq(Name) /\ to = Enter(files, spot, name)
  BY <1>2, SpotSteps
<1> HIDE DEF spot, to
<1>8. /\ child \in DOMAIN files
      /\ Enter(files, spot, name) =
           IF files[child].kind # "link" THEN child
           ELSE IF Known(files, files[child].to) THEN files[child].to ELSE Absent
  BY <1>6, <1>7, EnterEntry
<1>9. files[child].kind # "file"
  <2> SUFFICES ASSUME files[child].kind = "file"
               PROVE  FALSE
    OBVIOUS
  <2>1. to = child /\ child # <<>>
    BY <1>7, <1>8, EntryIsTidy
  <2> QED
    BY <1>3, <2>1 DEF IsDir
<1>10. child \in DOMAIN other /\ other[child] = files[child]
  BY <1>8, <1>9 DEF Kept
<1>11. name \in Names(other, spot)
  BY <1>2, <1>7, <1>10, NamesAre
<1>12. \A n \in 0 .. Len(upto) : Promise!Coded!Spot(other, base, Upto(upto, n))
         = Promise!Coded!Spot(files, base, Upto(upto, n))
  <2> SUFFICES ASSUME NEW n \in 0 .. Len(upto)
               PROVE  Promise!Coded!Spot(other, base, Upto(upto, n)) = Promise!Coded!Spot(files, base, Upto(upto, n))
    OBVIOUS
  <2>1. n \in 0 .. Len(path) /\ Upto(upto, n) = Upto(path, n)
    BY <1>1, <1>2
  <2>2. Upto(path, n) \in Seq(Name) /\ IsDir(files, Promise!Coded!Spot(files, base, Upto(path, n)))
    BY <2>1, SpotDirs
  <2> QED
    BY <2>1, <2>2, SpotKept
<1>13. to \in Promise!Coded!Came(other, base, upto) => to \in Promise!Coded!Came(files, base, upto)
  BY <1>2, <1>12, CameAre
<1>14. name \in Promise!Coded!On(other, base, upto)
  BY <1>5, <1>6, <1>10, <1>11, <1>13, OnAre
<1> QED
  BY <1>14 DEF upto, name

\* A walk goes on by a name.
LEMMA WalkFurther ==
    ASSUME NEW files, NEW base, NEW path \in Seq(Name), WalksOn(files, base, path),
           NEW name \in Name, name \in Promise!Coded!On(files, base, path)
    PROVE  WalksOn(files, base, Append(path, name))
<1> DEFINE full == Append(path, name)
           n == Len(path)
<1>1. /\ full \in Seq(Name) /\ Len(full) = n + 1 /\ full[n + 1] = name /\ n \in Nat
      /\ \A i \in 1 .. n : full[i] = path[i]
  BY AppendSteps
<1> HIDE DEF full
<1>2. Leads(path, full)
  BY <1>1 DEF Leads
<1>3. Upto(full, n) = path
  BY <1>1, <1>2, LeadsWhole
<1>4. ASSUME NEW k \in 1 .. (n + 1)
      PROVE  full[k] \in Promise!Coded!On(files, base, Upto(full, k - 1))
  <2>1. CASE k = n + 1
    <3>1. k - 1 = n
      BY <1>1, <2>1
    <3> QED
      BY <1>1, <1>3, <2>1, <3>1
  <2>2. CASE k # n + 1
    <3>1. k \in 1 .. n /\ k - 1 \in 0 .. n /\ n \in 0 .. Len(full)
      BY <1>1, <2>2
    <3>2. Upto(Upto(full, n), k - 1) = Upto(full, k - 1)
      BY <1>1, <3>1, UptoSteps
    <3> QED
      BY <1>1, <1>3, <3>1, <3>2 DEF WalksOn
  <2> QED
    BY <2>1, <2>2
<1> QED
  BY <1>1, <1>4 DEF WalksOn, full

\* The listings of a walk behind ** are those of the directories it came through.
Chain(files, base, listings) ==
    \A j \in DOMAIN listings :
      /\ Len(listings[j].dir) = j - 1 /\ WalksOn(files, base, listings[j].dir)
      /\ \A i \in 1 .. j : listings[i].dir = Upto(listings[j].dir, i - 1)
WalksGo ==
    stack = <<>> /\ open # <<>> => Chain(tree, Promise!Coded!Base(wanted) \o Head(recursive).dir, open)

\* Where the directories that the walk reads lie.
LEMMA WalkPlaces ==
    ASSUME PatternsAreRead, WalkInv, NEW m, NEW reading, NEW whole, Recurs(reading, m, whole),
           NEW base, base = Promise!Coded!Base(wanted) \o Head(recursive).dir, NEW j \in 1 .. m
    PROVE  /\ base \in Seq(Name) /\ open[j].dir \in Seq(Name)
           /\ open[j].place = Promise!Coded!Spot(tree, base, open[j].dir)
<1> DEFINE dir == Head(recursive).dir
           below == open[j].dir
<1>1. /\ dir \in Seq(Name) /\ stack = <<>> /\ open \in Seq(Listings) /\ j \in DOMAIN open
      /\ Readable(wanted) /\ OpenAreRead
  BY DEF Recurs, WalkInv, WalkTyped
<1>2. below \in Seq(Name)
  <2>1. open[j] \in Listings
    BY <1>1
  <2> QED
    BY <2>1 DEF Listings
<1>3. Promise!Coded!Base(wanted) \in Seq(Name)
  BY <1>1, PatternTyped
<1>4. ListingOf(tree, wanted, Whole(stack, recursive, open[j]), open[j])
  BY <1>1 DEF OpenAreRead
<1>5. Whole(stack, recursive, open[j]) = dir \o below
  BY <1>1 DEF Whole
<1>6. open[j].place = Promise!Coded!Spot(tree, Promise!Coded!Base(wanted), dir \o below)
  BY <1>4, <1>5 DEF ListingOf
<1> HIDE DEF dir, below
<1>7. Promise!Coded!Spot(tree, Promise!Coded!Base(wanted) \o dir, below)
        = Promise!Coded!Spot(tree, Promise!Coded!Base(wanted), dir \o below)
  BY <1>1, <1>2, <1>3, SpotFurther
<1>8. Promise!Coded!Base(wanted) \o dir \in Seq(Name)
  BY <1>1, <1>3, ConcatTogether
<1>9. base = Promise!Coded!Base(wanted) \o dir
  BY DEF dir
<1> QED
  BY <1>2, <1>6, <1>7, <1>8, <1>9 DEF below

\* walkdir goes on by the names that the promise has it go on by: a link back to a
\* directory that it came through is one to a directory it reads (WalkEntry).
LEMMA OnFollowed ==
    ASSUME PatternsAreRead, WalkInv, WalksGo, NEW m, NEW reading, NEW whole, Recurs(reading, m, whole),
           NEW base, base = Promise!Coded!Base(wanted) \o Head(recursive).dir, NEW name \in Name,
           Append(reading.place, name) \in DOMAIN tree, tree[Append(reading.place, name)] = reading.may[name]
    PROVE  /\ name \in Promise!Coded!On(tree, base, reading.dir) <=> ~Skips(name, reading)
           /\ GoesTo(name, reading) = Promise!Coded!Spot(tree, base, Append(reading.dir, name))
<1> DEFINE below == reading.dir
           spot == reading.place
           child == Append(spot, name)
           to == GoesTo(name, reading)
<1>1. /\ m \in Nat \ {0} /\ DOMAIN open = 1 .. m /\ reading = open[m] /\ m \in 1 .. m
      /\ stack = <<>> /\ open # <<>> /\ below \in Seq(Name) /\ spot \in Seq(Name) /\ Tidy(tree)
  BY DEF Recurs, WalkInv, WalkTyped
<1>2. \A j \in 1 .. m : base \in Seq(Name) /\ open[j].place = Promise!Coded!Spot(tree, base, open[j].dir)
  BY WalkPlaces
<1>3. /\ Len(below) = m - 1 /\ \A i \in 1 .. m : open[i].dir = Upto(below, i - 1)
  BY <1>1 DEF WalksGo, Chain
<1>4. spot = Promise!Coded!Spot(tree, base, below) /\ base \in Seq(Name)
  BY <1>1, <1>2
<1>5. child \in DOMAIN tree /\ to = Followed(tree[child], child)
  BY DEF GoesTo
<1> HIDE DEF below, spot, to
<1>6. name \in Names(tree, spot)
  BY <1>1, <1>5, NamesAre
<1>7. Promise!Coded!Spot(tree, base, Append(below, name)) = Enter(tree, spot, name)
  <2>1. \A other \in Name : Promise!Coded!Spot(tree, base, Append(below, other)) =
                             Enter(tree, Promise!Coded!Spot(tree, base, below), other)
    BY ONLY <1>1, <1>4, SpotSteps
  <2> QED
    BY ONLY name \in Name, <1>4, <2>1
<1>8. /\ child \in DOMAIN tree
      /\ Enter(tree, spot, name) =
           IF tree[child].kind # "link" THEN child
           ELSE IF Known(tree, tree[child].to) THEN tree[child].to ELSE Absent
  BY <1>1, <1>6, EnterEntry
<1> HIDE DEF child
<1>9. to = Promise!Coded!Spot(tree, base, Append(below, name))
  BY <1>5, <1>7, <1>8 DEF Followed
<1>10. child # Absent
  BY <1>1, <1>8, AbsentHasNothing
<1>11. tree[child].kind # "link" => to # Absent
  BY <1>5, <1>10 DEF Followed
<1>12. LeadsBack(to) <=> to \in Promise!Coded!Came(tree, base, below)
  <2>1. \A i \in 1 .. m : open[i].place = Promise!Coded!Spot(tree, base, Upto(below, i - 1))
    BY <1>2, <1>3
  <2>2. to \in Promise!Coded!Came(tree, base, below) <=>
          \E n \in 0 .. (m - 1) : to = Promise!Coded!Spot(tree, base, Upto(below, n))
    BY <1>1, <1>3, CameAre
  <2>3. LeadsBack(to) <=> \E i \in 1 .. m : to = Promise!Coded!Spot(tree, base, Upto(below, i - 1))
    BY <1>1, <2>1 DEF LeadsBack
  <2>4. ASSUME NEW i \in 1 .. m
        PROVE  i - 1 \in 0 .. (m - 1)
    BY <1>1, <2>4
  <2>5. ASSUME NEW n \in 0 .. (m - 1)
        PROVE  n + 1 \in 1 .. m /\ (n + 1) - 1 = n
    BY <1>1, <2>5
  <2> QED
    BY <2>2, <2>3, <2>4, <2>5
<1>13. name \in Promise!Coded!On(tree, base, below) <=>
         /\ name \in Names(tree, spot) /\ to # Absent
         /\ tree[child].kind = "link" => to \notin Promise!Coded!Came(tree, base, below)
  BY <1>4, <1>9, OnAre DEF child
<1>14. Skips(name, reading) <=> tree[child].kind = "link" /\ (to = Absent \/ LeadsBack(to))
  BY DEF Skips, to, child, spot
<1> QED
  BY <1>6, <1>9, <1>11, <1>12, <1>13, <1>14 DEF below, to

-----------------------------------------------------------------------------
(***************************************************************************)
(* What a RecursiveWalker's regular expression fits, and what a NodeWalker's *)
(* node fits, if the patterns are meant as they are read.                   *)
(***************************************************************************)

\* What the theorem assumes: the patterns are read as they are spelled, and a name or a
\* path fits what is read of a pattern if the pattern stands for it.
PatternsAreMeant ==
    PatternsAreRead /\ PatternsAreRefused /\ NamesFit /\ \A n \in Nat : PathsFit(n)

\* A RecursiveWalker was left the nodes behind the first **.
LeftTo(walker) ==
    LET n == walker.next - 1
    IN  n \in 1 .. (Len(nodes) - 1) /\ nodes[n].kind = "recursive" /\ At[n] = First(wanted) - 1
LeftNodes == \A i \in DOMAIN recursive : LeftTo(recursive[i])

\* No node before that is a **.
LEMMA NoneBefore ==
    ASSUME PatternsAreRead, WalkTyped, outcome # "refused", NEW n \in 1 .. (Len(nodes) - 1),
           At[n] = First(wanted) - 1, NEW j \in 1 .. (n - 1)
    PROVE  nodes[j].kind # "recursive"
<1> SUFFICES ASSUME nodes[j].kind = "recursive"
             PROVE  FALSE
  OBVIOUS
<1>1. Readable(wanted)
  BY DEF WalkTyped
<1>2. Laid(At, nodes, wanted, Len(wanted.components)) /\ Len(nodes) \in Nat
  BY NodesLaid
<1>3. j \in 1 .. Len(nodes) /\ j \in 1 .. (Len(nodes) - 1) /\ j + 1 \in 1 .. (Len(nodes) + 1) /\ n \in 1 .. (Len(nodes) + 1)
      /\ j + 1 <= n
  BY <1>2
<1>4. Lies(At, nodes, wanted, j)
  BY <1>2, <1>3 DEF Laid
<1>5. At[j + 1] = At[j] + 1 /\ wanted.components[At[j] + 1].kind = "recursion"
  BY <1>4 DEF Lies
<1>6. /\ At[j] \in 0 .. Len(wanted.components) /\ At[j + 1] <= At[n]
      /\ At[j + 1] < Len(wanted.components)
  <2>1. At \in [1 .. (Len(nodes) + 1) -> 0 .. Len(wanted.components)]
    BY <1>2 DEF Laid
  <2>2. At[j + 1] <= At[n]
    BY <1>2, <1>3 DEF Laid
  <2>3. At[j + 1] < Len(wanted.components)
    BY <1>2, <1>3 DEF Laid
  <2> QED
    BY <1>2, <1>3, <2>1, <2>2, <2>3
<1>7. First(wanted) \in Nat /\ Len(wanted.components) \in Nat
  BY <1>1, FirstIs, PatternTyped
<1>8. At[j] + 1 \in 1 .. (Len(wanted.components) - 1)
  BY <1>5, <1>6, <1>7
<1>9. First(wanted) <= At[j] + 1
  BY <1>1, <1>5, <1>8, FirstIs
<1> QED
  BY <1>5, <1>6, <1>7, <1>9

\* The regular expression of a RecursiveWalker fits what the pattern from the first **
\* on stands for.
LEMMA RegexesFit ==
    ASSUME PatternsAreMeant, WalkTyped, outcome # "refused", Promise!Coded!HasRecursion(wanted),
           NEW walker \in LeftSet, LeftTo(walker), NEW path \in Seq(FileNames)
    PROVE  PathFits(Regexes(walker), path) <=> Promise!Coded!Covers(Behind(wanted), path)
<1> DEFINE k == walker.next - 1
           parts == NodesOf(wanted.absolute, Components(wanted))
<1>1. Readable(wanted) /\ nodes = parts
  BY DEF WalkTyped
<1>2. /\ k \in 1 .. (Len(nodes) - 1) /\ nodes[k].kind = "recursive" /\ At[k] = First(wanted) - 1
      /\ PatternsAreRead
  BY DEF LeftTo, PatternsAreMeant
<1>3. \A j \in 1 .. (k - 1) : nodes[j].kind # "recursive"
  BY <1>2, NoneBefore
<1>4. k \in DOMAIN nodes /\ k + 1 = walker.next
  BY <1>2, NodesLaid DEF LeftSet
<1>5. PICK n \in Nat : path \in [1 .. n -> FileNames]
  OBVIOUS
<1>6. PathsFit(n)
  BY <1>5 DEF PatternsAreMeant
<1>7. wanted \in Wanted /\ ~Refused(Components(wanted))
  BY <1>1 DEF Readable
<1> HIDE DEF k
<1>8. PathFits(RecursiveRegex(SubSeq(nodes, k + 1, Len(nodes))), path) <=>
        Promise!Coded!Covers(SubSeq(wanted.components, Promise!Coded!FirstRecursion(wanted), Len(wanted.components)), path)
  BY <1>1, <1>2, <1>3, <1>4, <1>5, <1>6, <1>7, Zenon DEF PathsFit
<1> QED
  BY <1>4, <1>8 DEF Regexes, Behind, First

\* What the k-th component, which must be found in a directory, stands for.
Stood(k, name) ==
    wanted.components[k].kind = "recursion" \/ Promise!Coded!Means(wanted.components[k].pieces, name)

\* A node fits the names that its component stands for.
LEMMA NodeFits ==
    ASSUME PatternsAreMeant, WalkTyped, outcome # "refused", NEW n \in 1 .. Len(nodes),
           nodes[n].kind # "literals", NEW name \in FileNames
    PROVE  NameFits(nodes[n], name) <=> Stood(At[n] + 1, name)
<1> DEFINE i == At[n] + 1
           component == wanted.components[i]
           text == Promise!Coded!Spelled(component)
<1>1. Readable(wanted) /\ PatternsAreRead
  BY DEF WalkTyped, PatternsAreMeant
<1>2. Laid(At, nodes, wanted, Len(wanted.components)) /\ Len(nodes) \in Nat
  BY <1>1, NodesLaid
<1>3. Lies(At, nodes, wanted, n)
  BY <1>2 DEF Laid
<1>4. /\ ~Promise!Coded!AsWritten(component) /\ nodes[n] = NodeOf(Components(wanted)[i])
      /\ nodes[n].kind \in {"recursive", "regex"} /\ (nodes[n].kind = "recursive" <=> component.kind = "recursion")
  BY <1>3 DEF Lies
<1>5. i \in DOMAIN wanted.components
  <2>1. At[n] \in Nat /\ At[n + 1] \in 0 .. Len(wanted.components) /\ Len(wanted.components) \in Nat
    <3>1. At \in [1 .. (Len(nodes) + 1) -> 0 .. Len(wanted.components)]
      BY <1>2 DEF Laid
    <3>2. n \in 1 .. (Len(nodes) + 1) /\ n + 1 \in 1 .. (Len(nodes) + 1)
      BY <1>2
    <3>3. Len(wanted.components) \in Nat
      BY <1>1, PatternTyped
    <3>4. At[n] \in 0 .. Len(wanted.components) /\ At[n + 1] \in 0 .. Len(wanted.components)
      BY <3>1, <3>2
    <3> QED
      BY <3>3, <3>4
  <2>2. At[n + 1] = At[n] + 1
    BY <1>3, <1>4 DEF Lies
  <2> QED
    BY <1>1, <2>1, <2>2, PatternTyped
<1>6. Components(wanted)[i] = text
  BY <1>1, <1>5, ComponentRead DEF ReadAs
<1>7. wanted \in Wanted /\ ~Refused(Components(wanted))
  BY <1>1 DEF Readable
<1>8. component.kind # "recursion" => (NameFits(NodeOf(text), name) <=> Promise!Coded!Means(component.pieces, name))
  <2>1. NamesFit
    BY DEF PatternsAreMeant
  <2> QED
    BY <1>4, <1>5, <1>7, <2>1 DEF NamesFit
<1>9. component.kind = "recursion" => NameFits(nodes[n], name)
  BY <1>4 DEF NameFits
<1> HIDE DEF text, component, i
<1>10. NameFits(nodes[n], name) <=> component.kind = "recursion" \/ Promise!Coded!Means(component.pieces, name)
  BY <1>4, <1>6, <1>8, <1>9
<1> QED
  BY <1>10 DEF Stood, component, i

\* What a directory lists are names of the tree.
LEMMA ListedAreKnown ==
    ASSUME NEW files, Tidy(files), \A path \in DOMAIN files : Last(path) \in FileNames,
           NEW place \in Seq(Name), NEW name \in Names(files, place)
    PROVE  name \in FileNames
<1>1. name \in Name /\ Append(place, name) \in DOMAIN files
  BY NamesAre
<1>2. Last(Append(place, name)) = name
  BY <1>1, AppendParts
<1> QED
  BY <1>1, <1>2

\* A walk has names of the tree.
LEMMA WalksOnKnown ==
    ASSUME NEW files, Tidy(files), \A path \in DOMAIN files : Last(path) \in FileNames,
           NEW base \in Seq(Name), NEW path \in Seq(Name), WalksOn(files, base, path)
    PROVE  path \in Seq(FileNames)
<1>1. ASSUME NEW k \in 1 .. Len(path)
      PROVE  path[k] \in FileNames
  <2> DEFINE upto == Upto(path, k - 1)
             spot == Promise!Coded!Spot(files, base, upto)
  <2>1. k - 1 \in 0 .. Len(path)
    OBVIOUS
  <2>2. upto \in Seq(Name)
    BY <2>1, UptoSteps
  <2>3. path[k] \in Promise!Coded!On(files, base, upto)
    BY DEF WalksOn
  <2> HIDE DEF upto
  <2>4. spot \in Seq(Name)
    BY <2>2, SpotSteps
  <2>5. path[k] \in Names(files, spot)
    BY <2>3, OnAre
  <2> HIDE DEF spot
  <2> QED
    BY <2>4, <2>5, ListedAreKnown
<1> QED
  BY <1>1

\* A name that the last node fits is the end of a match (next_from_dir).
LEMMA LeafMatches ==
    ASSUME PatternsAreMeant, WalkTyped, outcome # "refused",
           NEW files, Tidy(files), \A path \in DOMAIN files : Last(path) \in FileNames,
           NEW node \in 1 .. Len(nodes), node = Len(nodes), nodes[node].kind # "literals",
           AheadOf(At, nodes, wanted, node),
           NEW dir \in Seq(Name), At[node] = Len(dir), Firm(files, wanted, dir),
           NEW name \in Names(files, Promise!Coded!Spot(files, Promise!Coded!Base(wanted), dir)),
           NameFits(nodes[node], name)
    PROVE  Append(dir, name) \in Promise!Coded!Matched(files, wanted)
<1> DEFINE k == Len(dir) + 1
           place == Promise!Coded!Spot(files, Promise!Coded!Base(wanted), dir)
<1>1. Readable(wanted) /\ PatternsAreRead /\ PatternsAreRefused
  BY DEF WalkTyped, PatternsAreMeant
<1>2. place \in Seq(Name)
  BY <1>1, PatternTyped, SpotSteps
<1>3. name \in FileNames
  <2> HIDE DEF place
  <2>1. name \in Names(files, place)
    BY DEF place
  <2> QED
    BY <1>2, <2>1, ListedAreKnown
<1>4. /\ ~Promise!Coded!HasRecursion(wanted) /\ At[node + 1] = Len(wanted.components) /\ At[node + 1] = At[node] + 1
      /\ ~Promise!Coded!AsWritten(wanted.components[At[node] + 1])
  BY DEF AheadOf
<1>5. k = Len(wanted.components) /\ ~Promise!Coded!AsWritten(wanted.components[k])
  BY <1>4
<1>6. Stood(k, name)
  BY <1>3, NodeFits
<1> HIDE DEF k
<1>7. name \in Onward(files, wanted, k, dir)
  BY <1>5, <1>6, OnwardAre DEF Stood
<1> QED
  BY <1>1, <1>4, <1>5, <1>7, LastNameMatches DEF k

\* What a walk behind ** visits is a match if the regular expression fits it (WalkEntry).
LEMMA VisitMatches ==
    ASSUME PatternsAreMeant, WalkTyped, outcome # "refused", Promise!Coded!HasRecursion(wanted),
           NEW files, Tidy(files), \A path \in DOMAIN files : Last(path) \in FileNames,
           NEW walker \in LeftSet, LeftTo(walker), Len(walker.dir) = First(wanted) - 1,
           Firm(files, wanted, walker.dir),
           NEW path \in Seq(Name), WalksOn(files, Promise!Coded!Base(wanted) \o walker.dir, path),
           PathFits(Regexes(walker), path)
    PROVE  walker.dir \o path \in Promise!Coded!Matched(files, wanted)
<1> DEFINE start == walker.dir
           base == Promise!Coded!Base(wanted) \o start
<1>1. Readable(wanted) /\ PatternsAreRead /\ PatternsAreRefused
  BY DEF WalkTyped, PatternsAreMeant
<1>2. start \in Seq(Name)
  BY DEF LeftSet
<1>3. base \in Seq(Name)
  <2> HIDE DEF start
  <2> QED
    BY <1>1, <1>2, PatternTyped, ConcatTogether
<1>4. path \in Seq(FileNames)
  <2>1. WalksOn(files, base, path)
    OBVIOUS
  <2> HIDE DEF base
  <2> QED
    BY <1>3, <2>1, WalksOnKnown
<1>5. Promise!Coded!Covers(Behind(wanted), path)
  BY <1>4, RegexesFit
<1>6. WalksOn(files, Promise!Coded!Base(wanted) \o start, path)
        /\ Firm(files, wanted, start) /\ Len(start) = First(wanted) - 1
  OBVIOUS
<1> HIDE DEF start
<1>7. start \o path \in Promise!Coded!Matched(files, wanted)
  BY <1>1, <1>2, <1>5, <1>6, WalkMatches
<1> QED
  BY <1>7 DEF start

\* A walk goes on by an entry that is no link.
LEMMA EntryGoesOn ==
    ASSUME NEW files, Tidy(files), NEW base \in Seq(Name), NEW path \in Seq(Name),
           NEW spot, spot = Promise!Coded!Spot(files, base, path), NEW name \in Names(files, spot),
           files[Append(spot, name)].kind # "link"
    PROVE  name \in Promise!Coded!On(files, base, path)
<1> DEFINE child == Append(spot, name)
           to == Promise!Coded!Spot(files, base, Append(path, name))
<1>1. spot \in Seq(Name)
  BY SpotSteps
<1>2. name \in Name /\ child \in DOMAIN files
  BY <1>1, NamesAre
<1>3. to = Enter(files, spot, name)
  BY <1>2, SpotSteps
<1> HIDE DEF to
<1>4. Enter(files, spot, name) =
        IF files[child].kind # "link" THEN child
        ELSE IF Known(files, files[child].to) THEN files[child].to ELSE Absent
  BY <1>1, EnterEntry
<1>5. to # Absent
  BY <1>2, <1>3, <1>4, AbsentHasNothing
<1> QED
  BY <1>5, OnAre DEF to

-----------------------------------------------------------------------------
(***************************************************************************)
(* What is reported matched at some time.                                   *)
(***************************************************************************)

\* What must be listed is what the directory has.
Agrees(files, listing) ==
    \A name \in listing.must :
      /\ name \in DOMAIN listing.may /\ Append(listing.place, name) \in DOMAIN files
      /\ files[Append(listing.place, name)] = listing.may[name]

\* A listing is honest if it agrees with the tree, and the files in it that would be
\* results matched when they were there.
Honest(files, pattern, was, listing, whole, results) ==
    /\ DOMAIN listing.may \subseteq FileNames
    /\ Agrees(files, listing)
    /\ \A name \in DOMAIN listing.may \cap results :
         listing.may[name].kind = "file" => Promise!Coded!Report(pattern, Append(whole, name)) \in was

\* The names that are results if they are read in a directory.
Results(dir) ==
    {name \in Name :
       IF stack # <<>> THEN IsLeaf(NodeAt(1)) /\ NameFits(nodes[NodeAt(1)], name)
       ELSE PathFits(Regexes(Head(recursive)), Append(dir, name))}
ListingsHonest ==
    \A j \in DOMAIN open :
      Honest(tree, wanted, sometime, open[j], Whole(stack, recursive, open[j]), Results(open[j].dir))

RoutesFirm ==
    /\ \A i \in DOMAIN stack : Firm(tree, wanted, stack[i].dir)
    /\ \A i \in DOMAIN recursive : Firm(tree, wanted, recursive[i].dir)
TreeKnown == \A path \in DOMAIN tree : Last(path) \in FileNames
NowWas == Promise!Coded!Matches(tree, wanted) \subseteq sometime

\* Every walker stands behind components that the tree has, every directory was read as
\* it is or was, and so what is reported matches or matched.
Faithful == RoutesFirm /\ LeftNodes /\ WalksGo /\ ListingsHonest /\ TreeKnown /\ NowWas

\* A directory is honest when it is opened.
LEMMA OpenedIsHonest ==
    ASSUME NEW files, Tidy(files), \A path \in DOMAIN files : Last(path) \in FileNames,
           NEW pattern, NEW was, Promise!Coded!Matches(files, pattern) \subseteq was,
           NEW listing, NEW place \in Seq(Name), listing.place = place,
           listing.must = Names(files, place), DOMAIN listing.may = Names(files, place),
           \A name \in Names(files, place) : listing.may[name] = files[Append(place, name)],
           NEW whole, NEW results,
           \A name \in Names(files, place) \cap results :
             files[Append(place, name)].kind = "file" => Append(whole, name) \in Promise!Coded!Matched(files, pattern)
    PROVE  Honest(files, pattern, was, listing, whole, results)
<1>1. DOMAIN listing.may \subseteq FileNames
  BY ListedAreKnown
<1>2. Agrees(files, listing)
  <2> SUFFICES ASSUME NEW name \in Names(files, place)
               PROVE  /\ name \in DOMAIN listing.may /\ Append(listing.place, name) \in DOMAIN files
                      /\ files[Append(listing.place, name)] = listing.may[name]
    BY DEF Agrees
  <2>1. Append(place, name) \in DOMAIN files
    BY NamesAre
  <2> QED
    BY <2>1
<1>3. ASSUME NEW name \in DOMAIN listing.may \cap results, listing.may[name].kind = "file"
      PROVE  Promise!Coded!Report(pattern, Append(whole, name)) \in was
  <2> DEFINE path == Append(whole, name)
  <2>1. path \in Promise!Coded!Matched(files, pattern)
    BY <1>3
  <2> HIDE DEF path
  <2>2. Promise!Coded!Report(pattern, path) \in Promise!Coded!Matches(files, pattern)
    BY <2>1 DEF Promise!Coded!Matches
  <2>3. Promise!Coded!Report(pattern, path) \in was
    BY <2>2
  <2> QED
    BY <2>3 DEF path
<1> QED
  BY <1>1, <1>2, <1>3 DEF Honest

\* It stays so as its entries are listed.
LEMMA ListedIsHonest ==
    ASSUME NEW files, NEW pattern, NEW was, NEW listing \in Listings, NEW whole, NEW results,
           Honest(files, pattern, was, listing, whole, results), NEW name \in DOMAIN listing.may
    PROVE  Honest(files, pattern, was, Listed(name, listing), whole, results)
<1> DEFINE more == Listed(name, listing)
<1>1. /\ more.place = listing.place /\ more.must = listing.must \ {name}
      /\ DOMAIN more.may = DOMAIN listing.may \ {name}
      /\ \A other \in DOMAIN more.may : more.may[other] = listing.may[other]
  BY ListedOnce
<1> HIDE DEF more
<1>2. Agrees(files, listing)
  BY DEF Honest
<1>3. Agrees(files, more)
  <2> SUFFICES ASSUME NEW other \in more.must
               PROVE  /\ other \in DOMAIN more.may /\ Append(more.place, other) \in DOMAIN files
                      /\ files[Append(more.place, other)] = more.may[other]
    BY DEF Agrees
  <2>1. other \in listing.must /\ other # name
    BY <1>1
  <2>2. /\ other \in DOMAIN listing.may /\ Append(listing.place, other) \in DOMAIN files
        /\ files[Append(listing.place, other)] = listing.may[other]
    BY <1>2, <2>1 DEF Agrees
  <2> QED
    BY <1>1, <2>1, <2>2
<1>4. DOMAIN more.may \subseteq FileNames
  BY <1>1 DEF Honest
<1>5. ASSUME NEW other \in DOMAIN more.may \cap results, more.may[other].kind = "file"
      PROVE  Promise!Coded!Report(pattern, Append(whole, other)) \in was
  <2>1. other \in DOMAIN listing.may \cap results /\ listing.may[other].kind = "file"
    BY <1>1, <1>5
  <2> QED
    BY <2>1 DEF Honest
<1> QED
  BY <1>3, <1>4, <1>5 DEF Honest, more

\* The walkers that are left after the first one stand as they stood.
LEMMA TailsFirm ==
    ASSUME WalkTyped, Faithful
    PROVE  /\ stack # <<>> => \A i \in DOMAIN Tail(stack) : Firm(tree, wanted, Tail(stack)[i].dir)
           /\ recursive # <<>> =>
                \A i \in DOMAIN Tail(recursive) :
                  Firm(tree, wanted, Tail(recursive)[i].dir) /\ LeftTo(Tail(recursive)[i])
<1>1. stack \in Seq(RouteSet) /\ recursive \in Seq(LeftSet) /\ RoutesFirm /\ LeftNodes
  BY DEF WalkTyped, Faithful
<1>2. ASSUME stack # <<>>, NEW i \in DOMAIN Tail(stack)
      PROVE  Firm(tree, wanted, Tail(stack)[i].dir)
  <2>1. /\ Len(stack) \in Nat \ {0} /\ DOMAIN stack = 1 .. Len(stack)
        /\ DOMAIN Tail(stack) = 1 .. (Len(stack) - 1)
        /\ \A j \in 1 .. (Len(stack) - 1) : Tail(stack)[j] = stack[j + 1]
    BY <1>1, <1>2, TailSteps
  <2>2. i + 1 \in DOMAIN stack /\ Tail(stack)[i] = stack[i + 1]
    BY <1>2, <2>1
  <2> QED
    BY <1>1, <2>2 DEF RoutesFirm
<1>3. ASSUME recursive # <<>>, NEW i \in DOMAIN Tail(recursive)
      PROVE  Firm(tree, wanted, Tail(recursive)[i].dir) /\ LeftTo(Tail(recursive)[i])
  <2>1. /\ Len(recursive) \in Nat \ {0} /\ DOMAIN recursive = 1 .. Len(recursive)
        /\ DOMAIN Tail(recursive) = 1 .. (Len(recursive) - 1)
        /\ \A j \in 1 .. (Len(recursive) - 1) : Tail(recursive)[j] = recursive[j + 1]
    BY <1>1, <1>3, TailSteps
  <2>2. i + 1 \in DOMAIN recursive /\ Tail(recursive)[i] = recursive[i + 1]
    BY <1>3, <2>1
  <2> QED
    BY <1>1, <2>2 DEF RoutesFirm, LeftNodes
<1> QED
  BY <1>2, <1>3

\* While the tree stays, the walkers are all that matters of a step that opens nothing.
LEMMA WalkersFaithful ==
    ASSUME Faithful, UNCHANGED <<tree, wanted, nodes, sometime>>,
           \A i \in DOMAIN stack' : Firm(tree, wanted, stack'[i].dir),
           \A i \in DOMAIN recursive' : Firm(tree, wanted, recursive'[i].dir) /\ LeftTo(recursive'[i])
    PROVE  /\ RoutesFirm' /\ LeftNodes' /\ TreeKnown' /\ NowWas'
           /\ open' = <<>> => Faithful'
<1>1. RoutesFirm /\ LeftNodes /\ TreeKnown /\ NowWas
  BY DEF Faithful
<1>2. RoutesFirm'
  BY DEF RoutesFirm
<1>3. LeftNodes'
  <2>1. At' = At
    BY DEF At
  <2> QED
    BY <2>1 DEF LeftNodes, LeftTo
<1>4. TreeKnown' /\ NowWas'
  <2>1. TreeKnown'
    BY <1>1 DEF TreeKnown
  <2>2. Promise!Coded!Matches(tree, wanted)' = Promise!Coded!Matches(tree, wanted)
    OBVIOUS
  <2> QED
    BY <1>1, <2>1, <2>2 DEF NowWas
<1>5. open' = <<>> => WalksGo' /\ ListingsHonest'
  BY DEF WalksGo, ListingsHonest
<1> QED
  BY <1>2, <1>3, <1>4, <1>5 DEF Faithful

\* A walker at the end of its nodes is dropped (AtEnd).
LEMMA AtEndFaithful ==
    ASSUME PatternsAreMeant, WalkInv, Faithful, AtEnd
    PROVE  Faithful'
<1>1. /\ stack' = Tail(stack) /\ recursive' = recursive /\ open' = <<>> /\ stack # <<>>
      /\ UNCHANGED <<tree, wanted, nodes, sometime>>
  BY DEF AtEnd, Starting, Walking, world
<1>2. \A i \in DOMAIN stack' : Firm(tree, wanted, stack'[i].dir)
  BY <1>1, TailsFirm DEF WalkInv
<1>3. \A i \in DOMAIN recursive' : Firm(tree, wanted, recursive'[i].dir) /\ LeftTo(recursive'[i])
  BY <1>1 DEF Faithful, RoutesFirm, LeftNodes
<1> QED
  BY <1>1, <1>2, <1>3, WalkersFaithful

\* A directory that is read is closed (EndOfDir).
LEMMA EndOfDirFaithful ==
    ASSUME PatternsAreMeant, WalkInv, Faithful, EndOfDir
    PROVE  Faithful'
<1>1. /\ stack' = Tail(stack) /\ recursive' = recursive /\ open' = <<>> /\ stack # <<>>
      /\ UNCHANGED <<tree, wanted, nodes, sometime>>
  BY DEF EndOfDir, Reading, Walking, world
<1>2. \A i \in DOMAIN stack' : Firm(tree, wanted, stack'[i].dir)
  BY <1>1, TailsFirm DEF WalkInv
<1>3. \A i \in DOMAIN recursive' : Firm(tree, wanted, recursive'[i].dir) /\ LeftTo(recursive'[i])
  BY <1>1 DEF Faithful, RoutesFirm, LeftNodes
<1> QED
  BY <1>1, <1>2, <1>3, WalkersFaithful

\* A RecursiveWalker is left what is behind the first ** (Recur).
LEMMA RecurFaithful ==
    ASSUME PatternsAreMeant, WalkInv, Faithful, Recur
    PROVE  Faithful'
<1> DEFINE candidate == NextCandidate(Head(stack))
           route == candidate.route
           walker == [next |-> route.next + 1, dir |-> route.dir]
<1>1. /\ Starting /\ candidate.some /\ nodes[route.next].kind = "recursive" /\ ~IsLeaf(route.next)
      /\ recursive' = Append(recursive, walker) /\ stack' = Tail(stack) /\ open' = <<>> /\ stack # <<>>
      /\ UNCHANGED <<tree, wanted, nodes, sometime>>
  BY DEF Recur, Starting, Walking, world
<1>2. PatternsAreRead /\ WalkTyped /\ outcome # "refused" /\ recursive \in Seq(LeftSet)
  BY <1>1 DEF PatternsAreMeant, WalkInv, WalkTyped, Starting, Walking
<1>3. Stands(candidate)
  BY <1>1, <1>2, CandidateStands
<1>4. Firm(tree, wanted, route.dir)
  <2>1. 1 \in DOMAIN stack /\ Head(stack) = stack[1]
    BY <1>1, TailSteps DEF WalkInv, WalkTyped
  <2>2. Firm(tree, wanted, Head(stack).dir)
    BY <2>1 DEF Faithful, RoutesFirm
  <2> QED
    BY <1>1, <1>2, <2>2, CandidateFirm
<1>5. /\ route.next \in DOMAIN nodes /\ At[route.next] = Len(route.dir) /\ route \in RouteSet
      /\ AheadOf(At, nodes, wanted, route.next)
  BY <1>1, <1>3 DEF Stands
<1> HIDE DEF candidate, route
<1>6. walker.dir = route.dir /\ walker.next - 1 = route.next /\ walker \in LeftSet
  BY <1>5 DEF RouteSet, LeftSet
<1> HIDE DEF walker
<1>7. LeftTo(walker)
  <2>1. DOMAIN nodes = 1 .. Len(nodes) /\ Len(nodes) \in Nat
    BY <1>2, NodesLaid
  <2>2. route.next \in 1 .. (Len(nodes) - 1) /\ route.next < Len(nodes)
    BY <1>1, <1>5, <2>1 DEF IsLeaf
  <2>3. At[route.next] = First(wanted) - 1
    BY <1>1, <1>5, <2>2 DEF AheadOf
  <2> QED
    BY <1>1, <1>6, <2>2, <2>3 DEF LeftTo
<1>8. \A i \in DOMAIN stack' : Firm(tree, wanted, stack'[i].dir)
  BY <1>1, <1>2, TailsFirm
<1>9. \A i \in DOMAIN recursive' : Firm(tree, wanted, recursive'[i].dir) /\ LeftTo(recursive'[i])
  <2>1. /\ Len(recursive) \in Nat /\ DOMAIN recursive = 1 .. Len(recursive)
        /\ DOMAIN recursive' = 1 .. (Len(recursive) + 1)
        /\ recursive'[Len(recursive) + 1] = walker /\ \A i \in 1 .. Len(recursive) : recursive'[i] = recursive[i]
    BY <1>1, <1>2, <1>6, AppendSteps
  <2>2. \A i \in DOMAIN recursive : Firm(tree, wanted, recursive[i].dir) /\ LeftTo(recursive[i])
    BY DEF Faithful, RoutesFirm, LeftNodes
  <2>3. ASSUME NEW i \in DOMAIN recursive'
        PROVE  Firm(tree, wanted, recursive'[i].dir) /\ LeftTo(recursive'[i])
    <3>1. CASE i \in 1 .. Len(recursive)
      BY <2>1, <2>2, <3>1
    <3>2. CASE i \notin 1 .. Len(recursive)
      <4>1. i = Len(recursive) + 1
        BY <2>1, <3>2
      <4> QED
        BY <1>4, <1>6, <1>7, <2>1, <4>1
    <3> QED
      BY <3>1, <3>2
  <2> QED
    BY <2>3
<1> QED
  BY <1>1, <1>8, <1>9, WalkersFaithful

\* The directory of the walker at work is read as it is (OpenDir).
LEMMA OpenDirFaithful ==
    ASSUME PatternsAreMeant, WalkInv, Faithful, OpenDir
    PROVE  Faithful'
<1> DEFINE candidate == NextCandidate(Head(stack))
           node == candidate.route.next
           dir == candidate.route.dir
           place == Resolve(tree, Located(dir))
           listing == Listing(tree, dir, place)
           route == Route(node + 1, dir, candidate.route.literals)
<1>1. /\ Starting /\ candidate.some /\ open = <<>> /\ stack # <<>> /\ recursive' = recursive
      /\ nodes[node].kind = "recursive" => IsLeaf(node)
      /\ IF IsDir(tree, place) THEN open' = <<listing>> /\ stack' = <<route>> \o Tail(stack)
         ELSE open' = <<>> /\ stack' = Tail(stack)
      /\ UNCHANGED <<tree, wanted, nodes, sometime>>
  BY DEF OpenDir, Starting, Walking, world
<1>2. /\ PatternsAreRead /\ WalkTyped /\ outcome # "refused" /\ stack \in Seq(RouteSet)
      /\ Tidy(tree) /\ TreeKnown /\ NowWas
  BY <1>1 DEF PatternsAreMeant, WalkInv, WalkTyped, Starting, Walking, Faithful
<1>3. Stands(candidate)
  BY <1>1, <1>2, CandidateStands
<1>4. Firm(tree, wanted, dir)
  <2>1. 1 \in DOMAIN stack /\ Head(stack) = stack[1]
    BY <1>1, <1>2, TailSteps
  <2>2. Firm(tree, wanted, Head(stack).dir)
    BY <2>1 DEF Faithful, RoutesFirm
  <2> QED
    BY <1>1, <1>2, <2>2, CandidateFirm
<1>5. /\ node \in DOMAIN nodes /\ At[node] = Len(dir) /\ dir \in Seq(Name) /\ nodes[node].kind # "literals"
      /\ AheadOf(At, nodes, wanted, node) /\ node \in Nat \ {0}
      /\ route \in RouteSet /\ route.dir = dir /\ route.next = node + 1
  BY <1>1, <1>3 DEF Stands, RouteSet, Route
<1> HIDE DEF candidate, node, dir, route
<1>6. \A i \in DOMAIN recursive' : Firm(tree, wanted, recursive'[i].dir) /\ LeftTo(recursive'[i])
  BY <1>1 DEF Faithful, RoutesFirm, LeftNodes
<1>7. \A i \in DOMAIN Tail(stack) : Firm(tree, wanted, Tail(stack)[i].dir)
  BY <1>1, <1>2, TailsFirm
<1>8. CASE ~IsDir(tree, place)
  BY <1>1, <1>6, <1>7, <1>8, WalkersFaithful
<1>9. CASE IsDir(tree, place)
  <2>1. place = Promise!Coded!Spot(tree, Promise!Coded!Base(wanted), dir) /\ place \in Seq(Name)
    BY <1>2, <1>5, LocatedLeads
  <2>2. open' = <<listing>> /\ stack' = <<route>> \o Tail(stack)
    BY <1>1, <1>9
  <2> HIDE DEF place
  <2>3. /\ listing.dir = dir /\ listing.place = place
        /\ listing.must = Names(tree, place) /\ DOMAIN listing.may = Names(tree, place)
        /\ \A name \in Names(tree, place) : listing.may[name] = tree[Append(place, name)]
    BY <1>2, <1>5, <1>9, <2>1, ListingRead
  <2> HIDE DEF listing
  <2>4. PICK first, at, from : first = listing /\ at = dir /\ from = node /\ from \in Nat
    BY <1>5
  <2>5. /\ Len(stack') = Len(stack) /\ stack' \in Seq(RouteSet) /\ stack'[1] = route
        /\ \A i \in 2 .. Len(stack) : stack'[i] = stack[i]
    BY <1>1, <1>2, <1>5, <2>2, HeadSteps
  <2>6. Len(stack) \in Nat \ {0} /\ DOMAIN stack = 1 .. Len(stack) /\ DOMAIN stack' = 1 .. Len(stack)
    BY <1>1, <1>2, <2>5, TailSteps
  <2>7. stack' # <<>> /\ open' # <<>> /\ \A j \in DOMAIN open' : open'[j] = first
    <3>1. stack' # <<>>
      BY <2>5, <2>6
    <3>2. open' = <<first>>
      BY <2>2, <2>4
    <3> QED
      BY <3>1, <3>2
  <2>8. \A i \in DOMAIN stack' : Firm(tree, wanted, stack'[i].dir)
    <3> SUFFICES ASSUME NEW i \in DOMAIN stack'
                 PROVE  Firm(tree, wanted, stack'[i].dir)
      OBVIOUS
    <3>1. CASE i = 1
      BY <1>4, <1>5, <2>5, <3>1
    <3>2. CASE i # 1
      <4>1. i \in 2 .. Len(stack) /\ i \in DOMAIN stack
        BY <2>6, <3>2
      <4> QED
        BY <2>5, <4>1 DEF Faithful, RoutesFirm
    <3> QED
      BY <3>1, <3>2
  <2>9. RoutesFirm' /\ LeftNodes' /\ TreeKnown' /\ NowWas'
    BY <1>1, <1>6, <2>8, WalkersFaithful
  <2>10. WalksGo'
    BY <2>7 DEF WalksGo
  <2>11. \A name \in Results(at)' : NameFits(nodes[from], name) /\ from = Len(nodes)
    <3>1. stack'[1].next - 1 = from
      BY <1>5, <2>4, <2>5
    <3>2. NodeAt(1)' = from
      BY <2>7, <3>1 DEF NodeAt
    <3> QED
      BY <1>1, <2>7, <3>2 DEF Results, IsLeaf
  <2> DEFINE results == Results(at)'
  <2> HIDE DEF results
  <2>12. ASSUME NEW name \in Names(tree, place) \cap results
         PROVE  Append(at, name) \in Promise!Coded!Matched(tree, wanted)
    <3>1. from \in 1 .. Len(nodes) /\ from = Len(nodes) /\ NameFits(nodes[from], name)
      BY <1>2, <1>5, <2>4, <2>11, <2>12, NodesLaid DEF results
    <3>2. name \in Names(tree, Promise!Coded!Spot(tree, Promise!Coded!Base(wanted), at))
      BY <2>1, <2>4, <2>12
    <3>3. /\ at \in Seq(Name) /\ At[from] = Len(at) /\ Firm(tree, wanted, at)
          /\ nodes[from].kind # "literals" /\ AheadOf(At, nodes, wanted, from)
      BY <1>4, <1>5, <2>4
    <3> QED
      BY <1>2, <3>1, <3>2, <3>3, LeafMatches DEF TreeKnown
  <2>13. Honest(tree, wanted, sometime, first, at, results)
    BY <1>2, <2>1, <2>3, <2>4, <2>12, OpenedIsHonest DEF TreeKnown, NowWas
  <2>14. ListingsHonest'
    <3>1. first.dir = at
      BY <2>3, <2>4
    <3>2. Whole(stack', recursive', first) = at
      BY <2>7, <3>1 DEF Whole
    <3>3. ASSUME NEW j \in DOMAIN open'
          PROVE  Honest(tree', wanted', sometime', open'[j], Whole(stack', recursive', open'[j]), Results(at)')
      <4>1. open'[j] = first
        BY <2>7
      <4> QED
        BY <1>1, <2>13, <3>2, <4>1 DEF results
    <3>4. \A j \in DOMAIN open' : open'[j].dir = at
      BY <2>7, <3>1
    <3> QED
      BY <3>3, <3>4 DEF ListingsHonest
  <2> QED
    BY <2>9, <2>10, <2>14 DEF Faithful
<1> QED
  BY <1>8, <1>9

\* A directory stays firm with one of its directories behind it.
LEMMA ForkFirm ==
    ASSUME NEW files, NEW pattern, NEW dir \in Seq(Name), Firm(files, pattern, dir), NEW name \in Name,
           name \in Onward(files, pattern, Len(dir) + 1, dir),
           NEW child, child = Append(Promise!Coded!Spot(files, Promise!Coded!Base(pattern), dir), name),
           child \in DOMAIN files, files[child].kind # "file"
    PROVE  Firm(files, pattern, Append(dir, name))
<1> DEFINE full == Append(dir, name)
           more == <<name>>
<1>1. /\ full \in Seq(Name) /\ Len(full) = Len(dir) + 1 /\ full[Len(dir) + 1] = name /\ Len(dir) \in Nat
      /\ \A i \in 1 .. Len(dir) : full[i] = dir[i]
  BY AppendSteps
<1>2. more \in Seq(Name) /\ Len(more) = 1 /\ more[1] = name
  OBVIOUS
<1> HIDE DEF full, more
<1>3. Leads(dir, full)
  BY <1>1 DEF Leads
<1>4. Upto(full, Len(dir)) = dir
  BY <1>1, <1>3, LeadsWhole
<1>5. Together(full, dir, more)
  BY <1>1, <1>2 DEF Together
<1>6. Place(files, pattern, full, Len(dir)) = Promise!Coded!Spot(files, Promise!Coded!Base(pattern), dir)
  BY <1>4 DEF Place
<1>7. ASSUME NEW k \in (Len(dir) + 1) .. Len(full)
      PROVE  /\ full[k] \in Onward(files, pattern, k, Upto(full, k - 1))
             /\ ~Promise!Coded!AsWritten(pattern.components[k]) =>
                  LET there == Append(Place(files, pattern, full, k - 1), full[k])
                  IN  there \in DOMAIN files /\ files[there].kind # "file"
  <2>1. k = Len(dir) + 1 /\ k - 1 = Len(dir)
    BY <1>1
  <2>2. full[k] = name /\ Upto(full, k - 1) = dir /\ Append(Place(files, pattern, full, k - 1), full[k]) = child
    BY <1>1, <1>4, <1>6, <2>1
  <2> QED
    BY <2>1, <2>2
<1> QED
  BY <1>1, <1>2, <1>5, <1>7, FirmFurther DEF full

\* A directory whose name fits is one that the component stands for (next_from_dir).
LEMMA ReadForkFirm ==
    ASSUME PatternsAreMeant, WalkTyped, outcome # "refused",
           NEW route, NEW reading, NEW node, Reads(route, reading, node),
           Firm(tree, wanted, route.dir), NEW name \in DOMAIN reading.may, name \in FileNames,
           NameFits(nodes[node], name), reading.may[name].kind # "file"
    PROVE  Firm(tree, wanted, Append(route.dir, name))
<1> DEFINE dir == route.dir
           spot == Promise!Coded!Spot(tree, Promise!Coded!Base(wanted), dir)
           child == Append(spot, name)
           k == Len(dir) + 1
<1>1. /\ dir \in Seq(Name) /\ reading \in Listings /\ node \in 1 .. Len(nodes) /\ nodes[node].kind # "literals"
      /\ At[node] = Len(dir) /\ AheadOf(At, nodes, wanted, node) /\ ListingOf(tree, wanted, dir, reading)
      /\ Tidy(tree)
  BY DEF Reads, RouteSet, WalkTyped
<1>2. name \in Name /\ Readable(wanted) /\ PatternsAreRead
  BY <1>1, ListedOnce DEF WalkTyped, PatternsAreMeant
<1>3. Firm(tree, wanted, dir)
  OBVIOUS
<1> HIDE DEF dir
<1>4. reading.place = spot
  BY <1>1 DEF ListingOf
<1>5. child \in DOMAIN tree /\ tree[child].kind # "file"
  BY <1>1, <1>4 DEF ListingOf
<1>6. spot \in Seq(Name)
  BY <1>1, <1>2, PatternTyped, SpotSteps
<1>7. Stood(At[node] + 1, name) /\ ~Promise!Coded!AsWritten(wanted.components[At[node] + 1])
  BY <1>1, NodeFits DEF AheadOf
<1>8. Stood(k, name) /\ ~Promise!Coded!AsWritten(wanted.components[k])
  BY <1>1, <1>7
<1> HIDE DEF spot, k
<1>9. name \in Names(tree, spot)
  BY <1>1, <1>2, <1>5, <1>6, NamesAre
<1>10. name \in Onward(tree, wanted, k, dir)
  BY <1>8, <1>9, OnwardAre DEF Stood, spot
<1>11. Firm(tree, wanted, Append(dir, name))
  BY <1>1, <1>2, <1>3, <1>5, <1>10, ForkFirm DEF spot, k
<1> QED
  BY <1>11 DEF dir

\* An entry is listed, and a directory whose name fits is left on the queue (NextEntry).
LEMMA NextEntryFaithful ==
    ASSUME PatternsAreMeant, WalkInv, Faithful, NextEntry
    PROVE  Faithful'
<1> DEFINE route == Head(stack)
           node == route.next - 1
           reading == open[1]
<1>1. /\ outcome = "walking" /\ stack # <<>> /\ open # <<>> /\ Reading /\ recursive' = recursive
      /\ UNCHANGED <<tree, wanted, nodes, sometime>>
  BY DEF NextEntry, Reading, Walking, world
<1>2. PatternsAreRead /\ WalkTyped /\ outcome # "refused" /\ RoutesFirm /\ ListingsHonest
  BY <1>1 DEF PatternsAreMeant, WalkInv, Faithful
<1>3. Reads(route, reading, node)
  BY <1>1, <1>2, ReadingReads
<1>4. PICK name \in DOMAIN reading.may :
        /\ open' = <<Listed(name, reading)>>
        /\ \/ stack' = stack
           \/ /\ stack' = Append(stack, Fork(route, name))
              /\ NameFits(nodes[node], name) /\ MayBeDir(reading.may[name])
  BY DEF NextEntry
<1> HIDE DEF route, node, reading
<1>5. PICK r, first, at : r = reading /\ first = Listed(name, reading) /\ at = reading.dir
  OBVIOUS
<1>6. /\ stack \in Seq(RouteSet) /\ route \in RouteSet /\ r \in Listings /\ r.dir = at /\ route.dir = at
      /\ at \in Seq(Name) /\ \A j \in DOMAIN open : j = 1
  BY <1>3, <1>5 DEF Reads, RouteSet
<1>7. first.dir = at /\ name \in Name
  BY <1>5, <1>6, ListedOnce
<1>8. 1 \in DOMAIN open /\ open[1] = r /\ 1 \in DOMAIN stack /\ route = stack[1]
  BY <1>1, <1>2, <1>3, <1>5, TailSteps DEF reading, WalkTyped, Reads
<1>9. Honest(tree, wanted, sometime, r, at, Results(at))
  <2>1. Whole(stack, recursive, r) = at
    BY <1>1, <1>6 DEF Whole
  <2> QED
    BY <1>2, <1>6, <1>8, <2>1 DEF ListingsHonest
<1> DEFINE fork == Fork(route, name)
<1>10. fork \in RouteSet /\ fork.dir = Append(at, name)
  <2>1. Append(at, name) \in Seq(Name)
    BY <1>6, <1>7, AppendSteps
  <2> QED
    BY <1>6, <2>1 DEF Fork, Route, RouteSet
<1>11. stack' = Append(stack, fork) => Firm(tree, wanted, fork.dir)
  <2> SUFFICES ASSUME stack' = Append(stack, fork)
               PROVE  Firm(tree, wanted, fork.dir)
    OBVIOUS
  <2>1. Firm(tree, wanted, route.dir)
    BY <1>2, <1>8 DEF RoutesFirm
  <2>2. name \in FileNames
    BY <1>5, <1>9 DEF Honest
  <2>3. Len(Append(stack, fork)) # Len(stack)
    BY <1>6, <1>10, AppendSteps
  <2>4. NameFits(nodes[node], name) /\ reading.may[name].kind # "file"
    BY <1>4, <2>3 DEF MayBeDir
  <2>5. Firm(tree, wanted, Append(route.dir, name))
    BY <1>2, <1>3, <2>1, <2>2, <2>4, ReadForkFirm
  <2> QED
    BY <1>6, <1>10, <2>5
<1> HIDE DEF fork
<1>12. PICK n \in Nat : n = Len(stack) /\ DOMAIN stack = 1 .. n
  BY <1>6
<1>13. /\ stack' # <<>> /\ stack'[1] = stack[1]
       /\ \A i \in DOMAIN stack' : (i \in DOMAIN stack /\ stack'[i] = stack[i]) \/ Firm(tree, wanted, stack'[i].dir)
  <2>1. CASE stack' = stack
    BY <1>1, <2>1
  <2>2. CASE stack' = Append(stack, fork)
    <3>1. /\ DOMAIN stack' = 1 .. (n + 1) /\ stack'[n + 1] = fork /\ \A i \in 1 .. n : stack'[i] = stack[i]
      BY <1>6, <1>10, <1>12, <2>2, AppendSteps
    <3>2. 1 \in DOMAIN stack'
      BY <3>1
    <3>3. \A i \in 1 .. (n + 1) : i \in 1 .. n \/ i = n + 1
      OBVIOUS
    <3> QED
      BY <1>8, <1>11, <1>12, <2>2, <3>1, <3>2, <3>3
  <2> QED
    BY <1>4, <2>1, <2>2 DEF fork
<1>14. \A i \in DOMAIN stack' : Firm(tree, wanted, stack'[i].dir)
  BY <1>2, <1>13 DEF RoutesFirm
<1>15. \A i \in DOMAIN recursive' : Firm(tree, wanted, recursive'[i].dir) /\ LeftTo(recursive'[i])
  BY <1>1 DEF Faithful, RoutesFirm, LeftNodes
<1>16. RoutesFirm' /\ LeftNodes' /\ TreeKnown' /\ NowWas'
  BY <1>1, <1>14, <1>15, WalkersFaithful
<1>17. WalksGo'
  BY <1>13 DEF WalksGo
<1>18. open' # <<>> /\ \A j \in DOMAIN open' : open'[j] = first
  <2>1. open' = <<first>>
    BY <1>4, <1>5
  <2> QED
    BY <2>1
<1>19. Results(at)' = Results(at)
  <2>1. NodeAt(1)' = NodeAt(1)
    BY <1>1, <1>13, <1>18 DEF NodeAt
  <2> QED
    BY <1>1, <1>13, <2>1 DEF Results, IsLeaf
<1>20. Honest(tree, wanted, sometime, first, at, Results(at))
  BY <1>5, <1>6, <1>9, ListedIsHonest
<1>21. ListingsHonest'
  <2>1. Whole(stack', recursive', first) = at
    BY <1>7, <1>13 DEF Whole
  <2>2. ASSUME NEW j \in DOMAIN open'
        PROVE  /\ Honest(tree', wanted', sometime', open'[j], Whole(stack', recursive', open'[j]), Results(at)')
               /\ open'[j].dir = at
    <3>1. open'[j] = first
      BY <1>18
    <3> QED
      BY <1>1, <1>7, <1>19, <1>20, <2>1, <3>1
  <2> QED
    BY <2>2 DEF ListingsHonest
<1> QED
  BY <1>16, <1>17, <1>21 DEF Faithful

\* A directory that a walk behind ** opens is honest.
LEMMA WalkOpensHonest ==
    ASSUME PatternsAreMeant, WalkTyped, outcome # "refused", TreeKnown, NowWas, Promise!Coded!HasRecursion(wanted),
           NEW walker \in LeftSet, LeftTo(walker), Len(walker.dir) = First(wanted) - 1,
           Firm(tree, wanted, walker.dir), NEW base, base = Promise!Coded!Base(wanted) \o walker.dir,
           NEW path \in Seq(Name), WalksOn(tree, base, path),
           NEW place \in Seq(Name), place = Promise!Coded!Spot(tree, base, path),
           NEW listing, listing.place = place,
           listing.must = Names(tree, place), DOMAIN listing.may = Names(tree, place),
           \A name \in Names(tree, place) : listing.may[name] = tree[Append(place, name)],
           NEW results, \A name \in results : PathFits(Regexes(walker), Append(path, name)),
           NEW whole, whole = walker.dir \o path
    PROVE  Honest(tree, wanted, sometime, listing, whole, results)
<1> DEFINE dir == walker.dir
<1>1. Tidy(tree) /\ Readable(wanted) /\ PatternsAreRead /\ dir \in Seq(Name)
  BY DEF WalkTyped, PatternsAreMeant, LeftSet
<1>2. base \in Seq(Name)
  <2>1. base = Promise!Coded!Base(wanted) \o dir
    OBVIOUS
  <2> HIDE DEF dir
  <2>2. Promise!Coded!Base(wanted) \in Seq(Name)
    BY <1>1, PatternTyped
  <2>3. Promise!Coded!Base(wanted) \o dir \in Seq(Name)
    BY <1>1, <2>2, ConcatTogether
  <2> QED
    BY <2>1, <2>3
<1>3. ASSUME NEW name \in Names(tree, place) \cap results, tree[Append(place, name)].kind = "file"
      PROVE  Append(whole, name) \in Promise!Coded!Matched(tree, wanted)
  <2> DEFINE further == Append(path, name)
  <2>1. name \in Name
    BY <1>1, <1>3, NamesAre
  <2>2. name \in Promise!Coded!On(tree, base, path)
    BY <1>1, <1>2, <1>3, EntryGoesOn
  <2>3. further \in Seq(Name)
    BY <2>1, AppendSteps
  <2>4. WalksOn(tree, base, further)
    BY <2>1, <2>2, WalkFurther
  <2>5. PathFits(Regexes(walker), further)
    BY <1>3
  <2> HIDE DEF further
  <2>6. WalksOn(tree, Promise!Coded!Base(wanted) \o walker.dir, further)
    BY <2>4
  <2>7. walker.dir \o further \in Promise!Coded!Matched(tree, wanted)
    BY <1>1, <2>3, <2>5, <2>6, VisitMatches DEF TreeKnown
  <2>8. whole = dir \o path
    OBVIOUS
  <2>9. dir \o further \in Promise!Coded!Matched(tree, wanted)
    BY <2>7
  <2> HIDE DEF dir
  <2>10. dir \o further = Append(whole, name)
    BY <1>1, <2>1, <2>8, AppendFurther DEF further
  <2> QED
    BY <2>9, <2>10
<1> QED
  BY <1>1, <1>3, OpenedIsHonest DEF TreeKnown, NowWas

\* A walk behind ** starts, or is dropped (StartWalk).
LEMMA StartWalkFaithful ==
    ASSUME PatternsAreMeant, WalkInv, Faithful, StartWalk
    PROVE  Faithful'
<1> DEFINE walker == Head(recursive)
           dir == walker.dir
           place == Resolve(tree, Located(dir))
           none == <<>>
           listing == Listing(tree, none, place)
           base == Promise!Coded!Base(wanted) \o dir
<1>1. /\ stack = <<>> /\ stack' = <<>> /\ open = <<>> /\ recursive # <<>> /\ outcome = "walking"
      /\ IF IsDir(tree, place) THEN open' = <<listing>> /\ recursive' = recursive
         ELSE open' = <<>> /\ recursive' = Tail(recursive)
      /\ UNCHANGED <<tree, wanted, nodes, sometime>>
  BY DEF StartWalk, Recurring, world
<1>2. /\ PatternsAreRead /\ WalkTyped /\ outcome # "refused" /\ recursive \in Seq(LeftSet)
      /\ Tidy(tree) /\ TreeKnown /\ NowWas /\ Readable(wanted)
  BY <1>1 DEF PatternsAreMeant, WalkInv, WalkTyped, Faithful
<1>3. 1 \in DOMAIN recursive /\ Head(recursive) = recursive[1] /\ recursive[1] \in LeftSet
  BY <1>1, <1>2, TailSteps
<1>4. walker \in LeftSet /\ dir \in Seq(Name)
  BY <1>3 DEF LeftSet
<1>5. /\ Firm(tree, wanted, dir) /\ LeftTo(walker) /\ Promise!Coded!HasRecursion(wanted) /\ Len(dir) = First(wanted) - 1
  BY <1>3 DEF Faithful, RoutesFirm, LeftNodes, WalkInv, LeftAtFirst
<1>6. \A i \in DOMAIN stack' : Firm(tree, wanted, stack'[i].dir)
  BY <1>1
<1>7. CASE ~IsDir(tree, place)
  <2>1. \A i \in DOMAIN recursive' : Firm(tree, wanted, recursive'[i].dir) /\ LeftTo(recursive'[i])
    BY <1>1, <1>2, <1>7, TailsFirm
  <2> QED
    BY <1>1, <1>6, <1>7, <2>1, WalkersFaithful
<1>8. CASE IsDir(tree, place)
  <2>1. open' = <<listing>> /\ recursive' = recursive
    BY <1>1, <1>8
  <2>2. \A i \in DOMAIN recursive' : Firm(tree, wanted, recursive'[i].dir) /\ LeftTo(recursive'[i])
    BY <2>1 DEF Faithful, RoutesFirm, LeftNodes
  <2>3. RoutesFirm' /\ LeftNodes' /\ TreeKnown' /\ NowWas'
    BY <1>1, <1>6, <2>2, WalkersFaithful
  <2>4. PICK w, at, b, first : w = walker /\ at = dir /\ b = base /\ first = listing
    OBVIOUS
  <2>5. w = Head(recursive) /\ w = Head(recursive)' /\ w.dir = at /\ b = Promise!Coded!Base(wanted) \o at
    BY <2>1, <2>4
  <2> HIDE DEF walker, dir, base
  <2>6. place = Promise!Coded!Spot(tree, Promise!Coded!Base(wanted), at) /\ place \in Seq(Name)
    BY <1>2, <1>4, <2>4, LocatedLeads
  <2>7. none \in Seq(Name)
    OBVIOUS
  <2> HIDE DEF place, none
  <2>8. /\ first.dir = none /\ first.place = place
        /\ first.must = Names(tree, place) /\ DOMAIN first.may = Names(tree, place)
        /\ \A name \in Names(tree, place) : first.may[name] = tree[Append(place, name)]
    BY <1>2, <1>4, <1>8, <2>4, <2>6, <2>7, ListingRead
  <2>9. b \in Seq(Name) /\ at \in Seq(Name)
    <3>1. Promise!Coded!Base(wanted) \in Seq(Name)
      BY <1>2, PatternTyped
    <3>2. Promise!Coded!Base(wanted) \o at \in Seq(Name)
      BY <1>4, <2>4, <3>1, ConcatTogether
    <3> QED
      BY <1>4, <2>4, <2>5, <3>2
  <2>10. place = Promise!Coded!Spot(tree, b, none) /\ WalksOn(tree, b, none)
    <3>1. Promise!Coded!Spot(tree, Promise!Coded!Base(wanted), at) = Promise!Coded!Spot(tree, b, none)
      <4>1. at \o none = at /\ Promise!Coded!Base(wanted) \in Seq(Name)
        BY <1>2, <2>9, PatternTyped DEF none
      <4>2. Promise!Coded!Spot(tree, Promise!Coded!Base(wanted) \o at, none)
              = Promise!Coded!Spot(tree, Promise!Coded!Base(wanted), at \o none)
        BY <2>7, <2>9, <4>1, SpotFurther, ZenonT(30)
      <4> QED
        BY <2>5, <4>1, <4>2
    <3>2. WalksOn(tree, b, none)
      BY DEF WalksOn, none
    <3> QED
      BY <2>6, <3>1, <3>2
  <2>11. PICK start : start = none
    OBVIOUS
  <2>12. open' # <<>> /\ DOMAIN open' = {1} /\ open'[1] = first
    <3>1. open' = <<first>>
      BY <2>1, <2>4
    <3> QED
      BY <3>1
  <2>13. start \in Seq(Name) /\ Len(start) = 0 /\ Upto(start, 0) = start /\ first.dir = start
    BY <2>7, <2>8, <2>11 DEF none, Upto
  <2>14. WalksGo'
    <3>1. ASSUME NEW j \in DOMAIN open'
          PROVE  /\ Len(open'[j].dir) = j - 1 /\ WalksOn(tree, b, open'[j].dir)
                 /\ \A i \in 1 .. j : open'[i].dir = Upto(open'[j].dir, i - 1)
      <4>1. j = 1 /\ open'[j] = first
        BY <2>12
      <4>2. \A i \in 1 .. j : i = 1
        BY <4>1
      <4> QED
        BY <2>10, <2>11, <2>13, <4>1, <4>2
    <3>2. Chain(tree, b, open')
      BY <3>1 DEF Chain
    <3>3. (Promise!Coded!Base(wanted) \o Head(recursive).dir)' = b
      BY <1>1, <2>5
    <3> QED
      BY <1>1, <3>2, <3>3 DEF WalksGo
  <2> DEFINE results == Results(start)'
  <2>15. \A name \in results : PathFits(Regexes(w), Append(start, name))
    <3>1. Regexes(w)' = Regexes(w)
      BY <1>1 DEF Regexes
    <3> QED
      BY <1>1, <2>5, <3>1 DEF Results
  <2> HIDE DEF results
  <2>16. /\ w \in LeftSet /\ LeftTo(w) /\ Len(w.dir) = First(wanted) - 1 /\ Firm(tree, wanted, w.dir)
         /\ b = Promise!Coded!Base(wanted) \o w.dir /\ place = Promise!Coded!Spot(tree, b, start) /\ WalksOn(tree, b, start)
    BY <1>4, <1>5, <2>4, <2>5, <2>10, <2>11 DEF dir
  <2>17. PICK whole : whole = w.dir \o start
    OBVIOUS
  <2>18. Honest(tree, wanted, sometime, first, whole, results)
    BY <1>2, <1>5, <2>6, <2>8, <2>13, <2>15, <2>16, <2>17, WalkOpensHonest
  <2>19. Whole(stack', recursive', first) = whole
    BY <1>1, <2>5, <2>13, <2>17 DEF Whole
  <2>20. ListingsHonest'
    BY <1>1, <2>12, <2>13, <2>18, <2>19 DEF ListingsHonest, results
  <2> QED
    BY <2>3, <2>14, <2>20 DEF Faithful
<1> QED
  BY <1>7, <1>8

\* A directory that the walk has read is left (EndOfWalk).
LEMMA EndOfWalkFaithful ==
    ASSUME PatternsAreMeant, WalkInv, Faithful, EndOfWalk
    PROVE  Faithful'
<1>1. /\ stack = <<>> /\ stack' = <<>> /\ open # <<>> /\ recursive # <<>>
      /\ open' = Front(open) /\ recursive' = IF Len(open) = 1 THEN Tail(recursive) ELSE recursive
      /\ UNCHANGED <<tree, wanted, nodes, sometime>>
  BY DEF EndOfWalk, Recurring, world
<1>2. WalkTyped /\ open \in Seq(Listings) /\ WalksGo /\ ListingsHonest
  BY DEF WalkInv, WalkTyped, Faithful
<1>3. PICK listing \in Listings : TRUE
  BY <1>1, <1>2, TailSteps, SMTT(20)
<1>4. PICK m \in Nat \ {0} :
        /\ m = Len(open) /\ DOMAIN open = 1 .. m /\ open' \in Seq(Listings)
        /\ Len(open') = m - 1 /\ DOMAIN open' = 1 .. (m - 1)
        /\ \A i \in 1 .. (m - 1) : open'[i] = open[i]
  <2> DEFINE front == Front(open)
  <2>1. /\ Len(open) \in Nat \ {0} /\ DOMAIN open = 1 .. Len(open)
        /\ front \in Seq(Listings) /\ Len(front) = Len(open) - 1 /\ DOMAIN front = 1 .. (Len(open) - 1)
        /\ \A i \in 1 .. (Len(open) - 1) : front[i] = open[i]
    BY <1>1, <1>2, <1>3, LastSteps
  <2>2. open' = front
    BY <1>1
  <2> HIDE DEF front
  <2> QED
    BY <2>1, <2>2, Zenon
<1>5. \A i \in DOMAIN stack' : Firm(tree, wanted, stack'[i].dir)
  BY <1>1
<1>6. \A i \in DOMAIN recursive' : Firm(tree, wanted, recursive'[i].dir) /\ LeftTo(recursive'[i])
  <2>1. CASE recursive' = Tail(recursive)
    BY <1>1, <1>2, <2>1, TailsFirm
  <2>2. CASE recursive' = recursive
    BY <2>2 DEF Faithful, RoutesFirm, LeftNodes
  <2> QED
    BY <1>1, <2>1, <2>2
<1>7. RoutesFirm' /\ LeftNodes' /\ TreeKnown' /\ NowWas' /\ (open' = <<>> => Faithful')
  BY <1>1, <1>5, <1>6, WalkersFaithful
<1>8. CASE m = 1
  <2>1. open' = <<>>
    BY <1>4, <1>8
  <2> QED
    BY <1>7, <2>1
<1>9. CASE m # 1
  <2>1. recursive' = recursive
    BY <1>1, <1>4, <1>9
  <2>2. \A i \in DOMAIN open' : i \in DOMAIN open /\ open'[i] = open[i]
    BY <1>4
  <2>3. WalksGo'
    <3> DEFINE base == Promise!Coded!Base(wanted) \o Head(recursive).dir
    <3>1. Chain(tree, base, open)
      BY <1>1, <1>2 DEF WalksGo
    <3>2. base' = base
      BY <1>1, <2>1
    <3> HIDE DEF base
    <3>3. ASSUME NEW j \in DOMAIN open'
          PROVE  /\ Len(open'[j].dir) = j - 1 /\ WalksOn(tree, base, open'[j].dir)
                 /\ \A i \in 1 .. j : open'[i].dir = Upto(open'[j].dir, i - 1)
      <4>1. \A i \in 1 .. j : i \in DOMAIN open'
        BY <1>4
      <4> QED
        BY <2>2, <3>1, <4>1 DEF Chain
    <3>4. Chain(tree, base, open')
      BY <3>3 DEF Chain
    <3>5. Chain(tree', base', open')
      BY <1>1, <3>2, <3>4
    <3> QED
      BY <3>5 DEF WalksGo, base
  <2>4. ListingsHonest'
    <3>1. ASSUME NEW j \in DOMAIN open'
          PROVE  Honest(tree, wanted, sometime, open[j], Whole(stack, recursive, open[j]), Results(open[j].dir))'
      <4>1. PICK listed, at : listed = open[j] /\ listed = open'[j] /\ j \in DOMAIN open /\ at = listed.dir
        BY <2>2
      <4>2. Honest(tree, wanted, sometime, listed, Whole(stack, recursive, listed), Results(at))
        BY <1>2, <4>1 DEF ListingsHonest
      <4>3. Results(at)' = Results(at)
        BY <1>1, <2>1 DEF Results, Regexes
      <4>4. Whole(stack, recursive, listed)' = Whole(stack, recursive, listed)
        BY <1>1, <2>1
      <4>5. Honest(tree, wanted, sometime, listed, Whole(stack, recursive, listed), Results(at))'
        BY <1>1, <4>2, <4>3, <4>4
      <4>6. open'[j].dir = at
        BY <4>1
      <4> QED
        BY <4>1, <4>5, <4>6
    <3> QED
      BY <3>1 DEF ListingsHonest
  <2> QED
    BY <1>7, <2>3, <2>4 DEF Faithful
<1> QED
  BY <1>8, <1>9

\* A directory that the walk opens is one that it goes on by.
LEMMA OpenedGoesOn ==
    ASSUME PatternsAreRead, WalkInv, WalksGo, NEW m, NEW reading, NEW whole, Recurs(reading, m, whole),
           NEW base, base = Promise!Coded!Base(wanted) \o Head(recursive).dir,
           NEW name \in DOMAIN reading.may, ~Skips(name, reading), IsDir(tree, GoesTo(name, reading))
    PROVE  name \in Name /\ name \in Promise!Coded!On(tree, base, reading.dir)
<1> DEFINE below == reading.dir
           spot == reading.place
           child == Append(spot, name)
<1>1. /\ reading \in Listings /\ below \in Seq(Name) /\ spot \in Seq(Name) /\ Tidy(tree) /\ m \in 1 .. m
      /\ reading = open[m] /\ ListingOf(tree, wanted, whole, reading)
  BY DEF Recurs, WalkInv, WalkTyped
<1>2. name \in Name
  BY <1>1, ListedOnce
<1>3. base \in Seq(Name) /\ spot = Promise!Coded!Spot(tree, base, below)
  BY <1>1, WalkPlaces
<1>4. CASE reading.may[name].kind # "file"
  <2>1. Append(reading.place, name) \in DOMAIN tree /\ tree[Append(reading.place, name)] = reading.may[name]
    BY <1>1, <1>4 DEF ListingOf
  <2> QED
    BY <1>2, <2>1, OnFollowed
<1>5. CASE reading.may[name].kind = "file"
  <2>1. IsDir(tree, child)
    BY <1>5 DEF GoesTo, Followed
  <2>2. child # <<>>
    <3> HIDE DEF spot
    <3> QED
      BY <1>1, <1>2, AppendParts
  <2>3. child \in DOMAIN tree /\ tree[child].kind # "link"
    BY <2>1, <2>2 DEF IsDir
  <2> HIDE DEF below, spot
  <2>4. name \in Names(tree, spot)
    BY <1>1, <1>2, <2>3, NamesAre
  <2>5. name \in Promise!Coded!On(tree, base, below)
    BY <1>1, <1>3, <2>3, <2>4, EntryGoesOn
  <2> QED
    BY <1>2, <2>5 DEF below
<1> QED
  BY <1>4, <1>5

\* The chain of directories grows by one that the walk goes on by.
LEMMA ChainGrows ==
    ASSUME NEW files, NEW base, NEW listings, NEW m \in Nat \ {0}, DOMAIN listings = 1 .. m,
           Chain(files, base, listings), NEW dir \in Seq(Name), dir = listings[m].dir,
           NEW name \in Name, name \in Promise!Coded!On(files, base, dir),
           NEW more, DOMAIN more = 1 .. (m + 1),
           \A j \in 1 .. m : more[j].dir = listings[j].dir, more[m + 1].dir = Append(dir, name)
    PROVE  Chain(files, base, more)
<1> DEFINE further == Append(dir, name)
<1>1. m \in 1 .. m /\ m \in DOMAIN listings
  OBVIOUS
<1>2. Len(dir) = m - 1 /\ WalksOn(files, base, dir) /\ \A i \in 1 .. m : listings[i].dir = Upto(dir, i - 1)
  BY <1>1 DEF Chain
<1>3. further \in Seq(Name) /\ Len(further) = m /\ \A i \in 1 .. Len(dir) : further[i] = dir[i]
  BY <1>2, AppendSteps
<1>4. WalksOn(files, base, further)
  BY <1>2, WalkFurther
<1>5. more[m + 1].dir = further
  OBVIOUS
<1> HIDE DEF further
<1>6. Upto(further, m) = further /\ Upto(further, m - 1) = dir
  <2>1. Upto(further, Len(further)) = further
    BY <1>3, LeadsWhole, UptoSteps
  <2>2. Leads(dir, further)
    BY <1>2, <1>3 DEF Leads
  <2>3. Upto(further, Len(dir)) = dir
    BY <1>3, <2>2, LeadsWhole
  <2> QED
    BY <1>2, <1>3, <2>1, <2>3
<1>7. ASSUME NEW i \in 1 .. m
      PROVE  Upto(further, i - 1) = Upto(dir, i - 1)
  <2> DEFINE n == m - 1
             l == i - 1
  <2>1. n \in 0 .. Len(further) /\ l \in 0 .. n
    BY <1>3
  <2> HIDE DEF n, l
  <2>2. Upto(Upto(further, n), l) = Upto(further, l)
    BY <1>3, <2>1, UptoSteps
  <2> QED
    BY <1>6, <2>2 DEF n, l
<1>8. ASSUME NEW j \in 1 .. (m + 1)
      PROVE  /\ Len(more[j].dir) = j - 1 /\ WalksOn(files, base, more[j].dir)
             /\ \A i \in 1 .. j : more[i].dir = Upto(more[j].dir, i - 1)
  <2>1. CASE j \in 1 .. m
    <3>1. \A i \in 1 .. j : i \in 1 .. m
      BY <2>1
    <3>2. j \in DOMAIN listings
      BY <2>1
    <3> QED
      BY <2>1, <3>1, <3>2 DEF Chain
  <2>2. CASE j \notin 1 .. m
    <3>1. j = m + 1
      BY <2>2
    <3>2. more[j].dir = further /\ j - 1 = m
      BY <1>5, <3>1
    <3>3. ASSUME NEW i \in 1 .. j
          PROVE  more[i].dir = Upto(further, i - 1)
      <4>1. CASE i \in 1 .. m
        BY <1>2, <1>7, <4>1
      <4>2. CASE i \notin 1 .. m
        <5>1. i = m + 1 /\ i - 1 = m
          BY <3>1, <4>2
        <5> QED
          BY <1>6, <3>1, <3>2, <5>1
      <4> QED
        BY <4>1, <4>2
    <3> QED
      BY <1>3, <1>4, <3>2, <3>3
  <2> QED
    BY <2>1, <2>2
<1> QED
  BY <1>8 DEF Chain

\* An entry of the walk is listed, and the directory it leads to is opened (WalkEntry).
LEMMA WalkEntryFaithful ==
    ASSUME PatternsAreMeant, WalkInv, Faithful, WalkEntry
    PROVE  Faithful'
<1> DEFINE last == Last(open)
           walker == Head(recursive)
<1>1. /\ Recurring /\ open # <<>> /\ stack = <<>> /\ stack' = <<>> /\ recursive' = recursive
      /\ outcome = "walking" /\ UNCHANGED <<tree, wanted, nodes, sometime>>
  BY DEF WalkEntry, Recurring, world
<1>2. /\ PatternsAreRead /\ WalkTyped /\ outcome # "refused" /\ Tidy(tree) /\ Readable(wanted)
      /\ RoutesFirm /\ LeftNodes /\ WalksGo /\ ListingsHonest /\ TreeKnown /\ NowWas
  BY <1>1 DEF PatternsAreMeant, WalkInv, WalkTyped, Faithful
<1>3. PICK m, reading, w, at, whole, below :
        /\ m \in Nat /\ reading = last /\ w = walker /\ at = walker.dir /\ below = last.dir /\ whole = walker.dir \o last.dir
        /\ Recurs(reading, m, whole)
  <2>1. Recurs(last, Len(open), walker.dir \o last.dir) /\ Len(open) \in Nat
    BY <1>1, <1>2, RecurringRecurs DEF Recurs
  <2> QED
    BY <2>1
<1> HIDE DEF last, walker
<1>4. w = Head(recursive) /\ w = Head(recursive)' /\ w.dir = at /\ reading.dir = below /\ whole = at \o below
  BY <1>1, <1>3 DEF walker
<1>5. /\ m \in Nat \ {0} /\ DOMAIN open = 1 .. m /\ reading \in Listings /\ reading = open[m] /\ m \in 1 .. m
      /\ at \in Seq(Name) /\ below \in Seq(Name) /\ whole \in Seq(Name) /\ w \in LeftSet
      /\ Promise!Coded!HasRecursion(wanted) /\ Len(at) = First(wanted) - 1 /\ 1 \in DOMAIN recursive /\ w = recursive[1]
  <2>1. /\ m \in Nat \ {0} /\ DOMAIN open = 1 .. m /\ reading \in Listings /\ reading = open[m]
        /\ Head(recursive).dir \in Seq(Name) /\ reading.dir \in Seq(Name) /\ whole \in Seq(Name)
        /\ Promise!Coded!HasRecursion(wanted) /\ Len(Head(recursive).dir) = First(wanted) - 1
        /\ 1 \in DOMAIN recursive /\ Head(recursive) = recursive[1] /\ recursive \in Seq(LeftSet)
    BY <1>3 DEF Recurs
  <2>2. recursive[1] \in LeftSet
    BY <2>1
  <2> QED
    BY <1>4, <2>1, <2>2
<1>6. Firm(tree, wanted, at) /\ LeftTo(w)
  BY <1>2, <1>4, <1>5 DEF RoutesFirm, LeftNodes
<1>7. PICK base : base = Promise!Coded!Base(wanted) \o at
  OBVIOUS
<1>8. base = Promise!Coded!Base(wanted) \o Head(recursive).dir
  BY <1>4, <1>7
<1>9. Chain(tree, base, open) /\ base \in Seq(Name)
  <2>1. Chain(tree, base, open)
    BY <1>1, <1>2, <1>8 DEF WalksGo
  <2>2. base \in Seq(Name)
    BY <1>2, <1>3, <1>5, <1>8, WalkPlaces DEF Faithful
  <2> QED
    BY <2>1, <2>2
<1>10. PICK name \in DOMAIN reading.may : Enters(name, m, reading, whole)
  BY <1>1, <1>2, <1>3, WalkEntered
<1>11. PICK listed : listed = Listed(name, reading)
  OBVIOUS
<1>12. listed.dir = below /\ name \in Name
  BY <1>4, <1>5, <1>11, ListedOnce, SMTT(20)
<1>13. PICK n \in Nat : n = Len(open') /\ DOMAIN open' = 1 .. n /\ (n = m \/ n = m + 1)
  <2>1. open' \in Seq(Listings) /\ (Len(open') = m \/ Len(open') = m + 1)
    BY <1>5, <1>10, EnteredOpen
  <2>2. Len(open') \in Nat /\ DOMAIN open' = 1 .. Len(open')
    BY <2>1
  <2> QED
    BY <2>1, <2>2, Zenon
<1>14. (\A j \in 1 .. (m - 1) : open'[j] = open[j]) /\ open'[m] = listed
  BY <1>5, <1>10, <1>11, EnteredOpen
<1>15. \A j \in 1 .. m : open'[j].dir = open[j].dir
  <2> SUFFICES ASSUME NEW j \in 1 .. m
               PROVE  open'[j].dir = open[j].dir
    OBVIOUS
  <2>1. CASE j = m
    BY <1>4, <1>5, <1>12, <1>14, <2>1
  <2>2. CASE j # m
    <3>1. j \in 1 .. (m - 1)
      BY <1>5, <2>2
    <3> QED
      BY <1>14, <3>1
  <2> QED
    BY <2>1, <2>2
<1>16. \A i \in DOMAIN stack' : Firm(tree, wanted, stack'[i].dir)
  BY <1>1
<1>17. \A i \in DOMAIN recursive' : Firm(tree, wanted, recursive'[i].dir) /\ LeftTo(recursive'[i])
  BY <1>1, <1>2 DEF RoutesFirm, LeftNodes
<1>18. RoutesFirm' /\ LeftNodes' /\ TreeKnown' /\ NowWas'
  BY <1>1, <1>16, <1>17, WalkersFaithful
<1>19. n = m + 1 =>
         /\ name \in Promise!Coded!On(tree, base, below) /\ open'[m + 1].dir = Append(below, name)
  <2> SUFFICES ASSUME n = m + 1
               PROVE  name \in Promise!Coded!On(tree, base, below) /\ open'[m + 1].dir = Append(below, name)
    OBVIOUS
  <2>1. Len(open') = m + 1 /\ m + 1 # m
    BY <1>5, <1>13
  <2>2. /\ ~Skips(name, reading) /\ IsDir(tree, GoesTo(name, reading))
        /\ open'[m + 1].dir = Append(reading.dir, name)
    BY <1>10, <2>1 DEF Enters
  <2>3. name \in Promise!Coded!On(tree, base, reading.dir)
    BY <1>2, <1>3, <1>8, <2>2, OpenedGoesOn DEF Faithful
  <2> QED
    BY <1>4, <2>2, <2>3
<1>20. Chain(tree, base, open')
  <2>1. CASE n = m + 1
    <3>1. below = open[m].dir
      BY <1>4, <1>5
    <3> QED
      BY <1>5, <1>9, <1>12, <1>13, <1>15, <1>19, <2>1, <3>1, ChainGrows
  <2>2. CASE n = m
    <3> SUFFICES ASSUME NEW j \in 1 .. m
                 PROVE  /\ Len(open'[j].dir) = j - 1 /\ WalksOn(tree, base, open'[j].dir)
                        /\ \A i \in 1 .. j : open'[i].dir = Upto(open'[j].dir, i - 1)
      BY <1>13, <2>2 DEF Chain
    <3>1. j \in DOMAIN open /\ \A i \in 1 .. j : i \in 1 .. m
      BY <1>5
    <3>2. open'[j].dir = open[j].dir /\ \A i \in 1 .. j : open'[i].dir = open[i].dir
      BY <1>15, <3>1
    <3> QED
      BY <1>9, <3>1, <3>2 DEF Chain
  <2> QED
    BY <1>13, <2>1, <2>2
<1>21. WalksGo'
  <2>1. (Promise!Coded!Base(wanted) \o Head(recursive).dir)' = base
    BY <1>1, <1>4, <1>7
  <2> QED
    BY <1>1, <1>20, <2>1 DEF WalksGo
<1>22. \A dir : Results(dir)' = Results(dir)
  <2>1. Regexes(w)' = Regexes(w)
    BY <1>1 DEF Regexes
  <2> QED
    BY <1>1, <1>4, <2>1 DEF Results
<1>23. ASSUME NEW j \in 1 .. m
       PROVE  Honest(tree, wanted, sometime, open'[j], at \o open[j].dir, Results(open[j].dir))
  <2>1. Honest(tree, wanted, sometime, open[j], at \o open[j].dir, Results(open[j].dir))
    <3>1. Whole(stack, recursive, open[j]) = at \o open[j].dir
      BY <1>1, <1>4 DEF Whole
    <3> QED
      BY <1>2, <1>5, <3>1 DEF ListingsHonest
  <2>2. CASE j = m
    <3>1. Honest(tree, wanted, sometime, reading, at \o open[j].dir, Results(open[j].dir))
      BY <1>5, <2>1, <2>2
    <3>2. Honest(tree, wanted, sometime, Listed(name, reading), at \o open[j].dir, Results(open[j].dir))
      BY <1>5, <3>1, ListedIsHonest
    <3> QED
      BY <1>11, <1>14, <2>2, <3>2
  <2>3. CASE j # m
    <3>1. j \in 1 .. (m - 1)
      BY <1>5, <2>3
    <3> QED
      BY <1>14, <2>1, <3>1
  <2> QED
    BY <2>2, <2>3
<1>24. ASSUME n = m + 1
       PROVE  Honest(tree, wanted, sometime, open'[m + 1], at \o open'[m + 1].dir, Results(Append(below, name)))
  <2> DEFINE further == Append(below, name)
             more == open'[m + 1]
  <2>1. Len(open') = m + 1 /\ m + 1 # m
    BY <1>5, <1>13, <1>24
  <2>2. /\ ListingOf(tree, wanted, Append(whole, name), more)
        /\ DOMAIN more.may = more.must
        /\ more.must = Names(tree, Promise!Coded!Spot(tree, Promise!Coded!Base(wanted), Append(whole, name)))
        /\ \A other \in more.must : more.may[other] = tree[Append(more.place, other)]
    BY <1>10, <2>1 DEF Enters
  <2>3. further \in Seq(Name)
    BY <1>5, <1>12, AppendSteps
  <2>4. at \o further = Append(whole, name)
    <3>1. at \o Append(below, name) = Append(at \o below, name)
      BY <1>5, <1>12, AppendFurther
    <3> QED
      BY <1>4, <3>1
  <2>5. WalksOn(tree, base, further)
    <3>1. WalksOn(tree, base, below)
      <4>1. below = open[m].dir /\ m \in DOMAIN open
        BY <1>4, <1>5
      <4> QED
        BY <1>9, <4>1 DEF Chain
    <3> QED
      BY <1>5, <1>12, <1>19, <1>24, <3>1, WalkFurther
  <2>6. more.dir = further
    BY <1>19, <1>24
  <2> HIDE DEF further, more
  <2>7. PICK place : place = Promise!Coded!Spot(tree, base, further)
    OBVIOUS
  <2>8. place \in Seq(Name)
    BY <1>2, <1>9, <2>3, <2>7, SpotSteps
  <2>9. Promise!Coded!Spot(tree, Promise!Coded!Base(wanted), Append(whole, name)) = place
    <3>1. Promise!Coded!Base(wanted) \in Seq(Name)
      BY <1>2, PatternTyped
    <3>2. Promise!Coded!Spot(tree, Promise!Coded!Base(wanted) \o at, further)
            = Promise!Coded!Spot(tree, Promise!Coded!Base(wanted), at \o further)
      BY <1>5, <2>3, <3>1, SpotFurther
    <3> QED
      BY <1>7, <2>7, <2>4, <3>2
  <2>10. more.place = place
    BY <2>2, <2>9 DEF ListingOf
  <2>11. PICK f, results : f = further /\ results = Results(further)
    OBVIOUS
  <2>12. \A other \in results : PathFits(Regexes(w), Append(f, other))
    BY <1>1, <1>4, <2>11 DEF Results
  <2>13. PICK there : there = w.dir \o f
    OBVIOUS
  <2>14. /\ w \in LeftSet /\ LeftTo(w) /\ Len(w.dir) = First(wanted) - 1 /\ Firm(tree, wanted, w.dir)
         /\ base = Promise!Coded!Base(wanted) \o w.dir /\ place = Promise!Coded!Spot(tree, base, f) /\ WalksOn(tree, base, f)
    BY <1>4, <1>5, <1>6, <1>7, <2>5, <2>7, <2>11
  <2>15. PICK opened : opened = more
    OBVIOUS
  <2>16. /\ opened.place = place /\ opened.must = Names(tree, place) /\ DOMAIN opened.may = Names(tree, place)
         /\ \A other \in Names(tree, place) : opened.may[other] = tree[Append(place, other)]
    BY <2>2, <2>9, <2>10, <2>15
  <2>17. f \in Seq(Name) /\ Promise!Coded!HasRecursion(wanted)
    BY <1>5, <2>3, <2>11
  <2>18. Honest(tree, wanted, sometime, opened, there, results)
    BY <1>2, <2>8, <2>12, <2>13, <2>14, <2>16, <2>17, WalkOpensHonest
  <2>19. Honest(tree, wanted, sometime, opened, at \o further, Results(further))
    BY <1>4, <2>11, <2>13, <2>18
  <2> QED
    BY <2>6, <2>15, <2>19 DEF further, more
<1>25. ListingsHonest'
  <2>1. ASSUME NEW j \in DOMAIN open'
        PROVE  Honest(tree, wanted, sometime, open[j], Whole(stack, recursive, open[j]), Results(open[j].dir))'
    <3>1. PICK opened, dir : opened = open'[j] /\ dir = opened.dir
      OBVIOUS
    <3>2. Honest(tree, wanted, sometime, opened, at \o dir, Results(dir))
      <4>1. CASE j \in 1 .. m
        <5>1. dir = open[j].dir
          BY <1>15, <3>1, <4>1
        <5> QED
          BY <1>23, <3>1, <4>1, <5>1
      <4>2. CASE j \notin 1 .. m
        <5>1. n = m + 1 /\ j = m + 1
          BY <1>5, <1>13, <4>2
        <5>2. dir = Append(below, name)
          BY <1>19, <3>1, <5>1
        <5> QED
          BY <1>24, <3>1, <5>1, <5>2
      <4> QED
        BY <4>1, <4>2
    <3>3. Whole(stack', recursive', opened) = at \o dir
      BY <1>1, <1>4, <3>1 DEF Whole
    <3>4. Results(dir)' = Results(dir)
      BY <1>22
    <3>5. Honest(tree', wanted', sometime', opened, Whole(stack', recursive', opened), Results(dir)')
      BY <1>1, <3>2, <3>3, <3>4
    <3> QED
      BY <3>1, <3>5
  <2> QED
    BY <2>1 DEF ListingsHonest
<1> QED
  BY <1>18, <1>21, <1>25 DEF Faithful

\* A file that another process creates in a directory that is read: if the walk will
\* report it, it matches (Walker::next, Change).
LEMMA CreatedMatches ==
  ASSUME PatternsAreMeant, WalkInv, Faithful, outcome = "walking", NEW j \in DOMAIN open,
         NEW path, NEW files, Touched(path, files), path \notin DOMAIN tree, Tidy(files),
         Kept(tree, files), Kept(files, tree), \A other \in DOMAIN files : Last(other) \in FileNames,
         open[j].place = Front(path), Last(path) \in Results(open[j].dir)
  PROVE  Append(Whole(stack, recursive, open[j]), Last(path)) \in Promise!Coded!Matched(files, wanted)
<1>1. /\ PatternsAreRead /\ WalkTyped /\ outcome # "refused" /\ Tidy(tree) /\ Readable(wanted)
      /\ RoutesFirm /\ LeftNodes /\ WalksGo /\ open # <<>>
  BY DEF PatternsAreMeant, WalkInv, WalkTyped, Faithful
<1>2. PICK spot, name : spot = Front(path) /\ name = Last(path)
  OBVIOUS
<1>3. /\ spot \in Seq(Name) /\ name \in Name /\ path = Append(spot, name) /\ IsDir(tree, spot)
      /\ path \in DOMAIN files /\ files[path] = Entry("file") /\ name \in Names(files, spot)
  <2>1. path \in DOMAIN files /\ files[path] = Entry("file") /\ IsDir(tree, Front(path))
    BY DEF Touched
  <2>2. path \in Seq(Name) /\ path # <<>>
    BY <2>1, EntryIsTidy
  <2>3. Front(path) \in Seq(Name) /\ Last(path) \in Name /\ path = Append(Front(path), Last(path))
    BY <2>2, FrontAndLast
  <2>4. name \in Names(files, spot)
    BY <1>2, <2>1, <2>3, NamesAre
  <2> QED
    BY <1>2, <2>1, <2>3, <2>4
<1>4. open[j].place = spot /\ name \in Results(open[j].dir)
  BY <1>2
<1>5. Promise!Coded!Base(wanted) \in Seq(Name)
  BY <1>1, PatternTyped
<1>6. CASE stack # <<>>
  <2>1. Reading
    BY <1>1, <1>6 DEF Reading, Walking
  <2>2. PICK route, listing, node :
          /\ route = Head(stack) /\ listing = open[1] /\ node = Head(stack).next - 1
          /\ Reads(route, listing, node)
    BY <1>1, <2>1, ReadingReads
  <2>3. j = 1 /\ listing.place = spot /\ listing.dir = route.dir /\ open[j].dir = route.dir
    BY <1>4, <2>2 DEF Reads
  <2>4. /\ node \in 1 .. Len(nodes) /\ At[node] = Len(route.dir) /\ AheadOf(At, nodes, wanted, node)
        /\ nodes[node].kind # "literals" /\ route = stack[1] /\ 1 \in DOMAIN stack /\ route.dir \in Seq(Name)
    BY <2>2 DEF Reads, RouteSet
  <2>5. NodeAt(1) = node
    BY <1>1, <2>2, <2>4 DEF NodeAt
  <2>6. node = Len(nodes) /\ NameFits(nodes[node], name)
    BY <1>4, <1>6, <2>5 DEF Results, IsLeaf
  <2>7. Firm(files, wanted, route.dir)
    BY <1>1, <1>5, <2>4, FirmKept DEF RoutesFirm
  <2>8. Promise!Coded!Spot(files, Promise!Coded!Base(wanted), route.dir) = spot
    <3>1. spot = Promise!Coded!Spot(tree, Promise!Coded!Base(wanted), route.dir)
      BY <2>2, <2>3 DEF Reads, ListingOf
    <3> QED
      BY <1>1, <1>3, <1>5, <2>4, <3>1, SpotKept
  <2>9. Append(route.dir, name) \in Promise!Coded!Matched(files, wanted)
    BY <1>1, <1>3, <2>4, <2>6, <2>7, <2>8, LeafMatches
  <2> QED
    BY <1>2, <1>6, <2>3, <2>9 DEF Whole
<1>7. CASE stack = <<>>
  <2>1. recursive # <<>> /\ Recurring
    BY <1>1, <1>7 DEF WalkInv, OpenAreRead, Recurring
  <2>2. PICK m, reading, whole : Recurs(reading, m, whole)
    BY <1>1, <2>1, RecurringRecurs
  <2>3. PICK w, at, dir, base :
          w = Head(recursive) /\ at = w.dir /\ dir = open[j].dir /\ base = Promise!Coded!Base(wanted) \o Head(recursive).dir
    OBVIOUS
  <2>4. /\ w \in LeftSet /\ at \in Seq(Name) /\ Promise!Coded!HasRecursion(wanted) /\ Len(w.dir) = First(wanted) - 1
        /\ w = recursive[1] /\ 1 \in DOMAIN recursive /\ j \in 1 .. m
    <3>1. /\ Head(recursive).dir \in Seq(Name) /\ Promise!Coded!HasRecursion(wanted)
          /\ Len(Head(recursive).dir) = First(wanted) - 1 /\ DOMAIN open = 1 .. m
          /\ 1 \in DOMAIN recursive /\ Head(recursive) = recursive[1] /\ recursive \in Seq(LeftSet)
      BY <2>2 DEF Recurs
    <3>2. recursive[1] \in LeftSet
      BY <3>1
    <3> QED
      BY <2>3, <3>1, <3>2
  <2>5. base \in Seq(Name) /\ dir \in Seq(Name) /\ spot = Promise!Coded!Spot(tree, base, dir)
    BY <1>1, <1>4, <2>2, <2>3, <2>4, WalkPlaces
  <2>6. LeftTo(w) /\ Firm(files, wanted, w.dir)
    BY <1>1, <1>5, <2>3, <2>4, FirmKept DEF RoutesFirm, LeftNodes
  <2>7. WalksOn(tree, base, dir)
    BY <1>1, <1>7, <2>3 DEF WalksGo, Chain
  <2>8. WalksOn(files, base, dir)
    BY <1>1, <1>3, <2>5, <2>7, WalkKept
  <2>9. spot = Promise!Coded!Spot(files, base, dir)
    BY <1>1, <1>3, <2>5, SpotKept
  <2>10. name \in Promise!Coded!On(files, base, dir)
    <3>1. files[Append(spot, name)].kind # "link"
      BY <1>3 DEF Entry
    <3> QED
      BY <1>3, <2>5, <2>9, <3>1, EntryGoesOn
  <2>11. WalksOn(files, base, Append(dir, name))
    BY <1>3, <2>5, <2>8, <2>10, WalkFurther
  <2>12. PathFits(Regexes(w), Append(dir, name))
    BY <1>4, <1>7, <2>3 DEF Results
  <2>13. PICK further : further = Append(dir, name)
    OBVIOUS
  <2>14. further \in Seq(Name) /\ WalksOn(files, Promise!Coded!Base(wanted) \o w.dir, further)
           /\ PathFits(Regexes(w), further)
    <3>1. Append(dir, name) \in Seq(Name)
      BY <1>3, <2>5, AppendSteps
    <3> QED
      BY <2>3, <2>11, <2>12, <2>13, <3>1
  <2>15. w.dir \o further \in Promise!Coded!Matched(files, wanted)
    BY <1>1, <2>4, <2>6, <2>14, VisitMatches
  <2>16. at \o Append(dir, name) = Append(at \o dir, name)
    BY <1>3, <2>4, <2>5, AppendFurther
  <2>17. Whole(stack, recursive, open[j]) = at \o dir
    BY <1>7, <2>3 DEF Whole
  <2> QED
    BY <1>2, <2>3, <2>13, <2>15, <2>16, <2>17
<1> QED
  BY <1>6, <1>7

\* What is still to be listed of a directory stays what is there, when another process
\* creates or removes a file, and the results that it can give matched (Change).
LEMMA SeenIsHonest ==
  ASSUME NEW path, NEW files, Touched(path, files), path \in Seq(Name), path # <<>>,
         \A other \in DOMAIN files : Last(other) \in FileNames, Last(path) \in FileNames,
         NEW pattern, NEW was, NEW is, was \subseteq is, Promise!Coded!Matches(files, pattern) \subseteq is,
         NEW listing \in Listings, NEW more, Sees(path, listing, more), NEW whole, NEW results,
         Honest(tree, pattern, was, listing, whole, results),
         path \notin DOMAIN tree /\ listing.place = Front(path) /\ Last(path) \in results =>
           Append(whole, Last(path)) \in Promise!Coded!Matched(files, pattern)
  PROVE  Honest(files, pattern, is, more, whole, results)
<1>1. PICK spot, last : spot = Front(path) /\ last = Last(path)
  OBVIOUS
<1>2. path = Append(spot, last) /\ spot \in Seq(Name) /\ last \in Name
  BY <1>1, FrontAndLast
<1>3. PICK place : place = listing.place
  OBVIOUS
<1>4. place \in Seq(Name) /\ more.place = place
  BY <1>3 DEF Sees, Listings
<1>5. /\ DOMAIN listing.may \subseteq FileNames
      /\ \A name \in DOMAIN listing.may \cap results :
           listing.may[name].kind = "file" => Promise!Coded!Report(pattern, Append(whole, name)) \in was
      /\ \A name \in listing.must :
           /\ name \in DOMAIN listing.may /\ Append(place, name) \in DOMAIN tree
           /\ tree[Append(place, name)] = listing.may[name]
  BY <1>3 DEF Honest, Agrees
<1>6. \A name \in Name : Append(place, name) = path => name = last /\ place = spot
  <2> SUFFICES ASSUME NEW name \in Name, Append(place, name) = path
               PROVE  name = last /\ place = spot
    OBVIOUS
  <2>1. Front(Append(place, name)) = place /\ Last(Append(place, name)) = name
    BY <1>4, AppendParts
  <2> QED
    BY <1>1, <2>1
<1>7. /\ more.must = (IF place = spot /\ path \in DOMAIN tree THEN listing.must \ {last} ELSE listing.must)
      /\ DOMAIN more.may = (IF place = spot /\ path \notin DOMAIN tree THEN DOMAIN listing.may \cup {last}
                            ELSE DOMAIN listing.may)
      /\ \A name \in DOMAIN more.may :
           IF place = spot /\ path \notin DOMAIN tree /\ name = last THEN more.may[name] = Entry("file")
           ELSE more.may[name] = listing.may[name]
  BY <1>1, <1>3 DEF Sees
<1>8. DOMAIN more.may \subseteq FileNames
  BY <1>1, <1>5, <1>7
<1>9. ASSUME NEW name \in more.must
      PROVE  /\ name \in DOMAIN more.may /\ Append(place, name) \in DOMAIN files
             /\ files[Append(place, name)] = more.may[name]
  <2>1. PICK child : child = Append(place, name)
    OBVIOUS
  <2>2. name \in listing.must /\ name \in DOMAIN listing.may /\ child \in DOMAIN tree /\ tree[child] = listing.may[name]
    BY <1>5, <1>7, <2>1
  <2>3. name \in Name
    <3>1. DOMAIN listing.may \in SUBSET Name
      BY DEF Listings
    <3> QED
      BY <2>2, <3>1
  <2>4. path \in DOMAIN tree => child # path
    <3> SUFFICES ASSUME path \in DOMAIN tree, child = path
                 PROVE  FALSE
      OBVIOUS
    <3>1. name = last /\ place = spot
      BY <1>6, <2>1, <2>3
    <3> QED
      BY <1>7, <3>1
  <2>5. child \in DOMAIN files /\ files[child] = tree[child]
    BY <2>2, <2>4 DEF Touched
  <2>6. ~ (place = spot /\ path \notin DOMAIN tree /\ name = last)
    BY <1>2, <2>1, <2>2
  <2>7. name \in DOMAIN more.may /\ more.may[name] = listing.may[name]
    BY <1>7, <2>2, <2>6
  <2> QED
    BY <2>1, <2>2, <2>5, <2>7
<1>10. ASSUME NEW name \in DOMAIN more.may, name \in results, more.may[name].kind = "file"
       PROVE  Promise!Coded!Report(pattern, Append(whole, name)) \in is
  <2>1. CASE place = spot /\ path \notin DOMAIN tree /\ name = last
    <3>1. Append(whole, name) \in Promise!Coded!Matched(files, pattern)
      BY <1>1, <1>3, <1>10, <2>1
    <3>2. Promise!Coded!Report(pattern, Append(whole, name)) \in Promise!Coded!Matches(files, pattern)
      BY <3>1 DEF Promise!Coded!Matches
    <3> QED
      BY <3>2
  <2>2. CASE ~ (place = spot /\ path \notin DOMAIN tree /\ name = last)
    <3>1. name \in DOMAIN listing.may /\ listing.may[name].kind = "file"
      BY <1>7, <1>10, <2>2
    <3>2. Promise!Coded!Report(pattern, Append(whole, name)) \in was
      BY <1>5, <1>10, <3>1
    <3> QED
      BY <3>2
  <2> QED
    BY <2>1, <2>2
<1> QED
  BY <1>4, <1>8, <1>9, <1>10 DEF Honest, Agrees

\* Another process creates or removes a file (Change).
LEMMA ChangeFaithful ==
  ASSUME PatternsAreMeant, WalkInv, Faithful, Change
  PROVE  Faithful'
<1>1. /\ outcome = "walking" /\ outcome' = outcome /\ stack' = stack /\ recursive' = recursive
      /\ UNCHANGED <<wanted, nodes, found>>
  BY DEF Change
<1>2. /\ PatternsAreRead /\ WalkTyped /\ outcome # "refused" /\ Tidy(tree) /\ Readable(wanted)
      /\ RoutesFirm /\ LeftNodes /\ WalksGo /\ ListingsHonest /\ TreeKnown /\ NowWas
      /\ stack \in Seq(RouteSet) /\ recursive \in Seq(LeftSet) /\ open \in Seq(Listings)
  BY <1>1 DEF PatternsAreMeant, WalkInv, WalkTyped, Faithful
<1>3. PICK path, files, is :
        /\ files = tree' /\ is = sometime' /\ Touched(path, files) /\ Tidy(files)
        /\ sometime \subseteq is /\ Promise!Coded!Matches(files, wanted) \subseteq is
        /\ DOMAIN open' = DOMAIN open
        /\ \A j \in DOMAIN open : Sees(path, open[j], open'[j])
  <2>1. PICK path : /\ Touched(path, tree') /\ Tidy(tree')
                    /\ sometime \subseteq sometime' /\ Promise!Coded!Matches(tree', wanted) \subseteq sometime'
                    /\ DOMAIN open' = DOMAIN open
                    /\ \A j \in DOMAIN open : Sees(path, open[j], open'[j])
    BY <1>2, ChangeTouches
  <2> QED
    BY <2>1
<1>4. Kept(tree, files) /\ Kept(files, tree)
  BY <1>2, <1>3, TouchedKept DEF WalkTyped
<1>5. Promise!Coded!Base(wanted) \in Seq(Name)
  BY <1>2, PatternTyped
<1>6. path \in Volatile /\ path \in Seq(Name) /\ path # <<>> /\ Last(path) \in FileNames
  <2>1. path \in Volatile
    BY <1>3 DEF Touched
  <2>2. path \in Seq(Name) /\ path # <<>>
    BY <2>1, WalkerAssumption DEF IsPath
  <2> QED
    BY <2>1, <2>2 DEF FileNames
<1>7. \A other \in DOMAIN files : Last(other) \in FileNames
  <2>1. \A other \in DOMAIN files : other \in DOMAIN tree \/ other = path
    BY <1>3 DEF Touched
  <2> QED
    BY <1>2, <1>6, <2>1 DEF TreeKnown
<1>8. TreeKnown' /\ NowWas'
  <2>1. TreeKnown'
    BY <1>3, <1>7 DEF TreeKnown
  <2>2. NowWas'
    BY <1>1, <1>3 DEF NowWas, Promise!Coded!Matches
  <2> QED
    BY <2>1, <2>2
<1>9. RoutesFirm'
  <2>1. \A i \in DOMAIN stack : stack[i].dir \in Seq(Name)
    <3>1. \A i \in DOMAIN stack : stack[i] \in RouteSet
      BY <1>2
    <3>2. \A route \in RouteSet : route.dir \in Seq(Name)
      BY DEF RouteSet
    <3> QED
      BY <3>1, <3>2
  <2>2. \A i \in DOMAIN recursive : recursive[i].dir \in Seq(Name)
    <3>1. \A i \in DOMAIN recursive : recursive[i] \in LeftSet
      BY <1>2
    <3>2. \A walker \in LeftSet : walker.dir \in Seq(Name)
      BY DEF LeftSet
    <3> QED
      BY <3>1, <3>2
  <2>3. \A i \in DOMAIN stack : Firm(files, wanted, stack[i].dir)
    BY <1>2, <1>3, <1>4, <1>5, <2>1, FirmKept DEF RoutesFirm
  <2>4. \A i \in DOMAIN recursive : Firm(files, wanted, recursive[i].dir)
    BY <1>2, <1>3, <1>4, <1>5, <2>2, FirmKept DEF RoutesFirm
  <2> QED
    BY <1>1, <1>3, <2>3, <2>4 DEF RoutesFirm
<1>10. LeftNodes'
  BY <1>1, <1>2 DEF LeftNodes, LeftTo, At
<1>11. WalksGo'
  <2> SUFFICES ASSUME stack = <<>>, open' # <<>>
               PROVE  Chain(files, Promise!Coded!Base(wanted) \o Head(recursive).dir, open')
    BY <1>1, <1>3 DEF WalksGo
  <2>1. PICK base : base = Promise!Coded!Base(wanted) \o Head(recursive).dir
    OBVIOUS
  <2>2. open # <<>> /\ recursive # <<>> /\ Recurring
    <3>1. open # <<>>
      BY <1>3
    <3> QED
      BY <1>1, <3>1 DEF WalkInv, OpenAreRead, Recurring
  <2>3. Chain(tree, base, open)
    BY <1>2, <2>1, <2>2 DEF WalksGo
  <2>4. PICK m, reading, whole : Recurs(reading, m, whole)
    BY <1>2, <2>2, RecurringRecurs
  <2>5. DOMAIN open = 1 .. m
    BY <2>4 DEF Recurs
  <2>6. \A j \in DOMAIN open : open'[j].dir = open[j].dir
    BY <1>3 DEF Sees
  <2>7. ASSUME NEW j \in DOMAIN open
        PROVE  WalksOn(files, base, open[j].dir)
    <3>1. base \in Seq(Name) /\ open[j].dir \in Seq(Name) /\ open[j].place = Promise!Coded!Spot(tree, base, open[j].dir)
      BY <1>2, <2>1, <2>4, <2>5, WalkPlaces
    <3>2. IsDir(tree, open[j].place)
      BY DEF WalkInv, OpenAreRead, ListingOf
    <3>3. PICK dir : dir = open[j].dir
      OBVIOUS
    <3>4. WalksOn(tree, base, dir) /\ dir \in Seq(Name) /\ IsDir(tree, Promise!Coded!Spot(tree, base, dir))
      BY <2>3, <3>1, <3>2, <3>3 DEF Chain
    <3>5. WalksOn(files, base, dir)
      BY <1>2, <1>3, <1>4, <3>1, <3>4, WalkKept
    <3> QED
      BY <3>3, <3>5
  <2>8. Chain(files, base, open')
    <3> SUFFICES ASSUME NEW j \in DOMAIN open
                 PROVE  /\ Len(open'[j].dir) = j - 1 /\ WalksOn(files, base, open'[j].dir)
                        /\ \A i \in 1 .. j : open'[i].dir = Upto(open'[j].dir, i - 1)
      BY <1>3 DEF Chain
    <3>1. \A i \in 1 .. j : i \in DOMAIN open
      BY <2>4, <2>5 DEF Recurs
    <3>2. open'[j].dir = open[j].dir /\ \A i \in 1 .. j : open'[i].dir = open[i].dir
      BY <2>6, <3>1
    <3> QED
      BY <2>3, <2>7, <3>2 DEF Chain
  <2> QED
    BY <2>1, <2>8
<1>12. \A dir : Results(dir)' = Results(dir)
  <2>1. NodeAt(1)' = NodeAt(1)
    BY <1>1, <1>3 DEF NodeAt
  <2>2. Regexes(Head(recursive))' = Regexes(Head(recursive))
    BY <1>1 DEF Regexes
  <2> QED
    BY <1>1, <2>1, <2>2 DEF Results, IsLeaf
<1>13. ASSUME NEW j \in DOMAIN open
       PROVE  Honest(files, wanted, is, open'[j], Whole(stack, recursive, open[j]), Results(open[j].dir))
  <2>1. PICK listing, more, results, whole :
          /\ listing = open[j] /\ more = open'[j] /\ results = Results(open[j].dir)
          /\ whole = Whole(stack, recursive, open[j])
    OBVIOUS
  <2>2. listing \in Listings /\ Sees(path, listing, more)
    BY <1>2, <1>3, <2>1
  <2>3. Honest(tree, wanted, sometime, listing, whole, results)
    BY <1>2, <2>1 DEF ListingsHonest
  <2>4. path \notin DOMAIN tree /\ listing.place = Front(path) /\ Last(path) \in results =>
          Append(whole, Last(path)) \in Promise!Coded!Matched(files, wanted)
    BY <1>1, <1>3, <1>4, <1>7, <2>1, CreatedMatches
  <2>5. sometime \subseteq is /\ Promise!Coded!Matches(files, wanted) \subseteq is
    BY <1>3
  <2>6. Honest(files, wanted, is, more, whole, results)
    BY <1>3, <1>6, <1>7, <2>2, <2>3, <2>4, <2>5, SeenIsHonest
  <2> QED
    BY <2>1, <2>6
<1>14. ListingsHonest'
  <2>1. ASSUME NEW j \in DOMAIN open'
        PROVE  Honest(tree, wanted, sometime, open[j], Whole(stack, recursive, open[j]), Results(open[j].dir))'
    <3>1. PICK opened, dir : opened = open'[j] /\ dir = open[j].dir
      OBVIOUS
    <3>2. j \in DOMAIN open /\ opened.dir = dir
      BY <1>3, <3>1 DEF Sees
    <3>3. Whole(stack', recursive', opened) = Whole(stack, recursive, open[j])
      BY <1>1, <3>1, <3>2 DEF Whole
    <3>4. Results(dir)' = Results(dir)
      BY <1>12
    <3>5. Honest(tree', wanted', sometime', opened, Whole(stack', recursive', opened), Results(dir))
      BY <1>1, <1>3, <1>13, <3>1, <3>2, <3>3
    <3> QED
      BY <3>1, <3>2, <3>4, <3>5
  <2> QED
    BY <2>1 DEF ListingsHonest
<1> QED
  BY <1>8, <1>9, <1>10, <1>11, <1>14 DEF Faithful

\* What is reported stays faithful while nothing that the walk uses changes.
LEMMA StillFaithful ==
  ASSUME Faithful, UNCHANGED <<tree, wanted, nodes, stack, recursive, open, sometime>>
  PROVE  Faithful'
<1>1. RoutesFirm' /\ LeftNodes' /\ TreeKnown' /\ NowWas'
  <2>1. \A i \in DOMAIN stack' : Firm(tree, wanted, stack'[i].dir)
    BY DEF Faithful, RoutesFirm
  <2>2. \A i \in DOMAIN recursive' : Firm(tree, wanted, recursive'[i].dir) /\ LeftTo(recursive'[i])
    BY DEF Faithful, RoutesFirm, LeftNodes
  <2> QED
    BY <2>1, <2>2, WalkersFaithful
<1>2. WalksGo'
  BY DEF Faithful, WalksGo
<1>3. ListingsHonest'
  <2>1. ASSUME NEW j \in DOMAIN open'
        PROVE  Honest(tree, wanted, sometime, open[j], Whole(stack, recursive, open[j]), Results(open[j].dir))'
    <3>1. PICK opened, dir : opened = open[j] /\ dir = open[j].dir
      OBVIOUS
    <3>2. Results(dir)' = Results(dir)
      <4>1. NodeAt(1)' = NodeAt(1) /\ Regexes(Head(recursive))' = Regexes(Head(recursive))
        BY DEF NodeAt, Regexes
      <4> QED
        BY <4>1 DEF Results, IsLeaf
    <3>3. Honest(tree', wanted', sometime', opened, Whole(stack', recursive', opened), Results(dir))
      BY <3>1 DEF Faithful, ListingsHonest
    <3>4. opened = open'[j] /\ dir = open'[j].dir
      BY <3>1
    <3> QED
      BY <3>2, <3>3, <3>4
  <2> QED
    BY <2>1 DEF ListingsHonest
<1> QED
  BY <1>1, <1>2, <1>3 DEF Faithful

\* A walk begins faithful: its first walker has nothing before it (Glob::walk).
LEMMA InitFaithful ==
  ASSUME Init
  PROVE  Faithful
<1> DEFINE first == Route(1, <<>>, FALSE)
<1>1. /\ tree \in Trees /\ recursive = <<>> /\ open = <<>> /\ Promise!Coded!Matches(tree, wanted) \subseteq sometime
      /\ stack = <<>> \/ stack = <<first>>
  BY DEF Init
<1>2. first.dir = <<>>
  BY DEF Route
<1> HIDE DEF first
<1>3. Firm(tree, wanted, first.dir)
  <2>1. Len(first.dir) = 0
    BY <1>2
  <2>2. \A k : k \notin 1 .. Len(first.dir)
    BY <2>1
  <2> QED
    BY <2>2 DEF Firm
<1>4. RoutesFirm
  <2>1. \A i \in DOMAIN stack : stack[i] = first
    BY <1>1
  <2> QED
    BY <1>1, <1>3, <2>1 DEF RoutesFirm
<1>5. LeftNodes /\ WalksGo /\ ListingsHonest
  BY <1>1 DEF LeftNodes, WalksGo, ListingsHonest
<1>6. TreeKnown /\ NowWas
  BY <1>1 DEF TreeKnown, NowWas, FileNames
<1> QED
  BY <1>4, <1>5, <1>6 DEF Faithful

\* Every step keeps what is reported faithful to the file tree (Walker::next).
LEMMA NextFaithful ==
  ASSUME PatternsAreMeant, WalkInv, Faithful, [Next]_vars
  PROVE  Faithful'
<1>1. CASE UNCHANGED vars \/ Finish
  BY <1>1, StillFaithful DEF vars, Finish, walk, world
<1>2. CASE AtEnd
  BY <1>2, AtEndFaithful
<1>3. CASE Recur
  BY <1>3, RecurFaithful
<1>4. CASE OpenDir
  BY <1>4, OpenDirFaithful
<1>5. CASE NextEntry
  BY <1>5, NextEntryFaithful
<1>6. CASE EndOfDir
  BY <1>6, EndOfDirFaithful
<1>7. CASE StartWalk
  BY <1>7, StartWalkFaithful
<1>8. CASE WalkEntry
  BY <1>8, WalkEntryFaithful
<1>9. CASE EndOfWalk
  BY <1>9, EndOfWalkFaithful
<1>10. CASE Change
  BY <1>10, ChangeFaithful
<1> QED
  BY <1>1, <1>2, <1>3, <1>4, <1>5, <1>6, <1>7, <1>8, <1>9, <1>10 DEF Next, Step, Ended

-----------------------------------------------------------------------------
(***************************************************************************)
(* Nothing is missed: a path that matched all the time is in the results,   *)
(* or a walker that waits, a recursive walk that waits, or a directory that *)
(* is read still leads to it, and lists the next name of it.                *)
(***************************************************************************)

Due(listings, routes, walkers, path) ==
  {j \in DOMAIN listings : Awaits(Whole(routes, walkers, listings[j]), listings[j].must, path)}
Sourced(path) ==
  \/ Routed(stack, open, path) # {} \/ Left(recursive, stack, open, path) # {}
  \/ Due(open, stack, recursive, path) # {} \/ Promise!Coded!Report(wanted, path) \in DOMAIN found
Covered ==
  outcome = "walking" =>
    \A path \in Promise!Coded!Matched(tree, wanted) : Promise!Coded!Report(wanted, path) \in steady => Sourced(path)

\* A directory that leads to a path that matches lists the next name of it, unless
\* the pattern has that name as it is written.
LEMMA NextIsListed ==
  ASSUME PatternsAreRead, NEW pattern, Readable(pattern), NEW files, Tidy(files),
         NEW path \in Promise!Coded!Matched(files, pattern), NEW dir \in Seq(Name), Leads(dir, path),
         Len(dir) < Len(path), Searched(pattern, Len(dir) + 1),
         NEW place, place = Promise!Coded!Spot(files, Promise!Coded!Base(pattern), dir)
  PROVE  Awaits(dir, Names(files, place), path) /\ IsDir(files, place) /\ place \in Seq(Name)
<1>1. path \in Seq(Name) /\ Promise!Coded!Base(pattern) \in Seq(Name)
  BY MatchedNames, PatternTyped
<1>2. PICK k : k = Len(dir) + 1
  OBVIOUS
<1>3. k \in 1 .. Len(path) /\ k - 1 = Len(dir) /\ Searched(pattern, k)
  BY <1>1, <1>2
<1>4. path[k] \in Names(files, Place(files, pattern, path, k - 1))
  BY <1>3, MatchedNames
<1>5. Place(files, pattern, path, k - 1) = place
  <2>1. Upto(path, Len(dir)) = dir
    BY <1>1, LeadsWhole
  <2> QED
    BY <1>3, <2>1 DEF Place
<1>6. place \in Seq(Name)
  BY <1>1, SpotSteps
<1>7. IsDir(files, place)
  BY <1>4, <1>5, <1>6, NamesLie
<1> QED
  BY <1>2, <1>4, <1>5, <1>6, <1>7 DEF Awaits

\* What is found stays found.
LEMMA FoundStays ==
  ASSUME WalkTyped, NEW path, Found(path)
  PROVE  DOMAIN found' = DOMAIN found \cup {path}
<1>1. found \in [DOMAIN found -> Nat \ {0}]
  BY DEF WalkTyped
<1> QED
  BY <1>1, FoundMore

\* At the end of the nodes literals that lead to a path that matches are there, so
\* they are reported (NodeWalker::next).
LEMMA AtEndCovered ==
  ASSUME PatternsAreRead, WalkInv, AtEnd, NEW path \in Promise!Coded!Matched(tree, wanted), Sourced(path)
  PROVE  Sourced(path)'
<1> DEFINE candidate == NextCandidate(Head(stack))
           dir == candidate.route.dir
<1>1. Starting /\ Stands(candidate) /\ \E more : Joins(candidate, more)
  BY CandidateStands, CandidateJoins DEF AtEnd
<1>2. /\ ~candidate.some /\ stack' = Tail(stack) /\ open = <<>> /\ open' = <<>>
      /\ recursive' = recursive /\ wanted' = wanted /\ outcome = "walking"
      /\ IF candidate.route.literals /\ Resolve(tree, Located(dir)) # Absent
         THEN Found(Reported(dir)) ELSE found' = found
  BY <1>1 DEF AtEnd, Starting, Walking, world
<1>3. WalkTyped /\ Tidy(tree) /\ Readable(wanted) /\ stack \in Seq(RouteSet) /\ stack # <<>> /\ outcome # "refused"
  BY <1>1, <1>2 DEF Starting, Walking, WalkInv, WalkTyped
<1>4. path \in Seq(Name)
  BY <1>3, MatchedNames
<1>5. /\ dir \in Seq(Name) /\ ~Promise!Coded!HasRecursion(wanted) /\ Len(dir) = Len(wanted.components)
      /\ candidate.route.literals /\ Promise!Coded!AsWritten(wanted.components[Len(wanted.components)])
  BY <1>1, <1>2 DEF Stands, RouteSet, Joins
<1>6. Reported(dir) = Promise!Coded!Report(wanted, dir)
        /\ Promise!Coded!Report(wanted, path)' = Promise!Coded!Report(wanted, path)
  BY <1>2, <1>5, ReportedAs
<1>7. DOMAIN found \subseteq DOMAIN found'
  BY <1>2, <1>3, FoundStays
<1>8. 1 \in DOMAIN stack /\ Head(stack) = stack[1]
  BY <1>3, TailSteps
<1>9. CASE Promise!Coded!Report(wanted, path) \in DOMAIN found
  BY <1>6, <1>7, <1>9 DEF Sourced
<1>10. CASE Left(recursive, stack, open, path) # {}
  <2>1. Left(recursive, stack, open, path)' = Left(recursive, stack, open, path)
    BY <1>2 DEF Left
  <2> QED
    BY <1>10, <2>1 DEF Sourced
<1>11. CASE Due(open, stack, recursive, path) # {}
  BY <1>2, <1>11 DEF Due
<1>12. ASSUME NEW i \in Routed(stack, open, path)
       PROVE  Sourced(path)'
  <2>1. CASE i = 1
    <3>1. Leads(dir, path)
      BY <1>1, <1>8, <1>12, <2>1, CandidateLeads DEF Routed
    <3>2. Len(path) = Len(wanted.components)
      BY <1>3, <1>5, MatchedNames
    <3>3. path = dir
      BY <1>4, <1>5, <3>1, <3>2, LeadsWhole
    <3>4. Promise!Coded!Spot(tree, Promise!Coded!Base(wanted), path) # Absent
      BY <1>3, <1>5, MatchedAre, SameFiles DEF MatchesAll
    <3>5. Resolve(tree, Located(dir)) # Absent
      BY <1>3, <1>5, <3>3, <3>4, LocatedLeads
    <3>6. Found(Promise!Coded!Report(wanted, path))
      BY <1>2, <1>5, <1>6, <3>3, <3>5
    <3>7. Promise!Coded!Report(wanted, path) \in DOMAIN found'
      BY <1>3, <3>6, FoundStays, ZenonT(60)
    <3> QED
      BY <1>6, <3>7 DEF Sourced
  <2>2. CASE i # 1
    <3>1. i \in Nat \ {0} /\ i \in Routed(stack, <<>>, path)
      BY <1>2, <1>3, <1>12 DEF Routed
    <3>2. i - 1 \in Nat \ {0} /\ (i - 1) + 1 = i
      BY <2>2, <3>1
    <3>3. i - 1 \in Routed(Tail(stack), <<>>, path)
      BY <1>2, <1>3, <1>12, <3>2, RoutedTail
    <3> QED
      BY <1>2, <3>3 DEF Sourced
  <2> QED
    BY <2>1, <2>2
<1> QED
  BY <1>9, <1>10, <1>11, <1>12 DEF Sourced

\* A walker that is dropped leaves those behind it in the queue (NodeWalker::next).
LEMMA WaitsBehind ==
  ASSUME stack \in Seq(RouteSet), stack # <<>>, NEW path, NEW i \in Routed(stack, open, path), i # 1
  PROVE  Routed(Tail(stack), <<>>, path) # {}
<1>1. i \in Nat \ {0}
  BY TailSteps DEF Routed
<1>2. i - 1 \in Nat \ {0} /\ (i - 1) + 1 = i
  BY <1>1
<1>3. i - 1 \in Routed(Tail(stack), <<>>, path)
  BY <1>2, RoutedTail
<1> QED
  BY <1>3

\* What ** leaves to a recursive walk waits there (Recur).
LEMMA RecurCovered ==
  ASSUME PatternsAreRead, WalkInv, Recur, NEW path \in Promise!Coded!Matched(tree, wanted), Sourced(path)
  PROVE  Sourced(path)'
<1> DEFINE candidate == NextCandidate(Head(stack))
           dir == candidate.route.dir
           walker == [next |-> candidate.route.next + 1, dir |-> dir]
<1>1. Starting /\ Stands(candidate)
  BY CandidateStands DEF Recur
<1>2. /\ candidate.some /\ stack' = Tail(stack) /\ open = <<>> /\ open' = <<>> /\ found' = found
      /\ recursive' = Append(recursive, walker) /\ wanted' = wanted /\ outcome = "walking"
  BY <1>1 DEF Recur, Starting, Walking, world
<1>3. /\ WalkTyped /\ Tidy(tree) /\ Readable(wanted) /\ outcome # "refused"
      /\ stack \in Seq(RouteSet) /\ stack # <<>> /\ recursive \in Seq(LeftSet)
  BY <1>1, <1>2 DEF Starting, Walking, WalkInv, WalkTyped
<1>4. walker \in LeftSet /\ walker.dir = dir /\ dir \in Seq(Name)
  <2>1. candidate.route.next \in Nat /\ dir \in Seq(Name)
    BY <1>1 DEF Stands, RouteSet
  <2> QED
    BY <2>1 DEF LeftSet
<1>5. 1 \in DOMAIN stack /\ Head(stack) = stack[1]
  BY <1>3, TailSteps
<1>6. \A i \in Routed(stack, open, path) : i = 1 => Leads(dir, path)
  BY <1>1, <1>5, CandidateLeads DEF Routed
<1> HIDE DEF candidate, dir, walker
<1>7. \A i : i \in Left(Append(recursive, walker), stack', <<>>, path) <=>
              i \in Left(recursive, stack, <<>>, path) \/ (i = Len(recursive) + 1 /\ Leads(walker.dir, path))
  BY <1>3, <1>4, LeftMore
<1>8. CASE Promise!Coded!Report(wanted, path) \in DOMAIN found
  BY <1>2, <1>8 DEF Sourced, Promise!Coded!Report
<1>9. CASE Left(recursive, stack, open, path) # {}
  BY <1>2, <1>7, <1>9 DEF Sourced
<1>10. CASE Due(open, stack, recursive, path) # {}
  BY <1>2, <1>10 DEF Due
<1>11. ASSUME NEW i \in Routed(stack, open, path)
       PROVE  Sourced(path)'
  <2>1. CASE i = 1
    <3>1. Leads(walker.dir, path)
      BY <1>4, <1>6, <1>11, <2>1
    <3> QED
      BY <1>2, <1>7, <3>1 DEF Sourced
  <2>2. CASE i # 1
    BY <1>2, <1>3, <1>11, <2>2, WaitsBehind DEF Sourced
  <2> QED
    BY <2>1, <2>2
<1> QED
  BY <1>8, <1>9, <1>10, <1>11 DEF Sourced

\* At the end of a directory nothing of it is due (EndOfDir).
LEMMA EndOfDirCovered ==
  ASSUME PatternsAreRead, WalkInv, EndOfDir, NEW path \in Promise!Coded!Matched(tree, wanted), Sourced(path)
  PROVE  Sourced(path)'
<1>1. /\ outcome = "walking" /\ stack # <<>> /\ open # <<>> /\ Reading /\ recursive' = recursive
      /\ open[1].must = {} /\ open' = <<>> /\ stack' = Tail(stack) /\ found' = found /\ wanted' = wanted
  BY DEF EndOfDir, Reading, Walking, world
<1>2. stack \in Seq(RouteSet)
  BY DEF WalkInv, WalkTyped
<1>3. Reads(Head(stack), open[1], Head(stack).next - 1)
  BY <1>1, ReadingReads
<1>4. \A j \in DOMAIN open : open[j].must = {}
  BY <1>1, <1>3 DEF Reads
<1>5. Due(open, stack, recursive, path) = {}
  BY <1>4 DEF Due, Awaits
<1>6. CASE Promise!Coded!Report(wanted, path) \in DOMAIN found
  BY <1>1, <1>6 DEF Sourced, Promise!Coded!Report
<1>7. CASE Left(recursive, stack, open, path) # {}
  <2>1. Left(recursive, stack', <<>>, path) # {}
    BY <1>7 DEF Left
  <2> QED
    BY <1>1, <2>1 DEF Sourced
<1>8. CASE Routed(stack, open, path) # {}
  <2>1. \A i \in Routed(stack, open, path) : i # 1
    BY <1>1 DEF Routed
  <2>2. Routed(Tail(stack), <<>>, path) # {}
    BY <1>1, <1>2, <1>8, <2>1, WaitsBehind
  <2> QED
    BY <1>1, <2>2 DEF Sourced
<1> QED
  BY <1>5, <1>6, <1>7, <1>8 DEF Sourced

\* A node that reads a directory has a name of every path that matches to find there
\* (NodeWalker::next_candidate_path).
LEMMA NodeSearches ==
  ASSUME PatternsAreRead, WalkTyped, outcome # "refused", NEW path \in Promise!Coded!Matched(tree, wanted),
         NEW n, AheadOf(At, nodes, wanted, n), nodes[n].kind # "literals",
         NEW dir \in Seq(Name), At[n] = Len(dir), Len(dir) < First(wanted)
  PROVE  Len(dir) < Len(path) /\ Searched(wanted, Len(dir) + 1)
<1>1. Readable(wanted) /\ Tidy(tree)
  BY DEF WalkTyped
<1>2. path \in Seq(Name) /\ Len(path) \in Nat /\ Len(dir) \in Nat
  BY <1>1, MatchedNames
<1>3. First(wanted) \in Nat
  BY <1>1, FirstIs, PatternTyped
<1>4. Len(dir) + 1 \in 1 .. Len(wanted.components) /\ ~Promise!Coded!AsWritten(wanted.components[Len(dir) + 1])
  BY DEF AheadOf
<1>5. CASE Promise!Coded!HasRecursion(wanted)
  <2>1. First(wanted) \in 1 .. Len(path)
    BY <1>1, <1>5, MatchedDirs
  <2> QED
    BY <1>2, <1>3, <1>4, <2>1 DEF Searched
<1>6. CASE ~Promise!Coded!HasRecursion(wanted)
  <2>1. Len(path) = Len(wanted.components)
    BY <1>1, <1>6, MatchedNames
  <2> QED
    BY <1>2, <1>4, <2>1 DEF Searched
<1> QED
  BY <1>5, <1>6

\* A directory that leads to a path that matches can be read, and the next name of the
\* path is in it (OpenDir).
LEMMA OpenDirCovered ==
  ASSUME PatternsAreRead, WalkInv, OpenDir, NEW path \in Promise!Coded!Matched(tree, wanted), Sourced(path)
  PROVE  Sourced(path)'
<1> DEFINE candidate == NextCandidate(Head(stack))
           node == candidate.route.next
           dir == candidate.route.dir
           place == Resolve(tree, Located(dir))
           listing == Listing(tree, dir, place)
           route == Route(node + 1, dir, candidate.route.literals)
<1>1. Starting /\ Stands(candidate)
  BY CandidateStands DEF OpenDir
<1>2. /\ candidate.some /\ open = <<>> /\ found' = found /\ recursive' = recursive /\ wanted' = wanted
      /\ outcome = "walking"
      /\ IF IsDir(tree, place) THEN open' = <<listing>> /\ stack' = <<route>> \o Tail(stack)
         ELSE open' = <<>> /\ stack' = Tail(stack)
  BY <1>1 DEF OpenDir, Starting, Walking, world
<1>3. /\ WalkTyped /\ Tidy(tree) /\ Readable(wanted) /\ outcome # "refused"
      /\ stack \in Seq(RouteSet) /\ stack # <<>>
  BY <1>1, <1>2 DEF Starting, Walking, WalkInv, WalkTyped
<1>4. /\ At[node] = Len(dir) /\ Len(dir) < First(wanted) /\ dir \in Seq(Name) /\ nodes[node].kind # "literals"
      /\ AheadOf(At, nodes, wanted, node) /\ route \in RouteSet /\ listing.dir = dir
      /\ listing.must = Names(tree, place)
  BY <1>1, <1>2 DEF Stands, RouteSet, Route, Listing
<1>5. 1 \in DOMAIN stack /\ Head(stack) = stack[1]
  BY <1>3, TailSteps
<1>6. \A i \in Routed(stack, open, path) : i = 1 => Leads(dir, path)
  BY <1>1, <1>5, CandidateLeads DEF Routed
<1> HIDE DEF candidate, node, dir, route, listing
<1>7. place = Promise!Coded!Spot(tree, Promise!Coded!Base(wanted), dir)
  BY <1>3, <1>4, LocatedLeads
<1> HIDE DEF place
<1>8. Leads(dir, path) => Awaits(dir, Names(tree, place), path) /\ IsDir(tree, place)
  BY <1>3, <1>4, <1>7, NodeSearches, NextIsListed
<1>9. CASE ~IsDir(tree, place)
  <2>1. \A i \in Routed(stack, open, path) : i # 1
    BY <1>6, <1>8, <1>9
  <2>2. Routed(stack, open, path) # {} => Routed(Tail(stack), <<>>, path) # {}
    BY <1>3, <2>1, WaitsBehind
  <2>3. Left(recursive, stack', <<>>, path) = Left(recursive, stack, open, path)
    BY <1>2 DEF Left
  <2>4. Due(open, stack, recursive, path) = {}
    BY <1>2 DEF Due
  <2> QED
    BY <1>2, <1>9, <2>2, <2>3, <2>4 DEF Sourced, Promise!Coded!Report
<1>10. CASE IsDir(tree, place)
  <2> DEFINE listings == <<listing>>
             opened == <<route>> \o Tail(stack)
  <2>1. listings # <<>> /\ DOMAIN listings = {1} /\ listings[1] = listing
    OBVIOUS
  <2>2. opened # <<>>
    <3>1. Len(opened) = Len(stack) /\ Len(stack) # 0
      BY <1>3, <1>4, HeadSteps, TailSteps
    <3> QED
      BY <3>1
  <2> HIDE DEF listings
  <2>3. \A i : i \in Routed(opened, listings, path) <=> i # 1 /\ i \in Routed(stack, <<>>, path)
    BY <1>3, <1>4, <2>1, RoutedReads
  <2> HIDE DEF opened
  <2>4. open' = listings /\ stack' = opened
    BY <1>2, <1>10 DEF listings, opened
  <2>5. Left(recursive, opened, listings, path) = Left(recursive, stack, open, path)
    BY <1>3, <2>2 DEF Left
  <2>6. Due(open, stack, recursive, path) = {}
    BY <1>2 DEF Due
  <2>7. Whole(opened, recursive, listing) = dir
    BY <1>4, <2>2 DEF Whole
  <2>8. Leads(dir, path) => 1 \in Due(listings, opened, recursive, path)
    BY <1>4, <1>8, <2>1, <2>7 DEF Due
  <2>9. Routed(stack, open, path) # {} =>
          Routed(opened, listings, path) # {} \/ Due(listings, opened, recursive, path) # {}
    BY <1>2, <1>6, <2>3, <2>8
  <2> QED
    BY <1>2, <2>4, <2>5, <2>6, <2>9 DEF Sourced, Promise!Coded!Report
<1> QED
  BY <1>9, <1>10

\* A recursive walk opens the directory that it starts in (StartWalk).
LEMMA StartWalkCovered ==
  ASSUME PatternsAreRead, WalkInv, StartWalk, NEW path \in Promise!Coded!Matched(tree, wanted), Sourced(path)
  PROVE  Sourced(path)'
<1> DEFINE walker == Head(recursive)
           dir == walker.dir
           place == Resolve(tree, Located(dir))
           none == <<>>
           listing == Listing(tree, none, place)
<1>1. /\ stack = <<>> /\ stack' = <<>> /\ open = <<>> /\ recursive # <<>> /\ outcome = "walking"
      /\ IF IsDir(tree, place) THEN open' = <<listing>> /\ recursive' = recursive
         ELSE open' = <<>> /\ recursive' = Tail(recursive)
      /\ found' = found /\ wanted' = wanted
  BY DEF StartWalk, Recurring, world
<1>2. /\ WalkTyped /\ outcome # "refused" /\ recursive \in Seq(LeftSet) /\ Tidy(tree) /\ Readable(wanted)
  BY <1>1 DEF WalkInv, WalkTyped
<1>3. 1 \in DOMAIN recursive /\ walker = recursive[1] /\ recursive[1] \in LeftSet
  BY <1>1, <1>2, TailSteps
<1>4. walker \in LeftSet /\ dir \in Seq(Name)
  BY <1>3 DEF LeftSet
<1>5. Promise!Coded!HasRecursion(wanted) /\ Len(dir) = First(wanted) - 1
  BY <1>3 DEF WalkInv, LeftAtFirst
<1>6. \A i \in Left(recursive, stack, open, path) : i = 1 => Leads(dir, path)
  BY <1>3 DEF Left
<1>7. Routed(stack, open, path) = {} /\ Due(open, stack, recursive, path) = {}
  BY <1>1 DEF Routed, Due
<1>8. listing.dir = none /\ listing.must = Names(tree, place)
  BY DEF Listing
<1>9. dir \o none = dir
  BY <1>4
<1> HIDE DEF walker, listing, none
<1>10. place = Promise!Coded!Spot(tree, Promise!Coded!Base(wanted), dir)
  BY <1>2, <1>4, LocatedLeads
<1> HIDE DEF place
<1>11. Leads(dir, path) => Awaits(dir, Names(tree, place), path) /\ IsDir(tree, place)
  <2>1. First(wanted) \in 1 .. Len(path) /\ path \in Seq(Name)
    BY <1>2, <1>5, MatchedDirs, MatchedNames
  <2>2. Len(dir) < Len(path) /\ Searched(wanted, Len(dir) + 1)
    BY <1>4, <1>5, <2>1 DEF Searched
  <2> QED
    BY <1>2, <1>4, <1>10, <2>2, NextIsListed
<1>12. CASE ~IsDir(tree, place)
  <2>1. ASSUME NEW i \in Left(recursive, stack, open, path)
        PROVE  Left(Tail(recursive), <<>>, <<>>, path) # {}
    <3>1. i \in Nat \ {0} /\ i # 1
      BY <1>2, <1>6, <1>11, <1>12, <2>1 DEF Left
    <3>2. i - 1 \in Nat \ {0} /\ (i - 1) + 1 = i
      BY <3>1
    <3>3. i - 1 \in Left(Tail(recursive), <<>>, <<>>, path)
      BY <1>1, <1>2, <2>1, <3>2, LeftTail
    <3> QED
      BY <3>3
  <2> QED
    BY <1>1, <1>7, <1>12, <2>1 DEF Sourced, Promise!Coded!Report
<1>13. CASE IsDir(tree, place)
  <2> DEFINE listings == <<listing>>
  <2>1. listings # <<>> /\ DOMAIN listings = {1} /\ listings[1] = listing
    OBVIOUS
  <2> HIDE DEF listings
  <2>2. open' = listings /\ recursive' = recursive
    BY <1>1, <1>13 DEF listings
  <2>3. \A i \in Left(recursive, stack, open, path) : i # 1 => i \in Left(recursive, stack', listings, path)
    BY DEF Left
  <2>4. Whole(stack', recursive, listing) = dir
    BY <1>1, <1>8, <1>9 DEF Whole, walker
  <2>5. Leads(dir, path) => 1 \in Due(listings, stack', recursive, path)
    BY <1>8, <1>11, <2>1, <2>4 DEF Due
  <2>6. Left(recursive, stack, open, path) # {} =>
          Left(recursive, stack', listings, path) # {} \/ Due(listings, stack', recursive, path) # {}
    BY <1>6, <2>3, <2>5
  <2> QED
    BY <1>1, <1>7, <2>2, <2>6 DEF Sourced, Promise!Coded!Report
<1> QED
  BY <1>12, <1>13

\* At the end of a directory of the walk nothing of it is due (EndOfWalk).
LEMMA EndOfWalkCovered ==
  ASSUME PatternsAreRead, WalkInv, EndOfWalk, NEW path \in Promise!Coded!Matched(tree, wanted), Sourced(path)
  PROVE  Sourced(path)'
<1>1. /\ stack = <<>> /\ stack' = <<>> /\ open # <<>> /\ outcome = "walking" /\ recursive # <<>>
      /\ Last(open).must = {} /\ open' = Front(open)
      /\ recursive' = (IF Len(open) = 1 THEN Tail(recursive) ELSE recursive)
      /\ found' = found /\ wanted' = wanted
  BY DEF EndOfWalk, Recurring, world
<1>2. open \in Seq(Listings) /\ recursive \in Seq(LeftSet)
  BY DEF WalkInv, WalkTyped
<1>3. PICK m, last : m = Len(open) /\ last = Last(open)
  OBVIOUS
<1>4. /\ m \in Nat \ {0} /\ last = open[m] /\ DOMAIN open = 1 .. m /\ DOMAIN open' = 1 .. (m - 1)
      /\ \A i \in 1 .. (m - 1) : open'[i] = open[i]
  BY <1>1, <1>2, <1>3, LastSteps
<1>5. Routed(stack, open, path) = {}
  BY <1>1 DEF Routed
<1>6. ASSUME NEW j \in Due(open, stack, recursive, path)
      PROVE  Due(open', stack', recursive', path) # {}
  <2>1. j \in 1 .. m /\ j # m
    BY <1>1, <1>3, <1>4, <1>6 DEF Due, Awaits
  <2>2. j \in 1 .. (m - 1) /\ m # 1
    BY <1>4, <2>1
  <2>3. recursive' = recursive /\ open'[j] = open[j] /\ j \in DOMAIN open'
    BY <1>1, <1>3, <1>4, <2>2
  <2>4. Whole(stack', recursive', open'[j]) = Whole(stack, recursive, open[j])
    BY <1>1, <2>3
  <2>5. j \in Due(open', stack', recursive', path)
    BY <1>6, <2>3, <2>4 DEF Due
  <2> QED
    BY <2>5
<1>7. ASSUME NEW i \in Left(recursive, stack, open, path)
      PROVE  Left(recursive', stack', open', path) # {}
  <2>1. i # 1 /\ i \in Nat \ {0}
    BY <1>1, <1>2, <1>7 DEF Left
  <2>2. CASE m = 1
    <3>1. i - 1 \in Nat \ {0} /\ (i - 1) + 1 = i
      BY <2>1
    <3>2. i - 1 \in Left(Tail(recursive), <<>>, <<>>, path)
      BY <1>1, <1>2, <1>7, <3>1, LeftTail
    <3>3. i - 1 \in DOMAIN Tail(recursive) /\ Leads(Tail(recursive)[i - 1].dir, path)
      BY <3>2 DEF Left
    <3>4. open' = <<>>
      <4>1. last \in Listings
        BY <1>2, <1>4
      <4>2. PICK front : front = Front(open)
        OBVIOUS
      <4>3. front \in Seq(Listings) /\ Len(front) = m - 1
        BY <1>1, <1>2, <1>3, <4>1, <4>2, LastSteps
      <4>4. front = <<>>
        BY <2>2, <4>3
      <4> QED
        BY <1>1, <4>2, <4>4
    <3>5. recursive' = Tail(recursive)
      BY <1>1, <1>3, <2>2
    <3>6. i - 1 \in Left(recursive', stack', open', path)
      BY <3>3, <3>4, <3>5 DEF Left
    <3> QED
      BY <3>6
  <2>3. CASE m # 1
    <3>1. i \in Left(recursive', stack', open', path)
      BY <1>1, <1>3, <1>7, <2>1, <2>3 DEF Left
    <3> QED
      BY <3>1
  <2> QED
    BY <2>2, <2>3
<1>8. CASE Promise!Coded!Report(wanted, path) \in DOMAIN found
  BY <1>1, <1>8 DEF Sourced, Promise!Coded!Report
<1> QED
  BY <1>5, <1>6, <1>7, <1>8 DEF Sourced

Serves(path, route, reading, node, name) ==
  /\ NameFits(nodes[node], name)
  /\ IsLeaf(node) => path = Append(route.dir, name)
  /\ ~IsLeaf(node) => MayBeDir(reading.may[name])

\* An entry that leads to a path that matches fits the node, and if it is not the last
\* name of the path it may be a directory (NodeWalker::next_from_dir).
LEMMA EntryFits ==
  ASSUME PatternsAreMeant, WalkTyped, outcome # "refused", TreeKnown,
         NEW path \in Promise!Coded!Matched(tree, wanted), NEW route, NEW reading, NEW node,
         Reads(route, reading, node), Agrees(tree, reading), NEW name \in reading.must,
         Awaits(route.dir, {name}, path)
  PROVE  Serves(path, route, reading, node, name)
<1>1. PatternsAreRead /\ Readable(wanted) /\ Tidy(tree) /\ path \in Seq(Name) /\ Len(path) \in Nat
  <2>1. PatternsAreRead /\ Readable(wanted) /\ Tidy(tree)
    BY DEF PatternsAreMeant, WalkTyped
  <2>2. path \in Seq(Name)
    BY <2>1, MatchedNames
  <2> QED
    BY <2>1, <2>2
<1>2. PICK dir, place, k : dir = route.dir /\ place = reading.place /\ k = Len(route.dir) + 1
  OBVIOUS
<1>3. /\ dir \in Seq(Name) /\ node \in 1 .. Len(nodes) /\ At[node] = Len(dir) /\ Len(dir) < First(wanted)
      /\ nodes[node].kind # "literals" /\ AheadOf(At, nodes, wanted, node)
      /\ nodes[node].kind = "recursive" => IsLeaf(node)
      /\ ListingOf(tree, wanted, dir, reading)
  BY <1>2 DEF Reads, RouteSet
<1>4. /\ k \in 1 .. Len(path) /\ k - 1 = Len(dir) /\ At[node] + 1 = k /\ Leads(dir, path) /\ path[k] = name
      /\ k \in Nat
  BY <1>1, <1>2, <1>3 DEF Awaits
<1>5. name \in Name
  BY <1>1, <1>4
<1>6. Searched(wanted, k)
  BY <1>1, <1>2, <1>3, NodeSearches
<1>7. First(wanted) \in Nat /\ Len(wanted.components) \in Nat
  BY <1>1, FirstIs, PatternTyped
<1>8. At[node + 1] = k /\ k < First(wanted)
  <2>1. At[node + 1] = k
    BY <1>3, <1>4 DEF AheadOf
  <2>2. CASE nodes[node].kind = "regex"
    BY <1>3, <2>1, <2>2 DEF AheadOf
  <2>3. CASE nodes[node].kind = "recursive"
    <3>1. node = Len(nodes)
      BY <1>3, <2>3 DEF IsLeaf
    <3>2. ~Promise!Coded!HasRecursion(wanted) /\ k = Len(wanted.components)
      BY <1>3, <2>1, <3>1 DEF AheadOf
    <3>3. First(wanted) = Len(wanted.components) + 1
      BY <1>1, <3>2, FirstIs
    <3> QED
      BY <1>7, <2>1, <3>2, <3>3
  <2> QED
    BY <1>3, <2>2, <2>3 DEF AheadOf
<1>9. Upto(path, k - 1) = dir /\ Place(tree, wanted, path, k - 1) = place
  <2>1. Upto(path, Len(dir)) = dir
    BY <1>1, <1>3, <1>4, LeadsWhole
  <2> QED
    BY <1>2, <1>3, <1>4, <2>1 DEF Place, ListingOf
<1>10. NameFits(nodes[node], name)
  <2>1. name \in Onward(tree, wanted, k, dir)
    BY <1>1, <1>4, <1>8, <1>9, MatchedNames
  <2>2. ~Promise!Coded!AsWritten(wanted.components[k])
    BY <1>6, <1>8 DEF Searched
  <2>3. Stood(k, name) /\ name \in Names(tree, Promise!Coded!Spot(tree, Promise!Coded!Base(wanted), dir))
    BY <2>1, <2>2, OnwardAre DEF Stood
  <2>4. Promise!Coded!Spot(tree, Promise!Coded!Base(wanted), dir) \in Seq(Name)
    BY <1>1, <1>3, PatternTyped, SpotSteps
  <2>5. name \in FileNames
    BY <1>1, <2>3, <2>4, ListedAreKnown DEF TreeKnown
  <2> QED
    BY <1>3, <1>4, <2>3, <2>5, NodeFits
<1>11. IsLeaf(node) => path = Append(dir, name)
  <2> SUFFICES ASSUME node = Len(nodes)
               PROVE  path = Append(dir, name)
    BY DEF IsLeaf
  <2>1. ~Promise!Coded!HasRecursion(wanted) /\ k = Len(wanted.components)
    BY <1>3, <1>8 DEF AheadOf
  <2>2. Len(path) = k
    BY <1>1, <2>1, MatchedNames
  <2>3. PICK child : child = Append(dir, name)
    OBVIOUS
  <2>4. child \in Seq(Name) /\ Len(child) = Len(path)
    BY <1>3, <1>4, <1>5, <2>2, <2>3, AppendSteps
  <2>5. Leads(Append(dir, name), path)
    BY <1>1, <1>2, <1>3, <1>5, LeadsAppend
  <2> QED
    BY <1>1, <2>3, <2>4, <2>5, LeadsWhole
<1>12. ~IsLeaf(node) => MayBeDir(reading.may[name])
  <2> SUFFICES ASSUME node # Len(nodes)
               PROVE  reading.may[name].kind # "file"
    BY DEF IsLeaf, MayBeDir
  <2>1. k < Len(path)
    <3>1. CASE Promise!Coded!HasRecursion(wanted)
      BY <1>1, <1>4, <1>7, <1>8, <3>1, MatchedDirs
    <3>2. CASE ~Promise!Coded!HasRecursion(wanted)
      <4>1. Laid(At, nodes, wanted, Len(wanted.components)) /\ Len(nodes) \in Nat
        BY <1>1, NodesLaid
      <4>2. node \in 1 .. (Len(nodes) - 1)
        BY <1>3, <4>1
      <4>3. At[node + 1] < Len(wanted.components)
        BY <4>1, <4>2 DEF Laid
      <4> QED
        BY <1>1, <1>8, <3>2, <4>3, MatchedNames
    <3> QED
      BY <3>1, <3>2
  <2>2. k \in 1 .. (Len(path) - 1)
    BY <1>1, <1>4, <2>1
  <2>3. tree[Append(place, name)].kind # "file"
    BY <1>1, <1>4, <1>6, <1>9, <2>2, MatchedNoFile
  <2> QED
    BY <1>2, <2>3 DEF Agrees
<1> QED
  BY <1>2, <1>10, <1>11, <1>12 DEF Serves

\* An entry that leads to a path that matches is that path, and is reported, or the
\* start of a walker that waits (NextEntry).
LEMMA NextEntryCovered ==
  ASSUME PatternsAreMeant, WalkInv, Faithful, NextEntry, NEW path \in Promise!Coded!Matched(tree, wanted), Sourced(path)
  PROVE  Sourced(path)'
<1> DEFINE route == Head(stack)
           node == route.next - 1
           reading == open[1]
<1>1. /\ outcome = "walking" /\ stack # <<>> /\ open # <<>> /\ Reading
      /\ recursive' = recursive /\ wanted' = wanted
  BY DEF NextEntry, Reading, Walking, world
<1>2. /\ PatternsAreRead /\ WalkTyped /\ outcome # "refused" /\ Readable(wanted) /\ Tidy(tree)
      /\ TreeKnown /\ ListingsHonest
  BY <1>1 DEF PatternsAreMeant, WalkInv, WalkTyped, Faithful
<1>3. Reads(route, reading, node)
  BY <1>1, <1>2, ReadingReads
<1>4. PICK name \in DOMAIN reading.may :
        /\ open' = <<Listed(name, reading)>>
        /\ IF NameFits(nodes[node], name)
           THEN IF IsLeaf(node)
                THEN Found(Reported(Append(route.dir, name))) /\ stack' = stack
                ELSE /\ stack' = (IF MayBeDir(reading.may[name]) THEN Append(stack, Fork(route, name)) ELSE stack)
                     /\ found' = found
           ELSE stack' = stack /\ found' = found
  BY DEF NextEntry
<1> HIDE DEF route, node, reading
<1>5. PICK r, first, at : r = reading /\ first = Listed(name, reading) /\ at = route.dir
  OBVIOUS
<1>6. /\ stack \in Seq(RouteSet) /\ route \in RouteSet /\ r \in Listings /\ r.dir = at /\ route.dir = at
      /\ at \in Seq(Name) /\ \A j \in DOMAIN open : j = 1
  BY <1>3, <1>5 DEF Reads, RouteSet
<1>7. first.dir = at /\ name \in Name /\ first.must = r.must \ {name}
  BY <1>5, <1>6, ListedOnce
<1>8. 1 \in DOMAIN open /\ open[1] = r /\ Whole(stack, recursive, r) = at
  BY <1>1, <1>2, <1>5, <1>6, TailSteps DEF reading, WalkTyped, Whole
<1>9. Agrees(tree, r)
  BY <1>2, <1>8 DEF ListingsHonest, Honest
<1>10. path \in Seq(Name)
  BY <1>2, MatchedNames
<1> DEFINE fork == Fork(route, name)
<1>11. fork \in RouteSet /\ fork.dir = Append(at, name)
  <2>1. Append(at, name) \in Seq(Name)
    BY <1>6, <1>7, AppendSteps
  <2> QED
    BY <1>6, <2>1 DEF Fork, Route, RouteSet
<1>12. stack' = stack \/ stack' = Append(stack, fork)
  BY <1>4
<1> HIDE DEF fork
<1>13. stack' # <<>>
  <2>1. Append(stack, fork) # <<>>
    BY <1>6, <1>11
  <2> QED
    BY <1>1, <1>12, <2>1
<1>14. open' # <<>> /\ 1 \in DOMAIN open' /\ open'[1] = first /\ Whole(stack', recursive', first) = at
  <2>1. open' = <<first>>
    BY <1>4, <1>5
  <2>2. open' # <<>> /\ 1 \in DOMAIN open' /\ open'[1] = first
    BY <2>1
  <2> QED
    BY <1>7, <1>13, <2>2 DEF Whole
<1>15. \A i : i \in Routed(Append(stack, fork), open', path) <=>
               i \in Routed(stack, open, path) \/ (i = Len(stack) + 1 /\ Leads(fork.dir, path))
  BY <1>1, <1>6, <1>11, <1>14, RoutedMore
<1>16. CASE Promise!Coded!Report(wanted, path) \in DOMAIN found
  <2>1. DOMAIN found \subseteq DOMAIN found'
    BY <1>2, <1>4, FoundStays
  <2> QED
    BY <1>1, <1>16, <2>1 DEF Sourced, Promise!Coded!Report
<1>17. CASE Left(recursive, stack, open, path) # {}
  <2>1. Left(recursive, stack', open', path) # {}
    BY <1>13, <1>17 DEF Left
  <2> QED
    BY <1>1, <2>1 DEF Sourced
<1>18. CASE Routed(stack, open, path) # {}
  <2>1. Routed(stack, open', path) = Routed(stack, open, path)
    BY <1>1, <1>14 DEF Routed
  <2>2. Routed(stack', open', path) # {}
    BY <1>12, <1>15, <1>18, <2>1
  <2> QED
    BY <2>2 DEF Sourced
<1>19. ASSUME NEW j \in Due(open, stack, recursive, path)
       PROVE  Sourced(path)'
  <2>1. Awaits(at, r.must, path)
    BY <1>6, <1>8, <1>19 DEF Due
  <2>2. PICK k : k = Len(at) + 1
    OBVIOUS
  <2>3. path[k] \in r.must /\ Leads(at, path) /\ Len(at) < Len(path)
    BY <2>1, <2>2 DEF Awaits
  <2>4. CASE path[k] # name
    <3>1. Awaits(at, first.must, path)
      BY <1>7, <2>2, <2>3, <2>4 DEF Awaits
    <3>2. 1 \in Due(open', stack', recursive', path)
      BY <1>14, <3>1 DEF Due
    <3> QED
      BY <3>2 DEF Sourced
  <2>5. CASE path[k] = name
    <3>1. Awaits(at, {name}, path) /\ name \in r.must
      BY <2>2, <2>3, <2>5 DEF Awaits
    <3>2. /\ NameFits(nodes[node], name)
          /\ IsLeaf(node) => path = Append(at, name)
          /\ ~IsLeaf(node) => MayBeDir(r.may[name])
      <4>1. Reads(route, r, node) /\ Awaits(route.dir, {name}, path)
        BY <1>3, <1>5, <3>1
      <4>2. Serves(path, route, r, node, name)
        BY <1>2, <1>9, <3>1, <4>1, EntryFits
      <4> QED
        BY <1>5, <4>2 DEF Serves
    <3>3. CASE IsLeaf(node)
      <4>1. AheadOf(At, nodes, wanted, node) /\ node = Len(nodes)
        BY <1>3, <3>3 DEF Reads, IsLeaf
      <4>2. ~Promise!Coded!HasRecursion(wanted)
        BY <4>1 DEF AheadOf
      <4>3. Found(Promise!Coded!Report(wanted, path))
        BY <1>4, <1>5, <3>2, <3>3, <4>2, ReportedAs
      <4>4. Promise!Coded!Report(wanted, path) \in DOMAIN found'
        BY <1>2, <4>3, FoundStays, ZenonT(60)
      <4> QED
        BY <1>1, <4>4 DEF Sourced, Promise!Coded!Report
    <3>4. CASE ~IsLeaf(node)
      <4>1. stack' = Append(stack, fork)
        BY <1>4, <1>5, <3>2, <3>4 DEF fork
      <4>2. Leads(fork.dir, path)
        BY <1>6, <1>7, <1>10, <1>11, <3>1, LeadsAppend
      <4>3. Len(stack) + 1 \in Routed(stack', open', path)
        BY <1>15, <4>1, <4>2
      <4> QED
        BY <4>3 DEF Sourced
    <3> QED
      BY <3>3, <3>4
  <2> QED
    BY <2>4, <2>5
<1> QED
  BY <1>16, <1>17, <1>18, <1>19 DEF Sourced

Passes(path, whole, reading, name) ==
  LET here == Append(whole, name)
  IN  /\ ~Skips(name, reading)
      /\ Len(path) = Len(whole) + 1 =>
           path = here /\ PathFits(Regexes(Head(recursive)), Append(reading.dir, name))
      /\ Len(path) # Len(whole) + 1 =>
           /\ IsDir(tree, GoesTo(name, reading))
           /\ Awaits(here, Names(tree, Promise!Coded!Spot(tree, Promise!Coded!Base(wanted), here)), path)

WalkedBy(rest, path, whole, base, dir, name) ==
  /\ WalksOn(tree, base, rest) /\ Promise!Coded!Covers(Behind(wanted), rest)
  /\ name \in Promise!Coded!On(tree, base, dir) /\ name \in Name
  /\ Len(path) = Len(whole) + 1 => rest = Append(dir, name)

\* A sequence is its last element behind the others.
LEMMA LastOfAll ==
  ASSUME NEW S, NEW s \in Seq(S), NEW d \in Nat, Len(s) = d + 1
  PROVE  s = Append(Upto(s, d), s[d + 1])
<1>1. d + 1 \in 0 .. Len(s) /\ d + 1 # 0 /\ (d + 1) - 1 = d
  OBVIOUS
<1>2. Upto(s, d + 1) = Append(Upto(s, (d + 1) - 1), s[d + 1]) /\ Upto(s, Len(s)) = s
  BY <1>1, UptoSteps, ZenonT(60)
<1> QED
  BY <1>1, <1>2

\* The names of a path that matches, behind those before **: where the walk has got to,
\* it goes on with the next of them.
LEMMA WalkPasses ==
  ASSUME PatternsAreRead, WalkTyped, outcome # "refused", Promise!Coded!HasRecursion(wanted),
         NEW path \in Promise!Coded!Matched(tree, wanted), NEW at \in Seq(Name), Len(at) = First(wanted) - 1,
         NEW dir \in Seq(Name), NEW whole \in Seq(Name), Together(whole, at, dir), NEW name, Awaits(whole, {name}, path),
         NEW base, base = Promise!Coded!Base(wanted) \o at
  PROVE  \E rest \in Seq(Name) : WalkedBy(rest, path, whole, base, dir, name)
<1>1. Readable(wanted) /\ Tidy(tree) /\ path \in Seq(Name) /\ Len(path) \in Nat
  <2>1. Readable(wanted) /\ Tidy(tree)
    BY DEF WalkTyped
  <2>2. path \in Seq(Name)
    BY <2>1, MatchedNames
  <2> QED
    BY <2>1, <2>2
<1>2. PICK n, k, d : n = Len(at) /\ k = Len(whole) + 1 /\ d = Len(dir)
  OBVIOUS
<1>3. /\ n \in 0 .. Len(path) /\ n = First(wanted) - 1 /\ d \in Nat /\ k = n + d + 1 /\ k \in 1 .. Len(path)
      /\ path[k] = name /\ Leads(whole, path) /\ Len(whole) = k - 1 /\ Together(whole, at, dir)
  <2>1. Len(whole) = n + d /\ n \in Nat /\ d \in Nat /\ Len(whole) \in Nat
    BY <1>2 DEF Together
  <2>2. path[k] = name /\ Leads(whole, path) /\ Len(whole) < Len(path)
    BY <1>2 DEF Awaits
  <2> QED
    BY <1>1, <1>2, <2>1, <2>2, SMTT(20)
<1>4. Upto(path, k - 1) = whole /\ Upto(whole, n) = at /\ Rest(whole, n) = dir
  <2>1. Upto(path, Len(whole)) = whole
    BY <1>1, <1>3, LeadsWhole
  <2>2. Upto(whole, Len(at)) = at /\ Rest(whole, Len(at)) = dir
    BY <1>3, ComesApart
  <2> QED
    BY <1>2, <1>3, <2>1, <2>2
<1>5. Upto(path, n) = at
  <2>1. k - 1 \in 0 .. Len(path) /\ n \in 0 .. (k - 1)
    BY <1>1, <1>3
  <2>2. Upto(Upto(path, k - 1), n) = Upto(path, n)
    BY <1>1, <2>1, UptoSteps
  <2> QED
    BY <1>4, <2>2
<1>6. PICK rest : rest = Rest(path, n)
  OBVIOUS
<1>7. /\ rest \in Seq(Name) /\ Len(rest) = Len(path) - n /\ d + 1 \in 1 .. Len(rest) /\ rest[d + 1] = name
  <2>1. path \in Seq(Name) /\ n \in 0 .. Len(path)
    BY <1>1, <1>3
  <2>2. /\ Rest(path, n) \in Seq(Name) /\ Len(Rest(path, n)) = Len(path) - n
        /\ \A i \in 1 .. (Len(path) - n) : Rest(path, n)[i] = path[n + i]
    BY <2>1, RestSteps
  <2>3. d + 1 \in 1 .. (Len(path) - n) /\ n + (d + 1) = k
    BY <1>1, <1>3
  <2> QED
    BY <1>3, <1>6, <2>2, <2>3
<1>8. Upto(path, n) \o Upto(rest, d) = Upto(path, n + d)
  <2>1. path \in Seq(Name) /\ n \in 0 .. Len(path) /\ d \in 0 .. (Len(path) - n)
    BY <1>1, <1>3
  <2>2. \A i \in 0 .. (Len(path) - n) : Upto(path, n) \o Upto(Rest(path, n), i) = Upto(path, n + i)
    BY <2>1, RestSteps
  <2> QED
    BY <1>6, <2>1, <2>2
<1>9. Upto(rest, d) = dir
  <2>1. PICK first : first = Upto(rest, d)
    OBVIOUS
  <2>2. first \in Seq(Name)
    <3>1. d \in 0 .. Len(rest)
      BY <1>3, <1>7, SMTT(20)
    <3> QED
      BY <1>7, <2>1, <3>1, UptoSteps
  <2>3. at \o first = whole
    <3>1. n + d = k - 1
      BY <1>3
    <3> QED
      BY <1>4, <1>5, <1>8, <2>1, <3>1
  <2>4. Together(whole, at, first)
    <3>1. Together(at \o first, at, first)
      BY <2>2, ConcatTogether
    <3> QED
      BY <2>3, <3>1
  <2>5. Rest(whole, Len(at)) = first
    BY <2>2, <2>4, ComesApart
  <2> QED
    BY <1>2, <1>4, <2>1, <2>5
<1>10. base \in Seq(Name)
  <2>1. Promise!Coded!Base(wanted) \in Seq(Name)
    BY <1>1, PatternTyped
  <2> QED
    BY <2>1, ConcatTogether
<1>11. WalksOn(tree, base, rest) /\ Promise!Coded!Covers(Behind(wanted), rest)
  <2>1. MatchesBehind(tree, wanted, path)
    BY <1>1, MatchedAre
  <2>2. /\ rest \in Promise!Coded!Below(tree, Promise!Coded!Base(wanted) \o Upto(path, n))
        /\ Promise!Coded!Covers(Behind(wanted), rest)
    BY <1>3, <1>6, <2>1 DEF MatchesBehind
  <2>3. rest \in Promise!Coded!Below(tree, base)
    BY <1>5, <2>2
  <2> QED
    BY <1>1, <1>10, <2>2, <2>3, BelowAre
<1>12. name \in Promise!Coded!On(tree, base, dir)
  <2>1. (d + 1) - 1 = d
    BY <1>3
  <2>2. rest[d + 1] \in Promise!Coded!On(tree, base, Upto(rest, (d + 1) - 1))
    BY <1>7, <1>11 DEF WalksOn
  <2> QED
    BY <1>7, <1>9, <2>1, <2>2
<1>13. name \in Name
  BY <1>1, <1>3
<1>14. Len(path) = Len(whole) + 1 => rest = Append(dir, name)
  <2> SUFFICES ASSUME Len(path) = Len(whole) + 1
               PROVE  rest = Append(dir, name)
    OBVIOUS
  <2>1. k = Len(path)
    BY <1>2
  <2>2. Len(rest) = d + 1
    BY ONLY <1>1, <1>3, <1>7, <2>1, SMTT(20)
  <2>3. rest = Append(Upto(rest, d), rest[d + 1])
    BY ONLY <1>3, <1>7, <2>2, LastOfAll
  <2> QED
    BY <1>7, <1>9, <2>3
<1> QED
  BY <1>7, <1>11, <1>12, <1>13, <1>14 DEF WalkedBy

\* An entry that leads to a path that matches is that path, and fits, or a directory that
\* the walk goes on with (RecursiveWalker::next).
LEMMA VisitPasses ==
  ASSUME PatternsAreMeant, WalkInv, Faithful, outcome = "walking", NEW path \in Promise!Coded!Matched(tree, wanted),
         NEW m, NEW reading, NEW whole, Recurs(reading, m, whole), Agrees(tree, reading),
         NEW name \in reading.must, Awaits(whole, {name}, path)
  PROVE  Passes(path, whole, reading, name)
<1>1. /\ PatternsAreRead /\ WalkTyped /\ outcome # "refused" /\ Tidy(tree) /\ Readable(wanted)
      /\ LeftNodes /\ WalksGo /\ TreeKnown
  BY DEF PatternsAreMeant, WalkInv, WalkTyped, Faithful
<1>2. PICK w, at, dir, base :
        w = Head(recursive) /\ at = w.dir /\ dir = reading.dir /\ base = Promise!Coded!Base(wanted) \o Head(recursive).dir
  OBVIOUS
<1>3. /\ w \in LeftSet /\ at \in Seq(Name) /\ dir \in Seq(Name) /\ whole \in Seq(Name)
      /\ Promise!Coded!HasRecursion(wanted) /\ Len(at) = First(wanted) - 1 /\ LeftTo(w)
  <2>1. /\ Head(recursive).dir \in Seq(Name) /\ Promise!Coded!HasRecursion(wanted) /\ whole \in Seq(Name)
        /\ Len(Head(recursive).dir) = First(wanted) - 1 /\ reading.dir \in Seq(Name)
        /\ 1 \in DOMAIN recursive /\ Head(recursive) = recursive[1] /\ recursive \in Seq(LeftSet)
    BY DEF Recurs
  <2>2. recursive[1] \in LeftSet
    BY <2>1
  <2> QED
    BY <1>1, <1>2, <2>1, <2>2 DEF LeftNodes
<1>4. Together(whole, at, dir)
  <2>1. whole = at \o dir
    BY <1>2 DEF Recurs
  <2> QED
    BY <1>3, <2>1, ConcatTogether
<1>5. base = Promise!Coded!Base(wanted) \o at
  BY <1>2
<1>6. PICK rest \in Seq(Name) :
        /\ WalksOn(tree, base, rest) /\ Promise!Coded!Covers(Behind(wanted), rest)
        /\ name \in Promise!Coded!On(tree, base, dir) /\ name \in Name
        /\ Len(path) = Len(whole) + 1 => rest = Append(dir, name)
  <2>1. \E rest \in Seq(Name) : WalkedBy(rest, path, whole, base, dir, name)
    BY <1>1, <1>3, <1>4, <1>5, WalkPasses
  <2> QED
    BY <2>1 DEF WalkedBy
<1>7. Append(reading.place, name) \in DOMAIN tree /\ tree[Append(reading.place, name)] = reading.may[name]
  BY DEF Agrees
<1>8. ~Skips(name, reading) /\ GoesTo(name, reading) = Promise!Coded!Spot(tree, base, Append(dir, name))
  BY <1>1, <1>2, <1>6, <1>7, OnFollowed
<1>9. Promise!Coded!Base(wanted) \in Seq(Name) /\ path \in Seq(Name) /\ Len(path) \in Nat /\ Len(whole) \in Nat
  <2>1. Promise!Coded!Base(wanted) \in Seq(Name) /\ path \in Seq(Name)
    BY <1>1, PatternTyped, MatchedNames
  <2> QED
    BY <1>3, <2>1
<1>10. Leads(whole, path) /\ Len(whole) < Len(path) /\ path[Len(whole) + 1] = name
  BY DEF Awaits
<1>11. PICK here : here = Append(whole, name)
  OBVIOUS
<1>12. here \in Seq(Name) /\ Len(here) = Len(whole) + 1 /\ Leads(here, path)
  <2>1. Leads(Append(whole, name), path)
    BY <1>3, <1>6, <1>9, LeadsAppend
  <2> QED
    BY <1>3, <1>6, <1>11, <2>1, AppendSteps
<1>13. Len(path) = Len(whole) + 1 => path = here /\ PathFits(Regexes(w), Append(dir, name))
  <2> SUFFICES ASSUME Len(path) = Len(whole) + 1
               PROVE  path = here /\ PathFits(Regexes(w), Append(dir, name))
    OBVIOUS
  <2>1. path = here
    BY <1>9, <1>12, LeadsWhole
  <2>2. base \in Seq(Name)
    BY <1>3, <1>5, <1>9, ConcatTogether
  <2>3. rest \in Seq(FileNames)
    BY <1>1, <1>6, <2>2, WalksOnKnown DEF TreeKnown
  <2>4. PathFits(Regexes(w), rest)
    BY <1>1, <1>3, <1>6, <2>3, RegexesFit
  <2> QED
    BY <1>6, <2>1, <2>4
<1>14. PICK place : place = Promise!Coded!Spot(tree, Promise!Coded!Base(wanted), here)
  OBVIOUS
<1>15. Len(path) # Len(whole) + 1 => Awaits(here, Names(tree, place), path) /\ IsDir(tree, place)
  <2> SUFFICES ASSUME Len(path) # Len(whole) + 1
               PROVE  Awaits(here, Names(tree, place), path) /\ IsDir(tree, place)
    OBVIOUS
  <2>1. Len(here) < Len(path)
    BY <1>9, <1>10, <1>12
  <2>2. Searched(wanted, Len(here) + 1)
    <3>1. Len(whole) = Len(at) + Len(dir) /\ Len(at) \in Nat /\ Len(dir) \in Nat
      BY <1>3, <1>4 DEF Together
    <3>2. First(wanted) \in Nat
      BY <1>1, FirstIs, PatternTyped
    <3> QED
      BY <1>3, <1>12, <3>1, <3>2 DEF Searched
  <2> QED
    BY <1>1, <1>12, <1>14, <2>1, <2>2, NextIsListed
<1>16. GoesTo(name, reading) = place
  <2>1. PICK further : further = Append(dir, name)
    OBVIOUS
  <2>2. further \in Seq(Name)
    BY <1>3, <1>6, <2>1, AppendSteps
  <2>3. Promise!Coded!Spot(tree, Promise!Coded!Base(wanted) \o at, further)
          = Promise!Coded!Spot(tree, Promise!Coded!Base(wanted), at \o further)
    BY <1>3, <1>9, <2>2, SpotFurther
  <2>4. at \o further = here
    <3>1. at \o Append(dir, name) = Append(at \o dir, name)
      BY <1>3, <1>6, AppendFurther
    <3>2. whole = at \o dir
      BY <1>2 DEF Recurs
    <3> QED
      BY <1>11, <2>1, <3>1, <3>2
  <2> QED
    BY <1>5, <1>8, <1>14, <2>1, <2>3, <2>4
<1> QED
  BY <1>2, <1>8, <1>11, <1>13, <1>14, <1>15, <1>16 DEF Passes

\* An entry of the walk that leads to a path that matches is found, or the directory is
\* opened that goes on to it, unless the walk panics (WalkEntry).
LEMMA WalkEntryCovered ==
  ASSUME PatternsAreMeant, WalkInv, Faithful, WalkEntry, NEW path \in Promise!Coded!Matched(tree, wanted), Sourced(path)
  PROVE  Sourced(path)' \/ outcome' # "walking"
<1>1. /\ Recurring /\ open # <<>> /\ stack = <<>> /\ stack' = <<>> /\ recursive' = recursive
      /\ outcome = "walking" /\ UNCHANGED <<tree, wanted, nodes, sometime>>
  BY DEF WalkEntry, Recurring, world
<1>2. /\ PatternsAreRead /\ WalkTyped /\ outcome # "refused" /\ ListingsHonest
  BY <1>1 DEF PatternsAreMeant, WalkInv, WalkTyped, Faithful
<1>3. PICK m, reading, whole :
        reading = Last(open) /\ whole = Head(recursive).dir \o Last(open).dir /\ Recurs(reading, m, whole)
  BY <1>1, <1>2, RecurringRecurs
<1>4. PICK name \in DOMAIN reading.may : Enters(name, m, reading, whole)
  BY <1>1, <1>2, <1>3, WalkEntered
<1>5. /\ m \in Nat \ {0} /\ DOMAIN open = 1 .. m /\ m \in DOMAIN open /\ reading = open[m] /\ reading \in Listings
      /\ reading.dir \in Seq(Name) /\ whole \in Seq(Name) /\ whole = Head(recursive).dir \o reading.dir
      /\ Promise!Coded!HasRecursion(wanted) /\ Head(recursive).dir \in Seq(Name)
  <2>1. /\ m \in Nat \ {0} /\ DOMAIN open = 1 .. m /\ reading = open[m] /\ reading \in Listings
        /\ reading.dir \in Seq(Name) /\ whole \in Seq(Name) /\ whole = Head(recursive).dir \o reading.dir
        /\ Promise!Coded!HasRecursion(wanted) /\ Head(recursive).dir \in Seq(Name)
    BY <1>3 DEF Recurs
  <2> QED
    BY <2>1
<1>6. PICK at, listed : at = Head(recursive).dir /\ listed = Listed(name, reading)
  OBVIOUS
<1>7. name \in Name /\ listed.dir = reading.dir /\ listed.must = reading.must \ {name}
  BY <1>5, <1>6, ListedOnce, SMTT(20)
<1>8. PICK n \in Nat : n = Len(open') /\ DOMAIN open' = 1 .. n /\ (n = m \/ n = m + 1)
  <2>1. open' \in Seq(Listings) /\ (Len(open') = m \/ Len(open') = m + 1)
    BY <1>4, <1>5, EnteredOpen
  <2>2. Len(open') \in Nat /\ DOMAIN open' = 1 .. Len(open')
    BY <2>1
  <2> QED
    BY <2>1, <2>2, Zenon
<1>9. (\A j \in 1 .. (m - 1) : open'[j] = open[j]) /\ open'[m] = listed
  BY <1>4, <1>5, <1>6, EnteredOpen
<1>10. /\ \A listing : Whole(stack, recursive, listing) = at \o listing.dir
       /\ \A listing : Whole(stack', recursive', listing) = at \o listing.dir
  BY <1>1, <1>6 DEF Whole
<1>11. Routed(stack, open, path) = {}
  BY <1>1 DEF Routed
<1>12. ASSUME NEW i \in Left(recursive, stack, open, path)
       PROVE  Left(recursive', stack', open', path) # {}
  <2>1. i \in Left(recursive', stack', open', path)
    BY <1>1, <1>12 DEF Left
  <2> QED
    BY <2>1
<1>13. CASE Promise!Coded!Report(wanted, path) \in DOMAIN found
  <2>1. (\E report : Found(report)) \/ found' = found
    BY <1>4, <1>5, EnteredOpen
  <2>2. DOMAIN found \subseteq DOMAIN found'
    BY <1>2, <2>1, FoundStays
  <2> QED
    BY <1>1, <1>13, <2>2 DEF Sourced, Promise!Coded!Report
<1>14. ASSUME NEW j \in Due(open, stack, recursive, path)
       PROVE  Sourced(path)' \/ outcome' # "walking"
  <2>1. j \in 1 .. m /\ Awaits(at \o open[j].dir, open[j].must, path)
    BY <1>5, <1>10, <1>14 DEF Due
  <2>2. CASE j # m
    <3>1. j \in 1 .. (m - 1) /\ j \in DOMAIN open'
      BY <1>5, <1>8, <2>1, <2>2
    <3>2. open'[j] = open[j]
      BY <1>9, <3>1
    <3>3. j \in Due(open', stack', recursive', path)
      BY <1>10, <2>1, <3>1, <3>2 DEF Due
    <3> QED
      BY <3>3 DEF Sourced
  <2>3. CASE j = m
    <3>1. Awaits(whole, reading.must, path) /\ m \in DOMAIN open'
      BY <1>5, <1>6, <1>8, <2>1, <2>3
    <3>2. PICK k : k = Len(whole) + 1
      OBVIOUS
    <3>3. path[k] \in reading.must /\ Leads(whole, path) /\ Len(whole) < Len(path)
      BY <3>1, <3>2 DEF Awaits
    <3>4. CASE path[k] # name
      <4>1. Awaits(whole, listed.must, path)
        BY <1>7, <3>2, <3>3, <3>4 DEF Awaits
      <4>2. Whole(stack', recursive', listed) = whole
        BY <1>5, <1>6, <1>7, <1>10
      <4>3. m \in Due(open', stack', recursive', path)
        BY <1>9, <3>1, <4>1, <4>2 DEF Due
      <4> QED
        BY <4>3 DEF Sourced
    <3>5. CASE path[k] = name
      <4>1. Awaits(whole, {name}, path) /\ name \in reading.must
        BY <3>2, <3>3, <3>5 DEF Awaits
      <4>2. Agrees(tree, reading)
        BY <1>2, <1>5 DEF ListingsHonest, Honest
      <4>3. PICK here : here = Append(whole, name)
        OBVIOUS
      <4>4. /\ ~Skips(name, reading)
            /\ Len(path) = Len(whole) + 1 =>
                 path = here /\ PathFits(Regexes(Head(recursive)), Append(reading.dir, name))
            /\ Len(path) # Len(whole) + 1 =>
                 /\ IsDir(tree, GoesTo(name, reading))
                 /\ Awaits(here, Names(tree, Promise!Coded!Spot(tree, Promise!Coded!Base(wanted), here)), path)
        <5>1. Passes(path, whole, reading, name)
          BY <1>1, <1>3, <4>1, <4>2, VisitPasses
        <5> QED
          BY <4>3, <5>1 DEF Passes
      <4>5. CASE Len(path) = Len(whole) + 1
        <5>1. IF wanted.absolute /\ ~IsPrefix(Home, here)
              THEN outcome' = "panicked" ELSE Found(Stripped(here))
          BY <1>4, <4>3, <4>4, <4>5 DEF Enters
        <5>2. CASE wanted.absolute /\ ~IsPrefix(Home, here)
          BY <5>1, <5>2
        <5>3. CASE ~(wanted.absolute /\ ~IsPrefix(Home, here))
          <6>1. Found(Stripped(here)) /\ (wanted.absolute => IsPrefix(Home, here))
            BY <5>1, <5>3
          <6>2. Stripped(here) = Promise!Coded!Report(wanted, here)
            BY <1>5, <6>1, ReportedAs
          <6>3. Promise!Coded!Report(wanted, path) \in DOMAIN found'
            BY <1>2, <4>4, <4>5, <6>1, <6>2, FoundStays, ZenonT(60)
          <6> QED
            BY <1>1, <6>3 DEF Sourced, Promise!Coded!Report
        <5> QED
          BY <5>2, <5>3
      <4>6. CASE Len(path) # Len(whole) + 1
        <5>1. PICK more : more = open'[m + 1]
          OBVIOUS
        <5>2. /\ Len(open') = m + 1 /\ more.dir = Append(reading.dir, name)
              /\ more.must = Names(tree, Promise!Coded!Spot(tree, Promise!Coded!Base(wanted), here))
          BY <1>4, <4>3, <4>4, <4>6, <5>1 DEF Enters
        <5>3. m + 1 \in DOMAIN open'
          BY <1>5, <1>8, <5>2
        <5>4. at \o more.dir = here
          <6>1. PICK dir : dir = reading.dir
            OBVIOUS
          <6>2. at \in Seq(Name) /\ dir \in Seq(Name) /\ name \in Name /\ whole = at \o dir
            BY <1>5, <1>6, <1>7, <6>1
          <6>3. at \o Append(dir, name) = Append(at \o dir, name)
            BY ONLY <6>2, AppendFurther
          <6> QED
            BY <4>3, <5>2, <6>1, <6>2, <6>3
        <5>5. Whole(stack', recursive', more) = here /\ Awaits(here, more.must, path)
          BY <1>10, <4>4, <4>6, <5>2, <5>4
        <5>6. m + 1 \in Due(open', stack', recursive', path)
          BY <5>1, <5>3, <5>5 DEF Due
        <5> QED
          BY <5>6 DEF Sourced
      <4> QED
        BY <4>5, <4>6
    <3> QED
      BY <3>4, <3>5
  <2> QED
    BY <2>2, <2>3
<1>15. CASE Left(recursive, stack, open, path) # {}
  BY <1>12, <1>15 DEF Sourced
<1>16. CASE Due(open, stack, recursive, path) # {}
  BY <1>14, <1>16
<1> QED
  BY <1>11, <1>13, <1>15, <1>16 DEF Sourced

\* What another process changes leaves a path due that still matches: the name of a file
\* that is removed is not its next one (Change).
LEMMA ChangeCovered ==
  ASSUME PatternsAreRead, WalkInv, Change,
         NEW path \in Promise!Coded!Matched(tree, wanted), path \in Promise!Coded!Matched(tree', wanted), Sourced(path)
  PROVE  Sourced(path)'
<1>1. /\ outcome = "walking" /\ UNCHANGED <<wanted, stack, recursive, found>>
      /\ WalkTyped /\ OpenAreRead /\ open \in Seq(Listings) /\ Tidy(tree) /\ Readable(wanted)
      /\ \A other \in Volatile \cap DOMAIN tree : tree[other] = Entry("file")
  BY DEF Change, WalkInv, WalkTyped
<1>2. PICK touched, files :
        /\ files = tree' /\ Touched(touched, files) /\ DOMAIN open' = DOMAIN open
        /\ open' \in Seq(Listings) /\ \A i \in DOMAIN open : Sees(touched, open[i], open'[i])
  BY <1>1, ChangeTouches
<1>3. open = <<>> <=> open' = <<>>
  BY <1>1, <1>2
<1>4. /\ Routed(stack, open, path)' = Routed(stack, open, path)
      /\ Left(recursive, stack, open, path)' = Left(recursive, stack, open, path)
      /\ Promise!Coded!Report(wanted, path)' = Promise!Coded!Report(wanted, path)
  BY <1>1, <1>3 DEF Routed, Left, Promise!Coded!Report
<1>5. path \in Promise!Coded!Matched(files, wanted) /\ Tidy(files) /\ Kept(tree, files) /\ Kept(files, tree)
  BY <1>1, <1>2, TouchedKept
<1>6. ASSUME NEW j \in Due(open, stack, recursive, path)
      PROVE  j \in Due(open', stack', recursive', path)
  <2>1. PICK listing, more, whole, k :
          listing = open[j] /\ more = open'[j] /\ whole = Whole(stack, recursive, open[j]) /\ k = Len(whole) + 1
    OBVIOUS
  <2>2. j \in DOMAIN open /\ j \in DOMAIN open' /\ Sees(touched, listing, more) /\ listing \in Listings
    BY <1>1, <1>2, <2>1 DEF Due
  <2>3. Whole(stack', recursive', more) = whole
    BY <1>1, <2>1, <2>2 DEF Sees, Whole
  <2>4. Awaits(whole, listing.must, path)
    BY <2>1 DEF Due
  <2>5. path[k] \in listing.must /\ Leads(whole, path) /\ Len(whole) < Len(path)
    BY <2>1, <2>4 DEF Awaits
  <2>6. path[k] \in more.must
    <3> SUFFICES ASSUME path[k] \notin more.must
                 PROVE  FALSE
      OBVIOUS
    <3>1. listing.place = Front(touched) /\ touched \in DOMAIN tree /\ path[k] = Last(touched)
      BY <2>2, <2>5 DEF Sees
    <3>2. whole \in Seq(Name) /\ Searched(wanted, k)
      BY <1>1, <2>1, <2>2, ReadIsSearched
    <3>3. ListingOf(tree, wanted, whole, listing)
      BY <1>1, <2>1, <2>2 DEF OpenAreRead
    <3>4. PICK base, place : base = Promise!Coded!Base(wanted) /\ place = Promise!Coded!Spot(files, base, whole)
      OBVIOUS
    <3>5. base \in Seq(Name)
      BY <1>1, <3>4, PatternTyped
    <3>6. listing.place = Promise!Coded!Spot(tree, base, whole) /\ IsDir(tree, Promise!Coded!Spot(tree, base, whole))
      BY <3>3, <3>4 DEF ListingOf
    <3>7. place = listing.place
      BY <1>1, <1>5, <3>2, <3>4, <3>5, <3>6, SpotKept
    <3>8. Awaits(whole, Names(files, place), path)
      <4>1. Searched(wanted, Len(whole) + 1)
        BY <2>1, <3>2
      <4> QED
        BY <1>1, <1>5, <2>5, <3>2, <3>4, <4>1, NextIsListed
    <3>9. Last(touched) \in Names(files, Front(touched))
      BY <2>1, <3>1, <3>7, <3>8 DEF Awaits
    <3>10. touched \in Seq(Name) /\ touched # <<>>
      BY <1>2, WalkerAssumption DEF Touched, IsPath
    <3>11. Front(touched) \in Seq(Name) /\ touched = Append(Front(touched), Last(touched))
      BY <3>10, FrontAndLast
    <3>12. Append(Front(touched), Last(touched)) \in DOMAIN files
      BY <1>5, <3>9, <3>11, NamesAre
    <3>13. touched \notin DOMAIN files
      BY <1>2, <3>1 DEF Touched
    <3> QED
      BY <3>11, <3>12, <3>13
  <2>7. Awaits(whole, more.must, path)
    BY <2>1, <2>5, <2>6 DEF Awaits
  <2> QED
    BY <2>1, <2>2, <2>3, <2>7 DEF Due
<1> QED
  BY <1>1, <1>4, <1>6 DEF Sourced

\* At first the walker that starts leads to everything.
LEMMA InitCovered ==
  ASSUME PatternsAreRead, Init
  PROVE  Covered
<1> SUFFICES ASSUME outcome = "walking", NEW path \in Promise!Coded!Matched(tree, wanted)
             PROVE  Sourced(path)
  BY DEF Covered
<1>1. stack = <<Route(1, <<>>, FALSE)>> /\ open = <<>>
  BY DEF Init
<1>2. PICK route : route = Route(1, <<>>, FALSE)
  OBVIOUS
<1>3. 1 \in DOMAIN stack /\ stack[1] = route
  BY <1>1, <1>2
<1>4. Leads(route.dir, path)
  <2>1. PICK dir : dir = route.dir
    OBVIOUS
  <2>2. dir = <<>>
    BY <1>2, <2>1 DEF Route
  <2>3. Len(dir) = 0
    BY <2>2
  <2>4. \A i : i \notin 1 .. Len(dir)
    BY <2>3
  <2>5. Len(dir) <= Len(path)
    <3>1. WalkInv
      BY InitInv
    <3>2. Readable(wanted) /\ Tidy(tree)
      BY <3>1 DEF WalkInv, WalkTyped
    <3>3. path \in Seq(Name)
      BY <3>2, MatchedNames
    <3>4. Len(path) \in Nat
      BY <3>3
    <3> QED
      BY <2>3, <3>4
  <2> QED
    BY <2>1, <2>4, <2>5 DEF Leads
<1>5. 1 \in Routed(stack, open, path)
  BY <1>1, <1>3, <1>4 DEF Routed
<1> QED
  BY <1>5 DEF Sourced

\* Every step keeps a source for what has matched all the time: the walker's own steps,
\* and a change by another process (Walker::next).
LEMMA NextCovered ==
  ASSUME PatternsAreMeant, WalkInv, SteadyMatch, Faithful, Covered, [Next]_vars
  PROVE  Covered'
<1> USE DEF PatternsAreMeant
<1>1. CASE UNCHANGED vars
  <2>1. UNCHANGED <<tree, wanted, nodes, stack, recursive, open, found, sometime, steady, outcome>>
    BY <1>1 DEF vars
  <2>2. \A path : Sourced(path)' = Sourced(path)
    BY <2>1 DEF Sourced, Routed, Left, Due, Whole, Awaits, Leads, Promise!Coded!Report
  <2> QED
    BY <2>1, <2>2 DEF Covered, Promise!Coded!Report
<1>2. CASE Step
  <2>1. tree' = tree /\ wanted' = wanted /\ steady' = steady /\ outcome = "walking"
    BY <1>2 DEF Step, AtEnd, Recur, OpenDir, NextEntry, EndOfDir, StartWalk, WalkEntry, EndOfWalk, Finish,
                world, Starting, Reading, Walking, Recurring
  <2>2. ASSUME NEW path \in Promise!Coded!Matched(tree, wanted), Sourced(path)
        PROVE  Sourced(path)' \/ outcome' # "walking"
    <3>1. CASE AtEnd
      BY <2>2, <3>1, AtEndCovered
    <3>2. CASE Recur
      BY <2>2, <3>2, RecurCovered
    <3>3. CASE OpenDir
      BY <2>2, <3>3, OpenDirCovered
    <3>4. CASE NextEntry
      BY <2>2, <3>4, NextEntryCovered
    <3>5. CASE EndOfDir
      BY <2>2, <3>5, EndOfDirCovered
    <3>6. CASE StartWalk
      BY <2>2, <3>6, StartWalkCovered
    <3>7. CASE WalkEntry
      BY <2>2, <3>7, WalkEntryCovered
    <3>8. CASE EndOfWalk
      BY <2>2, <3>8, EndOfWalkCovered
    <3>9. CASE Finish
      BY <3>9 DEF Finish
    <3> QED
      BY <1>2, <3>1, <3>2, <3>3, <3>4, <3>5, <3>6, <3>7, <3>8, <3>9 DEF Step
  <2>3. Promise!Coded!Matched(tree, wanted)' = Promise!Coded!Matched(tree, wanted)
        /\ \A path : Promise!Coded!Report(wanted, path)' = Promise!Coded!Report(wanted, path)
    BY <2>1
  <2> QED
    BY <2>1, <2>2, <2>3 DEF Covered
<1>3. CASE Change
  <2>1. WalkTyped /\ Tidy(tree) /\ Readable(wanted) /\ wanted' = wanted /\ outcome = "walking"
    BY <1>3 DEF WalkInv, WalkTyped, Change
  <2>2. steady' = steady \cap Promise!Coded!Matches(tree', wanted) /\ Tidy(tree')
    BY <1>3, <2>1, ChangeTouches
  <2>3. ASSUME NEW path \in Promise!Coded!Matched(tree', wanted), Promise!Coded!Report(wanted, path) \in steady'
        PROVE  Sourced(path)'
    <3>1. path \in Seq(Name)
      BY <2>1, <2>2, <2>3, MatchedNames
    <3>2. Promise!Coded!Report(wanted, path) \in steady
            /\ Promise!Coded!Report(wanted, path) \in Promise!Coded!Matches(tree, wanted)
      BY <2>2, <2>3 DEF SteadyMatch
    <3>3. PICK other \in Promise!Coded!Matched(tree, wanted) :
                 Promise!Coded!Report(wanted, path) = Promise!Coded!Report(wanted, other)
      BY <3>2 DEF Promise!Coded!Matches
    <3>4. other \in Seq(Name)
      BY <2>1, <3>3, MatchedNames
    <3>5. path = other
      BY <3>1, <3>3, <3>4, ReportsDiffer
    <3>6. path \in Promise!Coded!Matched(tree, wanted) /\ Sourced(path)
      BY <2>1, <3>2, <3>3, <3>5 DEF Covered
    <3> QED
      BY <1>3, <2>3, <3>6, ChangeCovered
  <2> QED
    BY <2>1, <2>3 DEF Covered
<1> QED
  BY <1>1, <1>2, <1>3 DEF Next, Ended

-----------------------------------------------------------------------------
(* Each step is one of the promise, or none.                               *)

Keeps == Promise!Next \/ UNCHANGED Promise!vars


\* A bag as a set.
LEMMA BagIsSet ==
  ASSUME NEW bag
  PROVE  BagToSet(bag) = DOMAIN bag
BY DEF BagToSet

\* A step that reports what has matched finds it, or has done so before.
LEMMA FoundKeeps ==
  ASSUME WalkTyped, outcome = "walking", NEW report \in sometime, Found(report),
         UNCHANGED <<tree, wanted, sometime, always, outcome>>
  PROVE  Keeps
<1>1. BagToSet(found)' = BagToSet(found) \cup {report}
  BY BagIsSet, FoundStays
<1>2. CASE report \in BagToSet(found)
  BY <1>1, <1>2 DEF Keeps, Promise!vars
<1>3. CASE report \notin BagToSet(found)
  BY <1>1, <1>3 DEF Keeps, Promise!Next, Promise!Find
<1> QED
  BY <1>2, <1>3

\* Literals that are found at the end of the nodes match (AtEnd).
LEMMA AtEndKeeps ==
  ASSUME PatternsAreMeant, WalkInv, Faithful, AtEnd
  PROVE  Keeps
<1> DEFINE candidate == NextCandidate(Head(stack))
           dir == candidate.route.dir
<1>1. /\ Starting /\ outcome = "walking" /\ stack # <<>> /\ UNCHANGED <<tree, wanted, sometime, always, outcome>>
      /\ ~candidate.some
      /\ IF candidate.route.literals /\ Resolve(tree, Located(dir)) # Absent
         THEN Found(Reported(dir)) ELSE found' = found
  BY DEF AtEnd, Starting, Walking, world
<1>2. /\ PatternsAreRead /\ PatternsAreRefused /\ WalkTyped /\ outcome # "refused" /\ Readable(wanted) /\ Tidy(tree)
      /\ RoutesFirm /\ NowWas
  BY <1>1 DEF PatternsAreMeant, WalkInv, WalkTyped, Faithful
<1>3. Stands(candidate)
  BY <1>1, <1>2, CandidateStands
<1>4. Firm(tree, wanted, dir)
  <2>1. Head(stack) = stack[1] /\ 1 \in DOMAIN stack
    BY <1>1, <1>2, TailSteps DEF WalkTyped
  <2> QED
    BY <1>1, <1>2, <2>1, CandidateFirm DEF RoutesFirm
<1>5. dir \in Seq(Name) /\ ~Promise!Coded!HasRecursion(wanted) /\ Len(dir) = Len(wanted.components)
  BY <1>1, <1>3 DEF Stands, RouteSet
<1> HIDE DEF candidate, dir
<1>6. CASE found' = found
  BY <1>1, <1>6 DEF Keeps, Promise!vars
<1>7. CASE Resolve(tree, Located(dir)) # Absent /\ Found(Reported(dir))
  <2>1. Promise!Coded!Spot(tree, Promise!Coded!Base(wanted), dir) # Absent
    BY <1>2, <1>5, <1>7, LocatedLeads
  <2>2. dir \in Promise!Coded!Matched(tree, wanted)
    BY <1>2, <1>4, <1>5, <2>1, LiteralsMatch
  <2>3. Promise!Coded!Report(wanted, dir) \in sometime
    BY <1>2, <2>2 DEF NowWas, Promise!Coded!Matches
  <2>4. Reported(dir) = Promise!Coded!Report(wanted, dir)
    BY <1>5, ReportedAs
  <2> QED
    BY <1>1, <1>2, <1>7, <2>3, <2>4, FoundKeeps
<1> QED
  BY <1>1, <1>6, <1>7

\* An entry that is found has matched: a file when it was listed, and anything else is
\* still there (NextEntry).
LEMMA NextEntryKeeps ==
  ASSUME PatternsAreMeant, WalkInv, Faithful, NextEntry
  PROVE  Keeps
<1> DEFINE route == Head(stack)
           node == route.next - 1
           reading == open[1]
<1>1. /\ outcome = "walking" /\ stack # <<>> /\ open # <<>> /\ Reading
      /\ UNCHANGED <<tree, wanted, sometime, always, outcome>>
  BY DEF NextEntry, Reading, Walking, world
<1>2. /\ PatternsAreRead /\ WalkTyped /\ outcome # "refused" /\ Readable(wanted) /\ Tidy(tree)
      /\ TreeKnown /\ ListingsHonest /\ RoutesFirm /\ NowWas
  BY <1>1 DEF PatternsAreMeant, WalkInv, WalkTyped, Faithful
<1>3. Reads(route, reading, node)
  BY <1>1, <1>2, ReadingReads
<1>4. PICK name \in DOMAIN reading.may :
        \/ NameFits(nodes[node], name) /\ IsLeaf(node) /\ Found(Reported(Append(route.dir, name)))
        \/ found' = found
  BY DEF NextEntry
<1>5. CASE found' = found
  BY <1>1, <1>5 DEF Keeps, Promise!vars
<1>6. CASE NameFits(nodes[node], name) /\ IsLeaf(node) /\ Found(Reported(Append(route.dir, name)))
  <2>1. PICK r, at, n, here : r = reading /\ at = route.dir /\ n = node /\ here = Append(route.dir, name)
    OBVIOUS
  <2>2. /\ route \in RouteSet /\ route = stack[1] /\ 1 \in DOMAIN stack /\ r \in Listings /\ r.dir = at
        /\ n \in 1 .. Len(nodes) /\ n = Len(nodes)
        /\ nodes[n].kind # "literals" /\ AheadOf(At, nodes, wanted, n) /\ At[n] = Len(at)
        /\ ListingOf(tree, wanted, at, r)
    BY <1>3, <1>6, <2>1 DEF Reads, IsLeaf
  <2>3. n = NodeAt(1) /\ 1 \in DOMAIN open /\ r = open[1] /\ Whole(stack, recursive, r) = at
    <3>1. n = NodeAt(1)
      BY <1>1, <2>1, <2>2 DEF NodeAt
    <3>2. 1 \in DOMAIN open
      BY <1>1, <1>2, TailSteps DEF WalkTyped
    <3> QED
      BY <1>1, <2>1, <2>2, <3>1, <3>2 DEF Whole
  <2>4. at \in Seq(Name) /\ name \in Name /\ Firm(tree, wanted, at)
    <3>1. at \in Seq(Name)
      BY <2>1, <2>2 DEF RouteSet
    <3>2. name \in Name
      BY <2>1, <2>2, ListedOnce
    <3> QED
      BY <1>2, <2>1, <2>2, <3>1, <3>2 DEF RoutesFirm
  <2> HIDE DEF route, node, reading
  <2>5. PICK results : results = Results(r.dir)
    OBVIOUS
  <2>6. name \in results /\ Honest(tree, wanted, sometime, r, at, results)
    <3>1. IsLeaf(NodeAt(1)) /\ NameFits(nodes[NodeAt(1)], name)
      BY <1>6, <2>1, <2>3
    <3> QED
      BY <1>1, <1>2, <2>3, <2>4, <2>5, <3>1 DEF ListingsHonest, Results
  <2>7. ~Promise!Coded!HasRecursion(wanted)
    BY <2>2 DEF AheadOf
  <2>8. Promise!Coded!Report(wanted, here) \in sometime
    <3>1. CASE r.may[name].kind = "file"
      BY <2>1, <2>6, <3>1 DEF Honest
    <3>2. CASE r.may[name].kind # "file"
      <4>1. PICK spot : spot = Promise!Coded!Spot(tree, Promise!Coded!Base(wanted), at)
        OBVIOUS
      <4>2. Append(spot, name) \in DOMAIN tree
        BY <2>1, <2>2, <3>2, <4>1 DEF ListingOf
      <4>3. spot \in Seq(Name)
        <5>1. Promise!Coded!Base(wanted) \in Seq(Name)
          BY <1>2, PatternTyped
        <5> QED
          BY <1>2, <2>4, <4>1, <5>1, SpotSteps
      <4>4. name \in Names(tree, spot)
        BY <1>2, <2>4, <4>2, <4>3, NamesAre
      <4>5. NameFits(nodes[n], name)
        BY <1>6, <2>1
      <4>6. Append(at, name) \in Promise!Coded!Matched(tree, wanted)
        BY <1>2, <2>2, <2>4, <4>1, <4>4, <4>5, LeafMatches DEF TreeKnown
      <4> QED
        BY <1>2, <2>1, <4>6 DEF NowWas, Promise!Coded!Matches
    <3> QED
      BY <3>1, <3>2
  <2>9. Found(Promise!Coded!Report(wanted, here))
    BY <1>6, <2>1, <2>7, ReportedAs
  <2> QED
    BY <1>1, <1>2, <2>8, <2>9, FoundKeeps
<1> QED
  BY <1>4, <1>5, <1>6

\* What a path that is visited is reported as has matched: a file when it was listed, and
\* anything else is still there (WalkEntry).
LEMMA VisitHasMatched ==
  ASSUME PatternsAreMeant, WalkInv, Faithful, outcome = "walking",
         NEW m, NEW reading, NEW whole, Recurs(reading, m, whole), NEW name \in DOMAIN reading.may,
         ~Skips(name, reading), PathFits(Regexes(Head(recursive)), Append(reading.dir, name))
  PROVE  Promise!Coded!Report(wanted, Append(whole, name)) \in sometime
<1>1. /\ PatternsAreRead /\ WalkTyped /\ outcome # "refused" /\ Tidy(tree) /\ Readable(wanted)
      /\ RoutesFirm /\ LeftNodes /\ WalksGo /\ ListingsHonest /\ TreeKnown /\ NowWas
  BY DEF PatternsAreMeant, WalkInv, WalkTyped, Faithful
<1>2. /\ stack = <<>> /\ recursive \in Seq(LeftSet) /\ 1 \in DOMAIN recursive /\ Head(recursive) = recursive[1]
      /\ Head(recursive).dir \in Seq(Name) /\ Promise!Coded!HasRecursion(wanted)
      /\ Len(Head(recursive).dir) = First(wanted) - 1
      /\ m \in DOMAIN open /\ reading = open[m] /\ reading \in Listings /\ reading.dir \in Seq(Name)
      /\ reading.place \in Seq(Name) /\ whole = Head(recursive).dir \o reading.dir /\ whole \in Seq(Name)
      /\ ListingOf(tree, wanted, whole, reading)
  BY DEF Recurs
<1>3. PICK w, at, dir, base :
        w = Head(recursive) /\ at = w.dir /\ dir = reading.dir /\ base = Promise!Coded!Base(wanted) \o Head(recursive).dir
  OBVIOUS
<1>4. /\ w \in LeftSet /\ LeftTo(w) /\ Firm(tree, wanted, at) /\ at \in Seq(Name) /\ dir \in Seq(Name)
      /\ whole = at \o dir /\ name \in Name
  <2>1. recursive[1] \in LeftSet
    BY <1>2
  <2>2. name \in Name
    BY <1>2, ListedOnce
  <2> QED
    BY <1>1, <1>2, <1>3, <2>1, <2>2 DEF RoutesFirm, LeftNodes
<1>5. Whole(stack, recursive, reading) = whole
  BY <1>2 DEF Whole
<1>6. name \in Results(dir) /\ Honest(tree, wanted, sometime, reading, whole, Results(dir))
  <2>1. name \in Results(dir)
    BY <1>2, <1>3, <1>4 DEF Results
  <2> QED
    BY <1>1, <1>2, <1>3, <1>5, <2>1 DEF ListingsHonest
<1>7. CASE reading.may[name].kind = "file"
  BY <1>6, <1>7 DEF Honest
<1>8. CASE reading.may[name].kind # "file"
  <2>1. Append(reading.place, name) \in DOMAIN tree /\ tree[Append(reading.place, name)] = reading.may[name]
    BY <1>2, <1>8 DEF ListingOf
  <2>2. name \in Promise!Coded!On(tree, base, dir)
    BY <1>1, <1>3, <1>4, <2>1, OnFollowed
  <2>3. base \in Seq(Name) /\ base = Promise!Coded!Base(wanted) \o at
    <3>1. Promise!Coded!Base(wanted) \in Seq(Name)
      BY <1>1, PatternTyped
    <3> QED
      BY <1>3, <1>4, <3>1, ConcatTogether
  <2>4. WalksOn(tree, base, dir)
    BY <1>1, <1>2, <1>3 DEF WalksGo, Chain
  <2>5. PICK further : further = Append(dir, name)
    OBVIOUS
  <2>6. WalksOn(tree, base, further) /\ further \in Seq(Name)
    BY <1>4, <2>2, <2>4, <2>5, WalkFurther, AppendSteps
  <2>7. PathFits(Regexes(w), further)
    BY <1>3, <2>5
  <2>8. w.dir \o further \in Promise!Coded!Matched(tree, wanted)
    <3>1. WalksOn(tree, Promise!Coded!Base(wanted) \o w.dir, further) /\ Len(w.dir) = First(wanted) - 1
      BY <1>2, <1>3, <2>3, <2>6
    <3>2. Firm(tree, wanted, w.dir)
      BY <1>3, <1>4
    <3> QED
      BY <1>1, <1>2, <1>4, <2>6, <2>7, <3>1, <3>2, VisitMatches DEF TreeKnown
  <2>9. at \o further = Append(whole, name)
    <3>1. at \o Append(dir, name) = Append(at \o dir, name)
      BY ONLY <1>4, AppendFurther
    <3> QED
      BY <1>4, <2>5, <3>1
  <2>10. Append(whole, name) \in Promise!Coded!Matched(tree, wanted)
    BY <1>3, <2>8, <2>9
  <2> QED
    BY <1>1, <2>10 DEF NowWas, Promise!Coded!Matches
<1> QED
  BY <1>7, <1>8

\* An entry of the walk that is found has matched, and so has one that lies outside of
\* where the walk began (WalkEntry).
LEMMA WalkEntryKeeps ==
  ASSUME PatternsAreMeant, WalkInv, Faithful, WalkEntry
  PROVE  Keeps
<1>1. /\ Recurring /\ open # <<>> /\ outcome = "walking" /\ UNCHANGED <<tree, wanted, sometime, always>>
  BY DEF WalkEntry, Recurring, world
<1>2. PatternsAreRead /\ WalkTyped
  BY DEF PatternsAreMeant, WalkInv
<1>3. PICK m, reading, whole : Recurs(reading, m, whole)
  BY <1>1, <1>2, RecurringRecurs
<1>4. PICK name \in DOMAIN reading.may : Enters(name, m, reading, whole)
  BY <1>1, <1>2, <1>3, WalkEntered
<1>5. PICK here : here = Append(whole, name)
  OBVIOUS
<1>6. /\ Promise!Coded!HasRecursion(wanted) /\ wanted \in Wanted
  BY <1>2, <1>3 DEF Recurs, WalkTyped
<1>7. CASE found' = found /\ outcome' = outcome
  BY <1>1, <1>7 DEF Keeps, Promise!vars
<1>8. CASE ~Skips(name, reading) /\ PathFits(Regexes(Head(recursive)), Append(reading.dir, name))
  <2>1. Promise!Coded!Report(wanted, here) \in sometime
    BY <1>1, <1>3, <1>5, <1>8, VisitHasMatched
  <2>2. CASE wanted.absolute /\ ~IsPrefix(Home, here)
    <3>1. outcome' = "panicked" /\ found' = found
      BY <1>4, <1>5, <1>8, <2>2 DEF Enters
    <3>2. ~Promise!CanReport(Promise!Coded!Report(wanted, here))
      BY <1>6, <2>2 DEF Promise!CanReport, Promise!Coded!Report, Promise!Coded!IsPrefix, IsPrefix
    <3>3. BagToSet(found)' = BagToSet(found)
      BY <3>1
    <3> QED
      BY <1>1, <2>1, <3>1, <3>2, <3>3 DEF Keeps, Promise!Next, Promise!Fail
  <2>3. CASE ~(wanted.absolute /\ ~IsPrefix(Home, here))
    <3>1. Found(Stripped(here)) /\ outcome' = outcome
      BY <1>4, <1>5, <1>8, <2>3 DEF Enters
    <3>2. Stripped(here) = Promise!Coded!Report(wanted, here)
      BY <1>6, <2>3, ReportedAs
    <3> QED
      BY <1>1, <1>2, <2>1, <3>1, <3>2, FoundKeeps
  <2> QED
    BY <2>2, <2>3
<1> QED
  BY <1>4, <1>7, <1>8 DEF Enters

\* What has matched in both readings all the time has matched as coded.
AlwaysSteady == always \subseteq steady

\* At first and with every step, what matched in both readings matched as coded.
LEMMA AlwaysKept ==
  ASSUME WalkInv
  PROVE  (Init => AlwaysSteady) /\ (AlwaysSteady /\ [Next]_vars => AlwaysSteady')
<1>1. Init => AlwaysSteady
  BY DEF Init, AlwaysSteady
<1>2. ASSUME AlwaysSteady, Change
      PROVE  AlwaysSteady'
  <2>1. always' = always \cap (Promise!Coded!Matches(tree', wanted) \cap Promise!Documented!Matches(tree', wanted))
        /\ steady' = steady \cap Promise!Coded!Matches(tree', wanted)
    BY <1>2, ChangeTouches DEF WalkInv
  <2> QED
    BY <1>2, <2>1 DEF AlwaysSteady
<1>3. ASSUME AlwaysSteady, Step \/ UNCHANGED vars
      PROVE  AlwaysSteady'
  <2>1. UNCHANGED <<always, steady>>
    BY <1>3 DEF Step, AtEnd, Recur, OpenDir, NextEntry, EndOfDir, StartWalk, WalkEntry, EndOfWalk, Finish,
                world, vars
  <2> QED
    BY <1>3, <2>1 DEF AlwaysSteady
<1> QED
  BY <1>1, <1>2, <1>3 DEF Next, Ended

\* When nothing is left to do, all that has matched all the time is found (Finish).
LEMMA FinishKeeps ==
  ASSUME PatternsAreRead, WalkInv, SteadyMatch, AlwaysSteady, Covered, Finish
  PROVE  Keeps
<1>1. /\ outcome = "walking" /\ stack = <<>> /\ recursive = <<>> /\ outcome' = "done"
      /\ UNCHANGED <<tree, wanted, found, sometime, always>>
  BY DEF Finish, world
<1>2. open = <<>>
  BY <1>1 DEF WalkInv, OpenAreRead
<1>3. ASSUME NEW report \in steady
      PROVE  report \in DOMAIN found
  <2>1. PICK path \in Promise!Coded!Matched(tree, wanted) : report = Promise!Coded!Report(wanted, path)
    BY <1>3 DEF SteadyMatch, Promise!Coded!Matches
  <2>2. Sourced(path)
    BY <1>1, <1>3, <2>1 DEF Covered
  <2>3. Routed(stack, open, path) = {} /\ Left(recursive, stack, open, path) = {} /\ Due(open, stack, recursive, path) = {}
    BY <1>1, <1>2 DEF Routed, Left, Due
  <2> QED
    BY <2>1, <2>2, <2>3 DEF Sourced
<1>4. always \subseteq BagToSet(found) /\ BagToSet(found)' = BagToSet(found)
  BY <1>1, <1>3, BagIsSet DEF AlwaysSteady
<1> QED
  BY <1>1, <1>4 DEF Keeps, Promise!Next, Promise!Finish

\* A file that comes or goes changes the tree (Change).
LEMMA ChangeKeeps ==
  ASSUME WalkInv, Change
  PROVE  Keeps
<1>1. /\ outcome = "walking" /\ UNCHANGED <<wanted, found, outcome>> /\ WalkTyped
  BY DEF Change, WalkInv
<1>2. PICK touched : /\ Touched(touched, tree')
                     /\ sometime' = sometime \cup (Promise!Coded!Matches(tree', wanted) \cup
                                                 Promise!Documented!Matches(tree', wanted))
                     /\ always' = always \cap (Promise!Coded!Matches(tree', wanted) \cap
                                             Promise!Documented!Matches(tree', wanted))
  BY <1>1, ChangeTouches
<1>3. tree' # tree
  BY <1>2 DEF Touched
<1>4. BagToSet(found)' = BagToSet(found)
  BY <1>1
<1> QED
  BY <1>1, <1>2, <1>3, <1>4 DEF Keeps, Promise!Next, Promise!Change

\* A walk begins as the promise does, and a pattern that is refused is none.
LEMMA InitKeeps ==
  ASSUME PatternsAreRefused, Init
  PROVE  Promise!Init
<1>1. /\ wanted \in Wanted /\ found = EmptyBag
      /\ sometime = Promise!Coded!Matches(tree, wanted) \cup Promise!Documented!Matches(tree, wanted)
      /\ always = Promise!Coded!Matches(tree, wanted) \cap Promise!Documented!Matches(tree, wanted)
      /\ outcome = IF Refused(Components(wanted)) THEN "refused" ELSE "walking"
  BY DEF Init
<1>2. BagToSet(found) = {}
  <2>1. DOMAIN EmptyBag = {}
    BY DEF EmptyBag, SetToBag
  <2> QED
    BY <1>1, <2>1, BagIsSet
<1>3. Refused(Components(wanted)) <=> \E i \in DOMAIN wanted.components : wanted.components[i].kind = "broken"
  BY <1>1 DEF PatternsAreRefused
<1> QED
  BY <1>1, <1>2, <1>3 DEF Promise!Init

\* Every step is one of the promise, or changes nothing that it is about.
LEMMA NextKeeps ==
  ASSUME PatternsAreMeant, WalkInv, SteadyMatch, AlwaysSteady, Faithful, Covered, [Next]_vars
  PROVE  [Promise!Next]_Promise!vars
<1>1. PatternsAreRead
  BY DEF PatternsAreMeant
<1>2. CASE UNCHANGED vars
  BY <1>2 DEF vars, Promise!vars
<1>3. CASE Recur \/ OpenDir \/ EndOfDir \/ StartWalk \/ EndOfWalk
  <2>1. UNCHANGED <<tree, wanted, found, sometime, always, outcome>>
    BY <1>3 DEF Recur, OpenDir, EndOfDir, StartWalk, EndOfWalk, world
  <2> QED
    BY <2>1 DEF Promise!vars
<1>4. CASE AtEnd
  BY <1>4, AtEndKeeps DEF Keeps
<1>5. CASE NextEntry
  BY <1>5, NextEntryKeeps DEF Keeps
<1>6. CASE WalkEntry
  BY <1>6, WalkEntryKeeps DEF Keeps
<1>7. CASE Finish
  BY <1>1, <1>7, FinishKeeps DEF Keeps
<1>8. CASE Change
  BY <1>8, ChangeKeeps DEF Keeps
<1> QED
  BY <1>2, <1>3, <1>4, <1>5, <1>6, <1>7, <1>8 DEF Next, Step, Ended

\* The walker keeps the promise of filename generation, for every file tree, every set of
\* patterns that are read as they are meant, and whatever other processes create or remove:
\* what it reports has matched, what matched all the time is not missed, and it panics only
\* if something matched outside of where it began (Glob::walk, Walker::next).
THEOREM WalkerKeepsPromise ==
  ASSUME PatternsAreMeant
  PROVE  Spec => Implements
<1> DEFINE Inv == WalkInv /\ SteadyMatch /\ AlwaysSteady /\ OneSource /\ Faithful /\ Covered
<1>1. PatternsAreRead /\ PatternsAreRefused
  BY DEF PatternsAreMeant
<1>2. Init => Inv
  BY <1>1, InitInv, InitSole, AlwaysKept, InitFaithful, InitCovered
<1>3. Inv /\ [Next]_vars => Inv'
  BY <1>1, NextInv, NextSole, AlwaysKept, NextFaithful, NextCovered
<1>4. Init => Promise!Init
  BY <1>1, InitKeeps
<1>5. Inv /\ [Next]_vars => [Promise!Next]_Promise!vars
  BY NextKeeps
<1> QED
  BY <1>2, <1>3, <1>4, <1>5, PTL DEF Spec, Implements, Promise!Spec
==============================================================================
