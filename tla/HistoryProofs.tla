---------------------------- MODULE HistoryProofs ----------------------------
(* Proofs about History, for every set of shells and of lines.             *)
EXTENDS History, InductionFacts, SequenceTheorems, TLAPS

\* An add that is under way is not the absence of one.
LEMMA RecordNotEmpty ==
    ASSUME NEW line, NEW step, NEW last
    PROVE  [line |-> line, step |-> step, last |-> last] # << >>
<1>1. "line" \in DOMAIN [line |-> line, step |-> step, last |-> last]
  OBVIOUS
<1>2. DOMAIN << >> = {}
  OBVIOUS
<1> QED
  BY <1>1, <1>2

\* A shell that takes no part in a step keeps what is known of it: rows are
\* only ever added behind those it has seen.
LEMMA Bystander ==
    ASSUME Types, NEW t \in Shells, Pending(t), Recallable(t),
           adding'[t] = adding[t], entered'[t] = entered[t],
           NEW line, history' = history \/ history' = Append(history, line)
    PROVE  Pending(t)' /\ Recallable(t)'
<1>1. history \in Seq(Lines) /\ Len(history) \in Nat
  BY DEF Types
<1>2. entered[t] \in Seq(Lines) /\ Len(entered[t]) \in Nat
  BY DEF Types
<1>3. adding[t] = << >> \/ adding[t].last \in Nat
  BY DEF Types
<1>4. /\ Len(history') \in Nat /\ Len(history) <= Len(history')
      /\ \A i \in 1 .. Len(history) : history'[i] = history[i]
  BY <1>1
<1>5. Pending(t)'
  BY <1>1, <1>3, <1>4 DEF Pending
<1>6. Added(t)' = Added(t) /\ Added(t) \in Int
  BY <1>2 DEF Added
<1>7. Seen(t) \in Nat /\ Seen(t)' \in Nat /\ Seen(t) <= Seen(t)' /\ Seen(t) <= Len(history)
  BY <1>1, <1>3, <1>4 DEF Seen, At, Pending
<1>8. PICK at \in [1 .. Added(t) -> 1 .. Seen(t)] : InOrder(t, at)
  BY DEF Recallable
<1>9. at \in [1 .. Added(t)' -> 1 .. Seen(t)']
  BY <1>6, <1>7
<1>10. /\ \A k \in 1 .. Added(t) : history'[at[k]] = entered'[t][k]
       /\ \A k \in 1 .. Added(t) - 1 : at[k] <= at[k + 1]
  BY <1>4, <1>7, <1>8 DEF InOrder
<1> QED
  BY <1>5, <1>6, <1>9, <1>10 DEF Recallable, InOrder

\* Initially no line was entered.
LEMMA InitIInv == Init => IInv
<1> SUFFICES ASSUME Init PROVE IInv
  OBVIOUS
<1>1. Types
  BY DEF Init, Types
<1>2. ASSUME NEW s \in Shells PROVE Pending(s) /\ Recallable(s)
  <2>1. Added(s) = 0 /\ Seen(s) = 0
    BY DEF Init, Added, Seen, At
  <2>2. [k \in 1 .. 0 |-> 1] \in [1 .. Added(s) -> 1 .. Seen(s)]
    BY <2>1
  <2>3. InOrder(s, [k \in 1 .. 0 |-> 1])
    BY <2>1 DEF InOrder
  <2> QED
    BY <2>2, <2>3 DEF Init, Pending, Recallable
<1> QED
  BY <1>1, <1>2 DEF IInv

\* The line is entered before it is added: no line more counts as added.
LEMMA AddIInv ==
    ASSUME IInv, NEW s \in Shells, NEW line \in Lines, Add(s, line)
    PROVE  IInv'
<1> DEFINE new == [line |-> line, step |-> "last", last |-> 0]
<1>1. /\ Types /\ Pending(s) /\ Recallable(s) /\ adding[s] = << >>
      /\ history' = history
      /\ entered' = [entered EXCEPT ![s] = Append(@, line)]
      /\ adding' = [adding EXCEPT ![s] = new]
  BY DEF IInv, Add
<1>2. entered[s] \in Seq(Lines) /\ Len(entered[s]) \in Nat /\ Len(history) \in Nat
  BY <1>1 DEF Types
<1>3. entered'[s] = Append(entered[s], line) /\ adding'[s] = new /\ new # << >>
  BY <1>1, RecordNotEmpty DEF Types
<1>4. Types'
  BY <1>1, <1>2 DEF Types
<1>5. Pending(s)'
  BY <1>1, <1>2, <1>3 DEF Pending
<1>6. Recallable(s)'
  <2>1. Added(s)' = Added(s) /\ Added(s) = Len(entered[s])
    <3>1. Len(entered'[s]) = Len(entered[s]) + 1 /\ adding'[s] # << >>
      BY <1>2, <1>3
    <3> QED
      BY <1>1, <1>2, <3>1 DEF Added
  <2>2. Seen(s)' = Seen(s)
    BY <1>1, <1>3 DEF Seen, At
  <2>3. PICK at \in [1 .. Added(s) -> 1 .. Seen(s)] : InOrder(s, at)
    BY <1>1 DEF Recallable
  <2>4. \A k \in 1 .. Added(s) : entered'[s][k] = entered[s][k]
    BY <1>2, <1>3, <2>1
  <2>5. /\ \A k \in 1 .. Added(s)' : history'[at[k]] = entered'[s][k]
        /\ \A k \in 1 .. Added(s)' - 1 : at[k] <= at[k + 1]
    BY <1>1, <2>1, <2>3, <2>4 DEF InOrder
  <2> QED
    BY <2>1, <2>2, <2>5 DEF Recallable, InOrder
<1>7. ASSUME NEW t \in Shells, t # s PROVE Pending(t)' /\ Recallable(t)'
  <2>1. adding'[t] = adding[t] /\ entered'[t] = entered[t]
    BY <1>1, <1>7 DEF Types
  <2> QED
    BY <1>1, <2>1, Bystander DEF IInv
<1> QED
  BY <1>4, <1>5, <1>6, <1>7 DEF IInv

\* A step of s that leaves its lines entered, adds none and hides no row.
LEMMA SameRows ==
    ASSUME IInv, NEW s \in Shells, UNCHANGED <<history, entered>>,
           Added(s)' = Added(s), Seen(s) \in Nat, Seen(s)' \in Nat, Seen(s) <= Seen(s)'
    PROVE  Recallable(s)'
<1>1. PICK at \in [1 .. Added(s) -> 1 .. Seen(s)] : InOrder(s, at)
  BY DEF IInv, Recallable
<1>2. at \in [1 .. Added(s)' -> 1 .. Seen(s)']
  OBVIOUS
<1>3. /\ \A k \in 1 .. Added(s)' : history'[at[k]] = entered'[s][k]
      /\ \A k \in 1 .. Added(s)' - 1 : at[k] <= at[k + 1]
  BY <1>1 DEF InOrder
<1> QED
  BY <1>2, <1>3 DEF Recallable, InOrder

\* The newest row is read: every row of s is one of those up to it.
LEMMA QueryLastIInv ==
    ASSUME IInv, NEW s \in Shells, QueryLast(s)
    PROVE  IInv'
<1>1. /\ Types /\ Pending(s) /\ adding[s] # << >> /\ adding[s].step = "last"
      /\ history' = history /\ entered' = entered
      /\ adding' = [adding EXCEPT ![s].last = LastRow,
                                  ![s].step = IF LastRow = 0 THEN "insert" ELSE "get"]
  BY DEF IInv, QueryLast, At
<1>2. LastRow = Len(history) /\ LastRow \in Nat
  BY <1>1 DEF Types, LastRow
<1>3. adding[s] \in [line : Lines, step : {"last", "get", "insert", "dead"}, last : Nat]
  BY <1>1 DEF Types
<1>4. adding'[s] = [line |-> adding[s].line,
                    step |-> IF LastRow = 0 THEN "insert" ELSE "get", last |-> LastRow]
  BY <1>1, <1>3 DEF Types
<1>5. Types'
  BY <1>1, <1>2, <1>3, <1>4 DEF Types
<1>6. /\ adding'[s] # << >>
      /\ adding'[s].line = adding[s].line /\ adding'[s].last = Len(history)
      /\ adding'[s].step = "get" <=> Len(history) # 0
  BY <1>2, <1>4, RecordNotEmpty
<1>7. Pending(s)'
  <2>1. Len(entered[s]) > 0 /\ entered[s][Len(entered[s])] = adding[s].line
    BY <1>1 DEF Pending
  <2>2. history' = history /\ entered' = entered /\ Len(history) \in Nat
    BY <1>1, <1>2
  <2> QED
    BY <1>6, <2>1, <2>2 DEF Pending
<1>8. Recallable(s)'
  <2>1. Added(s)' = Added(s)
    BY <1>1, <1>6 DEF Added
  <2>2. Seen(s) = Len(history) /\ Seen(s)' = Len(history)
    <3>1. ~At(s, "get")
      BY <1>1 DEF At
    <3>2. (IF At(s, "get")' THEN adding'[s].last ELSE Len(history')) = Len(history)
      BY <1>1, <1>6
    <3> QED
      BY <3>1, <3>2 DEF Seen
  <2> QED
    BY <1>1, <1>2, <2>1, <2>2, SameRows
<1>9. ASSUME NEW t \in Shells, t # s PROVE Pending(t)' /\ Recallable(t)'
  <2>1. adding'[t] = adding[t] /\ entered'[t] = entered[t]
    BY <1>1, <1>9 DEF Types
  <2> QED
    BY <1>1, <2>1, Bystander DEF IInv
<1> QED
  BY <1>5, <1>7, <1>8, <1>9 DEF IInv

\* One more line of s counts as added, and is at a row no earlier than the others.
LEMMA OneMore ==
    ASSUME IInv, NEW s \in Shells, adding[s] # << >>, adding'[s] = << >>,
           entered' = entered,
           NEW row \in Nat, row > 0, row <= Seen(s)', Seen(s) <= row,
           Seen(s) \in Nat, Seen(s)' \in Nat,
           history'[row] = adding[s].line,
           \A i \in 1 .. Seen(s) : history'[i] = history[i]
    PROVE  Recallable(s)'
<1> DEFINE n == Len(entered[s])
<1>1. n \in Nat /\ n > 0 /\ entered[s][n] = adding[s].line
  BY DEF IInv, Types, Pending
<1>2. Added(s) = n - 1 /\ Added(s)' = n
  BY <1>1 DEF Added
<1> HIDE DEF n
<1>3. PICK at \in [1 .. Added(s) -> 1 .. Seen(s)] : InOrder(s, at)
  BY DEF IInv, Recallable
<1>4. \A k \in 1 .. n - 1 : at[k] \in 1 .. Seen(s)
  BY <1>1, <1>2, <1>3
<1> DEFINE more == [k \in 1 .. n |-> IF k = n THEN row ELSE at[k]]
<1>5. more \in [1 .. n -> 1 .. Seen(s)']
  BY <1>1, <1>4
<1>6. /\ \A k \in 1 .. n - 1 : more[k] = at[k]
      /\ more[n] = row
  BY <1>1
<1> HIDE DEF more
<1>7. \A k \in 1 .. n : history'[more[k]] = entered[s][k]
  <2> SUFFICES ASSUME NEW k \in 1 .. n PROVE history'[more[k]] = entered[s][k]
    OBVIOUS
  <2>1. CASE k = n
    BY <1>1, <1>6, <2>1
  <2>2. CASE k # n
    <3>1. k \in 1 .. n - 1
      BY <1>1, <2>2
    <3>2. history[at[k]] = entered[s][k]
      BY <1>2, <1>3, <3>1 DEF InOrder
    <3> QED
      BY <1>4, <1>6, <3>1, <3>2
  <2> QED
    BY <2>1, <2>2
<1>8. \A k \in 1 .. n - 1 : more[k] <= more[k + 1]
  <2> SUFFICES ASSUME NEW k \in 1 .. n - 1 PROVE more[k] <= more[k + 1]
    OBVIOUS
  <2>1. CASE k + 1 = n
    BY <1>1, <1>4, <1>6, <2>1
  <2>2. CASE k + 1 # n
    <3>1. k \in 1 .. n - 1 - 1 /\ k + 1 \in 1 .. n - 1
      BY <1>1, <2>2
    <3>2. at[k] <= at[k + 1]
      BY <1>2, <1>3, <3>1 DEF InOrder
    <3> QED
      BY <1>6, <3>1, <3>2
  <2> QED
    BY <2>1, <2>2
<1> QED
  BY <1>2, <1>5, <1>7, <1>8 DEF Recallable, InOrder

\* A line that repeats the row read can be recalled from that row; it is behind
\* every row of the shell even if other shells have added rows since.
LEMMA QueryGetIInv ==
    ASSUME IInv, NEW s \in Shells, QueryGet(s)
    PROVE  IInv'
<1> DEFINE repeats == history[adding[s].last] = adding[s].line
<1>1. /\ Types /\ Pending(s) /\ At(s, "get") /\ adding[s] # << >>
      /\ history' = history /\ entered' = entered
      /\ adding' = [adding EXCEPT ![s] = IF repeats THEN << >>
                                                    ELSE [adding[s] EXCEPT !.step = "insert"]]
  BY DEF IInv, QueryGet, At
<1>2. /\ Len(history) \in Nat
      /\ adding[s] \in [line : Lines, step : {"last", "get", "insert", "dead"}, last : Nat]
  BY <1>1 DEF Types
<1>3. /\ adding[s].last \in 1 .. Len(history)
      /\ Len(entered[s]) > 0 /\ entered[s][Len(entered[s])] = adding[s].line
  BY <1>1, <1>2 DEF Pending, At
<1>4. Seen(s) = adding[s].last
  BY <1>1 DEF Seen
<1>5. ASSUME NEW t \in Shells, t # s PROVE Pending(t)' /\ Recallable(t)'
  <2>1. adding'[t] = adding[t] /\ entered'[t] = entered[t]
    BY <1>1, <1>5 DEF Types
  <2> QED
    BY <1>1, <2>1, Bystander DEF IInv
<1>6. CASE repeats
  <2>1. adding' = [adding EXCEPT ![s] = << >>] /\ adding'[s] = << >>
    BY <1>1, <1>6 DEF Types
  <2>2. Types'
    BY <1>1, <2>1 DEF Types
  <2>3. Seen(s)' = Len(history)
    BY <1>1, <2>1 DEF Seen, At
  <2>4. Recallable(s)'
    <3>1. /\ adding[s].last \in Nat /\ adding[s].last > 0 /\ adding[s].last <= Seen(s)'
          /\ Seen(s) <= adding[s].last /\ Seen(s) \in Nat /\ Seen(s)' \in Nat
      BY <1>2, <1>3, <1>4, <2>3
    <3>2. history'[adding[s].last] = adding[s].line
      BY <1>1, <1>6
    <3> QED
      BY <1>1, <2>1, <3>1, <3>2, OneMore
  <2>5. Pending(s)'
    BY <2>1 DEF Pending
  <2> QED
    BY <1>5, <2>2, <2>4, <2>5 DEF IInv
<1>7. CASE ~repeats
  <2>1. /\ adding' = [adding EXCEPT ![s] = [line |-> adding[s].line, step |-> "insert",
                                            last |-> adding[s].last]]
        /\ adding'[s] = [line |-> adding[s].line, step |-> "insert", last |-> adding[s].last]
    <3>1. [adding[s] EXCEPT !.step = "insert"] =
             [line |-> adding[s].line, step |-> "insert", last |-> adding[s].last]
      BY <1>2
    <3> QED
      BY <1>1, <1>7, <3>1 DEF Types
  <2>2. adding'[s] # << >>
    BY <2>1, RecordNotEmpty
  <2>3. Types'
    BY <1>1, <1>2, <2>1 DEF Types
  <2>4. Pending(s)'
    BY <1>1, <1>3, <2>1 DEF Pending
  <2>5. Seen(s)' = Len(history)
    BY <1>1, <2>1 DEF Seen, At
  <2>6. Added(s)' = Added(s)
    BY <1>1, <2>2 DEF Added
  <2>7. Recallable(s)'
    BY <1>1, <1>2, <1>3, <1>4, <2>5, <2>6, SameRows
  <2> QED
    BY <1>5, <2>3, <2>4, <2>7 DEF IInv
<1> QED
  BY <1>6, <1>7

\* The row added is behind every row, for every shell.
LEMMA InsertIInv ==
    ASSUME IInv, NEW s \in Shells, Insert(s)
    PROVE  IInv'
<1> DEFINE line == adding[s].line
<1>1. /\ Types /\ At(s, "insert") /\ adding[s] # << >>
      /\ history' = Append(history, line) /\ entered' = entered
      /\ adding' = [adding EXCEPT ![s] = << >>]
  BY DEF IInv, Insert, At
<1>2. /\ history \in Seq(Lines) /\ Len(history) \in Nat
      /\ line \in Lines /\ adding'[s] = << >>
  BY <1>1 DEF Types
<1>3. /\ Len(history') = Len(history) + 1
      /\ history'[Len(history) + 1] = line
      /\ \A i \in 1 .. Len(history) : history'[i] = history[i]
  BY <1>1, <1>2
<1>4. Types'
  BY <1>1, <1>2 DEF Types
<1>5. Seen(s) = Len(history) /\ Seen(s)' = Len(history) + 1
  BY <1>1, <1>2, <1>3 DEF Seen, At
<1>6. Recallable(s)'
  <2> DEFINE row == Len(history) + 1
  <2>1. row \in Nat /\ row > 0 /\ row <= Seen(s)' /\ Seen(s) <= row
    BY <1>2, <1>5
  <2>2. Seen(s) \in Nat /\ Seen(s)' \in Nat
    BY <1>2, <1>5
  <2>3. history'[row] = line /\ \A i \in 1 .. Seen(s) : history'[i] = history[i]
    BY <1>3, <1>5
  <2> QED
    BY <1>1, <1>2, <2>1, <2>2, <2>3, OneMore
<1>7. Pending(s)'
  BY <1>2 DEF Pending
<1>8. ASSUME NEW t \in Shells, t # s PROVE Pending(t)' /\ Recallable(t)'
  <2>1. adding'[t] = adding[t] /\ entered'[t] = entered[t]
    BY <1>1, <1>8 DEF Types
  <2> QED
    BY <1>1, <2>1, Bystander DEF IInv
<1> QED
  BY <1>4, <1>6, <1>7, <1>8 DEF IInv

\* A shell that panics keeps the line it was adding to itself.
LEMMA QueryFailsIInv ==
    ASSUME IInv, NEW s \in Shells, QueryFails(s)
    PROVE  IInv'
<1>1. /\ Types /\ Pending(s)
      /\ adding[s] # << >> /\ adding[s].step \in {"last", "get"}
      /\ history' = history /\ entered' = entered
  BY DEF IInv, QueryFails, At
<1>2. /\ Len(history) \in Nat /\ adding[s] # << >>
      /\ adding[s] \in [line : Lines, step : {"last", "get", "insert", "dead"}, last : Nat]
  BY <1>1 DEF Types
<1> DEFINE dead == [line |-> adding[s].line, step |-> "dead", last |-> adding[s].last]
<1>3. [adding[s] EXCEPT !.step = "dead"] = dead
  BY <1>2
<1>4. adding' = [adding EXCEPT ![s] = dead]
  BY <1>3 DEF QueryFails
<1>5. /\ adding'[s] = dead /\ adding'[s] # << >>
      /\ adding'[s].line = adding[s].line /\ adding'[s].last = adding[s].last
      /\ adding'[s].step = "dead"
  <2>1. adding'[s] = dead
    BY <1>1, <1>4 DEF Types
  <2> QED
    BY <2>1, RecordNotEmpty
<1>6. Types'
  BY <1>1, <1>2, <1>4 DEF Types
<1>7. Pending(s)'
  BY <1>1, <1>2, <1>5 DEF Pending
<1>8. Recallable(s)'
  <2>1. Added(s)' = Added(s)
    BY <1>1, <1>5 DEF Added
  <2>2. Seen(s)' = Len(history)
    BY <1>1, <1>5 DEF Seen, At
  <2>3. Seen(s) \in Nat /\ Seen(s) <= Len(history)
    BY <1>1, <1>2 DEF Seen, At, Pending
  <2> QED
    BY <1>1, <1>2, <2>1, <2>2, <2>3, SameRows
<1>9. ASSUME NEW t \in Shells, t # s PROVE Pending(t)' /\ Recallable(t)'
  <2>1. adding'[t] = adding[t] /\ entered'[t] = entered[t]
    BY <1>1, <1>4, <1>9 DEF Types
  <2> QED
    BY <1>1, <2>1, Bystander DEF IInv
<1> QED
  BY <1>6, <1>7, <1>8, <1>9 DEF IInv

\* A line that is lost never counted as added.
LEMMA InsertFailsIInv ==
    ASSUME IInv, NEW s \in Shells, InsertFails(s)
    PROVE  IInv'
<1> DEFINE n == Len(entered[s])
<1>1. /\ Types /\ Pending(s) /\ At(s, "insert") /\ adding[s] # << >>
      /\ history' = history
      /\ adding' = [adding EXCEPT ![s] = << >>]
      /\ entered' = [entered EXCEPT ![s] = SubSeq(entered[s], 1, n - 1)]
  BY DEF IInv, InsertFails, At
<1>2. entered[s] \in Seq(Lines) /\ n \in Nat /\ n > 0 /\ Len(history) \in Nat
  BY <1>1 DEF Types, Pending
<1>3. /\ adding'[s] = << >> /\ entered'[s] = SubSeq(entered[s], 1, n - 1)
      /\ SubSeq(entered[s], 1, n - 1) \in Seq(Lines)
      /\ Len(entered'[s]) = n - 1
      /\ \A k \in 1 .. n - 1 : entered'[s][k] = entered[s][k]
  <2>1. adding'[s] = << >> /\ entered'[s] = SubSeq(entered[s], 1, n - 1)
    BY <1>1 DEF Types
  <2> QED
    BY <1>2, <2>1
<1>4. Types'
  BY <1>1, <1>3 DEF Types
<1>5. Pending(s)'
  BY <1>3 DEF Pending
<1>6. Recallable(s)'
  <2>1. Added(s) = n - 1 /\ Added(s)' = n - 1
    BY <1>1, <1>2, <1>3 DEF Added
  <2>2. Seen(s) = Len(history) /\ Seen(s)' = Len(history)
    BY <1>1, <1>3 DEF Seen, At
  <2>3. PICK at \in [1 .. Added(s) -> 1 .. Seen(s)] : InOrder(s, at)
    BY DEF IInv, Recallable
  <2>4. /\ \A k \in 1 .. Added(s)' : history'[at[k]] = entered'[s][k]
        /\ \A k \in 1 .. Added(s)' - 1 : at[k] <= at[k + 1]
    BY <1>1, <1>3, <2>1, <2>3 DEF InOrder
  <2> QED
    BY <2>1, <2>2, <2>4 DEF Recallable, InOrder
<1>7. ASSUME NEW t \in Shells, t # s PROVE Pending(t)' /\ Recallable(t)'
  <2>1. adding'[t] = adding[t] /\ entered'[t] = entered[t]
    BY <1>1, <1>7 DEF Types
  <2> QED
    BY <1>1, <2>1, Bystander DEF IInv
<1> QED
  BY <1>4, <1>5, <1>6, <1>7 DEF IInv

\* A search, and a step that changes nothing, leave what IInv is about alone.
LEMMA SearchIInv ==
    ASSUME IInv, UNCHANGED <<history, adding, entered>>
    PROVE  IInv'
<1>1. Types'
  BY DEF IInv, Types
<1>2. ASSUME NEW t \in Shells PROVE Pending(t)' /\ Recallable(t)'
  BY Bystander DEF IInv
<1> QED
  BY <1>1, <1>2 DEF IInv

\* The inductive invariant of the history, for any number of shells adding to
\* it at once (history.rs:90-107).
THEOREM Invariance == Spec => []IInv
<1>1. IInv /\ [Next]_vars => IInv'
  <2> SUFFICES ASSUME IInv, [Next]_vars PROVE IInv'
    OBVIOUS
  <2>1. ASSUME NEW s \in Shells, NEW line \in Lines, Add(s, line) PROVE IInv'
    BY <2>1, AddIInv
  <2>2. ASSUME NEW s \in Shells, QueryLast(s) PROVE IInv'
    BY <2>2, QueryLastIInv
  <2>3. ASSUME NEW s \in Shells, QueryGet(s) PROVE IInv'
    BY <2>3, QueryGetIInv
  <2>4. ASSUME NEW s \in Shells, Insert(s) PROVE IInv'
    BY <2>4, InsertIInv
  <2>5. ASSUME NEW s, NEW idx, NEW direction, NEW p, SearchFrom(s, idx, direction, p)
        PROVE  IInv'
    BY <2>5, SearchIInv DEF SearchFrom
  <2>6. ASSUME NEW s, NEW idx, NEW direction, NEW p, SearchFails(s, idx, direction, p)
        PROVE  IInv'
    BY <2>6, SearchIInv DEF SearchFails
  <2>7. ASSUME NEW s \in Shells, QueryFails(s) PROVE IInv'
    BY <2>7, QueryFailsIInv
  <2>8. ASSUME NEW s \in Shells, InsertFails(s) PROVE IInv'
    BY <2>8, InsertFailsIInv
  <2>9. CASE UNCHANGED vars
    BY <2>9, SearchIInv DEF vars
  <2> QED
    BY <2>1, <2>2, <2>3, <2>4, <2>5, <2>6, <2>7, <2>8, <2>9 DEF Next
<1> QED
  BY InitIInv, <1>1, PTL DEF Spec

\* What was entered can be recalled in the order it was entered: the rows of
\* each shell keep their order whatever other shells add in between.
THEOREM OrderIsKept == Spec => []OrderKept
<1>1. IInv => OrderKept
  <2> SUFFICES ASSUME IInv, NEW s \in Shells
               PROVE  \E at \in [1 .. Added(s) -> DOMAIN history] : InOrder(s, at)
    BY DEF OrderKept
  <2>1. /\ Len(history) \in Nat /\ DOMAIN history = 1 .. Len(history)
        /\ adding[s] = << >> \/ adding[s].last \in Nat
    BY DEF IInv, Types
  <2>2. Seen(s) \in Nat /\ Seen(s) <= Len(history)
    BY <2>1 DEF IInv, Pending, Seen, At
  <2> QED
    BY <2>1, <2>2 DEF IInv, Recallable
<1> QED
  BY Invariance, <1>1, PTL

-----------------------------------------------------------------------------
(* Repeated lines.                                                         *)

\* A shell about to insert has compared its line with the row it read, if any.
Compared(s) ==
    At(s, "insert") /\ adding[s].last # 0 => history[adding[s].last] # adding[s].line

\* The rows read stay what they were.
LEMMA BystanderCompared ==
    ASSUME IInv, NEW t \in Shells, Compared(t), adding'[t] = adding[t],
           NEW line, history' = history \/ history' = Append(history, line)
    PROVE  Compared(t)'
<1>1. CASE ~(At(t, "insert") /\ adding[t].last # 0)
  BY <1>1 DEF Compared, At
<1>2. CASE At(t, "insert") /\ adding[t].last # 0
  <2>1. /\ history \in Seq(Lines) /\ adding[t] # << >>
        /\ adding[t].last \in 1 .. Len(history)
    BY <1>2 DEF IInv, Types, Pending, At
  <2>2. history'[adding[t].last] = history[adding[t].last]
    BY <2>1
  <2> QED
    BY <1>2, <2>1, <2>2 DEF Compared
<1> QED
  BY <1>1, <1>2

\* Only QueryGet leads to an insert after a row was read, and only when the line
\* is not that row's.
LEMMA NextCompared ==
    ASSUME IInv, \A s \in Shells : Compared(s), [Next]_vars
    PROVE  \A s \in Shells : Compared(s)'
<1>0. Types
  BY DEF IInv
<1>1. ASSUME NEW s \in Shells, NEW line \in Lines, Add(s, line) PROVE Compared(s)'
  <2>1. adding'[s] = [line |-> line, step |-> "last", last |-> 0]
    BY <1>0, <1>1 DEF Add, Types
  <2> QED
    BY <2>1 DEF Compared, At
<1>2. ASSUME NEW s \in Shells, QueryLast(s) PROVE Compared(s)'
  <2>1. adding[s] \in [line : Lines, step : {"last", "get", "insert", "dead"}, last : Nat]
    BY <1>0, <1>2 DEF Types, QueryLast, At
  <2>2. adding'[s] = [line |-> adding[s].line, last |-> LastRow,
                      step |-> IF LastRow = 0 THEN "insert" ELSE "get"]
    BY <1>0, <1>2, <2>1 DEF QueryLast, Types
  <2>3. adding'[s].last # 0 => adding'[s].step # "insert"
    BY <2>2
  <2> QED
    BY <2>3 DEF Compared, At
<1>3. ASSUME NEW s \in Shells, QueryGet(s) PROVE Compared(s)'
  <2>1. /\ history' = history
        /\ adding[s] \in [line : Lines, step : {"last", "get", "insert", "dead"}, last : Nat]
    BY <1>0, <1>3 DEF Types, QueryGet, At
  <2>2. CASE history[adding[s].last] = adding[s].line
    <3>1. adding'[s] = << >>
      BY <1>0, <1>3, <2>2 DEF QueryGet, Types
    <3> QED
      BY <3>1 DEF Compared, At
  <2>3. CASE history[adding[s].last] # adding[s].line
    <3>1. [adding[s] EXCEPT !.step = "insert"] =
             [line |-> adding[s].line, step |-> "insert", last |-> adding[s].last]
      BY <2>1
    <3>2. adding'[s] = [line |-> adding[s].line, step |-> "insert", last |-> adding[s].last]
      BY <1>0, <1>3, <2>3, <3>1 DEF QueryGet, Types
    <3> QED
      BY <2>1, <2>3, <3>2 DEF Compared
  <2> QED
    BY <2>2, <2>3
<1>4. ASSUME NEW s \in Shells, Insert(s) PROVE Compared(s)'
  <2>1. adding'[s] = << >>
    BY <1>0, <1>4 DEF Insert, Types
  <2> QED
    BY <2>1 DEF Compared, At
<1>5. ASSUME NEW s \in Shells, NEW t \in Shells, t # s,
             \/ \E line \in Lines : Add(s, line)
             \/ QueryLast(s) \/ QueryGet(s) \/ Insert(s) \/ QueryFails(s) \/ InsertFails(s)
      PROVE  Compared(t)'
  <2>1. adding'[t] = adding[t]
    BY <1>0, <1>5 DEF Types, Add, QueryLast, QueryGet, Insert, QueryFails, InsertFails
  <2>2. history' = history \/ history' = Append(history, adding[s].line)
    BY <1>5 DEF Add, QueryLast, QueryGet, Insert, QueryFails, InsertFails
  <2> QED
    BY <2>1, <2>2, BystanderCompared
<1>6. ASSUME UNCHANGED <<history, adding>> PROVE \A s \in Shells : Compared(s)'
  BY <1>6 DEF Compared, At
<1>7. ASSUME NEW s, NEW idx, NEW direction, NEW p, SearchFrom(s, idx, direction, p)
      PROVE  \A t \in Shells : Compared(t)'
  BY <1>6, <1>7 DEF SearchFrom
<1>8. ASSUME NEW s, NEW idx, NEW direction, NEW p, SearchFails(s, idx, direction, p)
      PROVE  \A t \in Shells : Compared(t)'
  BY <1>6, <1>8 DEF SearchFails
<1>9. ASSUME NEW s \in Shells, QueryFails(s) PROVE Compared(s)'
  <2>1. adding[s] \in [line : Lines, step : {"last", "get", "insert", "dead"}, last : Nat]
    BY <1>0, <1>9 DEF Types, QueryFails, At
  <2>2. adding'[s] = [adding[s] EXCEPT !.step = "dead"]
    BY <1>0, <1>9 DEF QueryFails, Types
  <2>3. adding'[s].step = "dead"
    BY <2>1, <2>2
  <2> QED
    BY <2>3 DEF Compared, At
<1>10. ASSUME NEW s \in Shells, InsertFails(s) PROVE Compared(s)'
  <2>1. adding'[s] = << >>
    BY <1>0, <1>10 DEF InsertFails, Types
  <2> QED
    BY <2>1 DEF Compared, At
<1>11. CASE UNCHANGED vars
  BY <1>6, <1>11 DEF vars
<1> QED
  BY <1>1, <1>2, <1>3, <1>4, <1>5, <1>7, <1>8, <1>9, <1>10, <1>11 DEF Next

\* The row added, if it repeats the newest one, was compared with an older one.
LEMMA InsertRaced ==
    ASSUME IInv, NEW s \in Shells, Compared(s), Insert(s), Len(history') > 1,
           history'[Len(history')] = history'[Len(history') - 1]
    PROVE  adding[s] # << >> /\ adding'[s] = << >> /\ adding[s].last < Len(history)
<1>1. /\ history \in Seq(Lines) /\ Len(history) \in Nat /\ At(s, "insert")
      /\ adding[s] # << >> /\ adding'[s] = << >> /\ adding[s].line \in Lines
      /\ history' = Append(history, adding[s].line)
  BY DEF Insert, At, IInv, Types
<1>2. adding[s].last \in 0 .. Len(history)
  BY <1>1 DEF IInv, Pending
<1>3. /\ Len(history') = Len(history) + 1 /\ Len(history) > 0
      /\ history'[Len(history) + 1] = adding[s].line
      /\ history'[Len(history)] = history[Len(history)]
  BY <1>1
<1>4. history[Len(history)] = adding[s].line
  BY <1>1, <1>3
<1>5. adding[s].last # Len(history)
  BY <1>1, <1>3, <1>4 DEF Compared
<1> QED
  BY <1>1, <1>2, <1>5

\* A line is repeated in the history only by a race of two shells: add compares
\* and inserts in different queries (history.rs:90-106).
THEOREM RepeatsAreRaces == Spec => RepeatsOnlyRaced
<1> DEFINE CInv == \A s \in Shells : Compared(s)
<1>1. Init => CInv
  BY DEF Init, Compared, At
<1>2. IInv /\ CInv /\ [Next]_vars => CInv'
  BY NextCompared
<1>3. IInv /\ CInv /\ [Next]_vars =>
        [history' # history /\ Len(history') > 1
            /\ history'[Len(history')] = history'[Len(history') - 1] =>
         \E s \in Shells :
            adding[s] # << >> /\ adding'[s] = << >> /\ adding[s].last < Len(history)]_vars
  <2> SUFFICES ASSUME IInv, CInv, [Next]_vars, history' # history, Len(history') > 1,
                      history'[Len(history')] = history'[Len(history') - 1]
               PROVE  \E s \in Shells :
                        adding[s] # << >> /\ adding'[s] = << >> /\ adding[s].last < Len(history)
    OBVIOUS
  <2>1. PICK s \in Shells : Insert(s)
    BY DEF Next, vars, Add, QueryLast, QueryGet, SearchFrom, SearchFails, QueryFails,
           InsertFails
  <2> QED
    BY <2>1, InsertRaced
<1> HIDE DEF CInv
<1> QED
  BY <1>1, <1>2, <1>3, Invariance, PTL DEF Spec, RepeatsOnlyRaced

-----------------------------------------------------------------------------
(* One shell alone.                                                        *)

\* What a lone shell knows of the newest row while it adds a line.
Fresh(s) ==
    /\ At(s, "get") => adding[s].last = Len(history)
    /\ At(s, "insert") => history = << >> \/ history[Len(history)] # adding[s].line

NIInv == IInv /\ NoRepeat /\ \A s \in Shells : Fresh(s)

\* Only the steps of add change the rows or what the shell knows of them.
LEMMA NextNIInv ==
    ASSUME \A s, t \in Shells : s = t, NIInv, IInv', [Next]_vars
    PROVE  NIInv'
<1>1. /\ IInv /\ Types /\ NoRepeat
      /\ history \in Seq(Lines) /\ Len(history) \in Nat /\ DOMAIN history = 1 .. Len(history)
  BY DEF NIInv, IInv, Types
<1>2. ASSUME NEW s \in Shells, NEW line \in Lines, Add(s, line) PROVE NIInv'
  <2>1. /\ history' = history /\ adding'[s] = [line |-> line, step |-> "last", last |-> 0]
    BY <1>1, <1>2 DEF Add, Types
  <2>2. Fresh(s)'
    BY <2>1 DEF Fresh, At
  <2> QED
    BY <1>1, <2>1, <2>2 DEF NIInv, NoRepeat
<1>3. ASSUME NEW s \in Shells, QueryLast(s) PROVE NIInv'
  <2>1. history' = history
    BY <1>3 DEF QueryLast
  <2>2. /\ adding'[s].last = Len(history)
        /\ adding'[s].step = IF Len(history) = 0 THEN "insert" ELSE "get"
    <3>1. adding[s] \in [line : Lines, step : {"last", "get", "insert", "dead"}, last : Nat]
      BY <1>1, <1>3 DEF Types, QueryLast, At
    <3>2. adding'[s] = [line |-> adding[s].line, last |-> Len(history),
                        step |-> IF Len(history) = 0 THEN "insert" ELSE "get"]
      BY <1>1, <1>3, <3>1 DEF QueryLast, LastRow, Types
    <3> QED
      BY <3>2
  <2>3. Len(history) = 0 => history = << >>
    BY <1>1
  <2>4. Fresh(s)'
    BY <2>1, <2>2, <2>3 DEF Fresh, At
  <2> QED
    BY <1>1, <2>1, <2>4 DEF NIInv, NoRepeat
<1>4. ASSUME NEW s \in Shells, QueryGet(s) PROVE NIInv'
  <2>1. history' = history /\ adding[s].last = Len(history) /\ adding[s] # << >>
    <3>1. history' = history /\ At(s, "get")
      BY <1>4 DEF QueryGet
    <3>2. Fresh(s)
      BY DEF NIInv
    <3> QED
      BY <3>1, <3>2 DEF Fresh, At
  <2>2. Fresh(s)'
    <3>1. CASE history[adding[s].last] = adding[s].line
      <4>1. adding'[s] = << >>
        BY <1>1, <1>4, <3>1 DEF QueryGet, Types
      <4> QED
        BY <4>1 DEF Fresh, At
    <3>2. CASE history[adding[s].last] # adding[s].line
      <4>1. adding[s] \in [line : Lines, step : {"last", "get", "insert", "dead"}, last : Nat]
        BY <1>1, <2>1 DEF Types
      <4>2. adding'[s] = [line |-> adding[s].line, step |-> "insert", last |-> adding[s].last]
        <5>1. [adding[s] EXCEPT !.step = "insert"] =
                 [line |-> adding[s].line, step |-> "insert", last |-> adding[s].last]
          BY <4>1
        <5> QED
          BY <1>1, <1>4, <3>2, <5>1 DEF QueryGet, Types
      <4> QED
        BY <2>1, <3>2, <4>2 DEF Fresh, At
    <3> QED
      BY <3>1, <3>2
  <2> QED
    BY <1>1, <2>1, <2>2 DEF NIInv, NoRepeat
<1>5. ASSUME NEW s \in Shells, Insert(s) PROVE NIInv'
  <2>1. /\ history' = Append(history, adding[s].line) /\ adding'[s] = << >>
        /\ adding[s].line \in Lines
        /\ history = << >> \/ history[Len(history)] # adding[s].line
    BY <1>1, <1>5 DEF Insert, Types, At, NIInv, Fresh
  <2>2. NoRepeat'
    <3> SUFFICES ASSUME NEW i \in 1 .. Len(history) + 1, i > 1
                 PROVE  history'[i] # history'[i - 1]
      BY <1>1, <2>1 DEF NoRepeat
    <3>1. history'[i - 1] = history[i - 1]
      BY <1>1, <2>1
    <3>2. CASE i = Len(history) + 1
      <4>1. history'[i] = adding[s].line /\ i - 1 = Len(history) /\ Len(history) > 0
        BY <1>1, <2>1, <3>2
      <4>2. history # << >>
        BY <4>1
      <4> QED
        BY <2>1, <3>1, <4>1, <4>2
    <3>3. CASE i # Len(history) + 1
      <4>1. i \in 1 .. Len(history) /\ history'[i] = history[i]
        BY <1>1, <2>1, <3>3
      <4> QED
        BY <1>1, <3>1, <4>1 DEF NoRepeat
    <3> QED
      BY <3>2, <3>3
  <2>3. Fresh(s)'
    BY <2>1 DEF Fresh, At
  <2> QED
    BY <2>2, <2>3 DEF NIInv
<1>6. ASSUME UNCHANGED <<history, adding>> PROVE NIInv'
  BY <1>6 DEF NIInv, NoRepeat, Fresh, At
<1>7. ASSUME NEW s, NEW idx, NEW direction, NEW p, SearchFrom(s, idx, direction, p)
      PROVE  NIInv'
  BY <1>6, <1>7 DEF SearchFrom
<1>8. ASSUME NEW s, NEW idx, NEW direction, NEW p, SearchFails(s, idx, direction, p)
      PROVE  NIInv'
  BY <1>6, <1>8 DEF SearchFails
\* No other shell locks the database.
<1>9. ASSUME NEW s \in Shells PROVE ~QueryFails(s) /\ ~InsertFails(s)
  BY <1>9 DEF QueryFails, InsertFails, Reading, Writing
<1>10. CASE UNCHANGED vars
  BY <1>6, <1>10 DEF vars
<1> QED
  BY <1>2, <1>3, <1>4, <1>5, <1>7, <1>8, <1>9, <1>10 DEF Next

\* "Ignore duplicates" (history.rs:94-98) is what happens when only one shell
\* adds lines; with two the row compared may no longer be the newest.
THEOREM NoRepeatAlone ==
    ASSUME \A s, t \in Shells : s = t
    PROVE  Spec => []NoRepeat
<1>1. Init => NIInv
  BY InitIInv DEF NIInv, Init, NoRepeat, Fresh, At
<1>2. NIInv /\ IInv' /\ [Next]_vars => NIInv'
  BY NextNIInv
<1>3. NIInv => NoRepeat
  BY DEF NIInv
<1> QED
  BY <1>1, <1>2, <1>3, Invariance, PTL DEF Spec
-----------------------------------------------------------------------------
(* Searches.                                                               *)

\* A line that holds the pattern is one the database takes for it too.
LEMMA MatchesIsLike ==
    ASSUME NEW line \in Lines, NEW pattern \in Patterns, Matches(line, pattern)
    PROVE  IsLike(line, pattern)
<1> DEFINE S == ToSet(line)
<1>1. line \in Seq(S) /\ pattern \in Seq(ToSet(pattern))
  BY TextAssumption
<1> HIDE DEF S
<1>2. PICK i \in 0 .. Len(line) - Len(pattern) :
         SubSeq(line, i + 1, i + Len(pattern)) = pattern
  BY DEF Matches
<1>3. Len(line) \in Nat /\ Len(pattern) \in Nat /\ DOMAIN pattern = 1 .. Len(pattern)
  BY <1>1
<1>4. ASSUME NEW k \in DOMAIN pattern
      PROVE  pattern[k] = line[i + k]
  <2> DEFINE m == i + 1
             n == i + Len(pattern)
  <2>1. /\ m \in Int /\ n \in Int
        /\ k \in 1 .. n - m + 1 /\ m + k - 1 = i + k
        /\ \A j \in m .. n : line[j] \in S
    BY <1>1, <1>3
  <2> HIDE DEF m, n
  <2>2. SubSeq(line, m, n)[k] = line[m + k - 1]
    BY <2>1, SubSeqProperties
  <2>3. pattern[k] = line[m + k - 1]
    BY <1>2, <2>2 DEF m, n
  <2> QED
    BY <2>1, <2>3
<1> DEFINE upto == [k \in 0 .. Len(pattern) |-> i + k]
<1>5. upto \in [0 .. Len(pattern) -> 0 .. Len(line)]
  BY <1>2, <1>3
<1>6. ASSUME NEW k \in DOMAIN pattern
      PROVE  upto[k - 1] + 1 = upto[k] /\ upto[k - 1] <= upto[k] /\ upto[k] = i + k
  BY <1>2, <1>3, <1>6
<1> HIDE DEF upto
<1> QED
  BY <1>4, <1>5, <1>6 DEF IsLike

\* There is a nearest row among any.
LEMMA NearestRow ==
    ASSUME NEW n \in Nat, NEW rows \in SUBSET (1 .. n), rows # {}, NEW direction
    PROVE  /\ Nearest(rows, direction) \in rows
           /\ \A j \in rows : IF direction = "backwards" THEN j <= Nearest(rows, direction)
                                                         ELSE Nearest(rows, direction) <= j
<1>1. \E i \in rows : \A j \in rows : j <= i
  <2>1. rows \in SUBSET (0 .. n)
    OBVIOUS
  <2> QED
    BY <2>1, GreatestNumber
<1>2. \E i \in rows : \A j \in rows : i <= j
  <2>1. rows \in SUBSET Nat
    OBVIOUS
  <2> QED
    BY <2>1, LeastNumber
<1>3. \E i \in rows : \A j \in rows : IF direction = "backwards" THEN j <= i ELSE i <= j
  BY <1>1, <1>2
<1> QED
  BY <1>3 DEF Nearest

\* The rows that a search goes over, and those the database takes for matches.
LEMMA SearchedRows ==
    ASSUME Types, NEW idx \in DOMAIN history, NEW direction \in {"backwards", "forwards"},
           NEW pattern \in Patterns,
           NEW rows, rows = LikeRows(idx, direction, pattern),
           NEW row, row = Search(idx, direction, pattern)
    PROVE  /\ rows \in SUBSET (1 .. Len(history)) /\ row \in 0 .. Len(history)
           /\ row # 0 => Matches(history[row], pattern)
           /\ row # 0 => row \in rows /\ row = Nearest(rows, direction)
           /\ row = 0 /\ rows # {} => ~Matches(history[Nearest(rows, direction)], pattern)
           /\ \A i \in InDirection(idx, direction) :
                  Matches(history[i], pattern) => i \in rows
<1>1. history \in Seq(Lines) /\ Len(history) \in Nat /\ DOMAIN history = 1 .. Len(history)
  BY DEF Types
<1>2. rows \in SUBSET (1 .. Len(history))
  BY <1>1 DEF LikeRows, InDirection
<1>3. row = IF rows # {} /\ Matches(history[Nearest(rows, direction)], pattern)
            THEN Nearest(rows, direction) ELSE 0
  BY DEF Search
<1>4. \A i \in InDirection(idx, direction) : Matches(history[i], pattern) => i \in rows
  BY <1>1, MatchesIsLike DEF LikeRows, InDirection
<1>5. rows # {} => Nearest(rows, direction) \in rows
  BY <1>1, <1>2, NearestRow
<1> QED
  BY <1>1, <1>2, <1>3, <1>4, <1>5

\* The answer to a search, for the rows there are.
LEMMA SearchFromInv ==
    ASSUME Types, NEW s \in Shells, NEW idx \in DOMAIN history,
           NEW direction \in {"backwards", "forwards"}, NEW pattern \in Patterns,
           SearchFrom(s, idx, direction, pattern)
    PROVE  SearchInv'
<1> SUFFICES ASSUME NEW rows,
                    rows = LikeRows(idx, direction, pattern),
                    NEW row, row = Search(idx, direction, pattern)
             PROVE  SearchInv'
  OBVIOUS
<1> DEFINE near == Nearest(rows, direction)
<1>1. /\ history' = history
      /\ found'.from = idx /\ found'.direction = direction /\ found'.pattern = pattern
      /\ found'.row = row /\ found'.of = Len(history) /\ found'.locked = FALSE
  BY DEF SearchFrom
<1>2. history \in Seq(Lines) /\ Len(history) \in Nat /\ DOMAIN history = 1 .. Len(history)
  BY DEF Types
<1>3. /\ rows \in SUBSET (1 .. Len(history)) /\ row \in 0 .. Len(history)
      /\ row # 0 => Matches(history[row], pattern)
      /\ row # 0 => row \in rows /\ row = near
      /\ row = 0 /\ rows # {} => ~Matches(history[near], pattern)
      /\ \A i \in InDirection(idx, direction) : Matches(history[i], pattern) => i \in rows
  BY SearchedRows
<1>4. \A i \in rows : i \in InDirection(idx, direction) /\ IsLike(history[i], pattern)
  BY DEF LikeRows
<1>5. rows # {} => /\ near \in rows
                   /\ \A j \in rows : IF direction = "backwards" THEN j <= near ELSE near <= j
  BY <1>2, <1>3, NearestRow
<1> HIDE DEF near
<1>6. AnswerInRows'
  BY <1>1, <1>2, <1>3 DEF AnswerInRows
<1>7. \A i \in 1 .. Len(history) : i \in InDirection(idx, direction) <=>
          IF direction = "backwards" THEN i <= idx ELSE i >= idx
  BY <1>2 DEF InDirection
<1>8. FoundIsNearest'
  <2> SUFFICES ASSUME row # 0,
                      NEW i \in IF direction = "backwards" THEN row + 1 .. idx ELSE idx .. row - 1
               PROVE  ~Matches(history[i], pattern)
    BY <1>1, <1>3 DEF FoundIsNearest
  <2>1. row \in 1 .. Len(history) /\ idx \in 1 .. Len(history)
    BY <1>2, <1>3
  <2>2. i \in 1 .. Len(history) /\ i \in InDirection(idx, direction)
        /\ (IF direction = "backwards" THEN row < i ELSE i < row)
    BY <1>2, <1>7, <2>1
  <2>3. i \notin rows
    BY <1>2, <1>3, <1>5, <2>1, <2>2
  <2> QED
    BY <1>3, <2>2, <2>3
<1>9. FindsUnlessMisled'
  <2> SUFFICES ASSUME row = 0, NEW i \in 1 .. Len(history), i \in InDirection(idx, direction),
                      Matches(history[i], pattern)
               PROVE  \E j \in 1 .. Len(history) :
                          /\ j \in InDirection(idx, direction)
                          /\ IF direction = "backwards" THEN i < j ELSE j < i
                          /\ IsLike(history[j], pattern) /\ ~Matches(history[j], pattern)
    BY <1>1, <1>7 DEF FindsUnlessMisled
  <2>1. i \in rows
    BY <1>3
  <2>2. near \in rows /\ ~Matches(history[near], pattern) /\ near # i
    BY <1>3, <1>5, <2>1
  <2>3. IF direction = "backwards" THEN i <= near ELSE near <= i
    BY <1>5, <2>1
  <2>4. near \in 1 .. Len(history)
    BY <1>3, <2>2
  <2> QED
    BY <1>2, <1>4, <2>2, <2>3, <2>4
<1> QED
  BY <1>6, <1>8, <1>9 DEF SearchInv, SearchesFind

\* Rows that are added later do not change what was answered.
LEMMA AnswerStays ==
    ASSUME Types, SearchInv, found' = found,
           NEW line, history' = history \/ history' = Append(history, line)
    PROVE  SearchInv'
<1>1. history \in Seq(Lines) /\ Len(history) \in Nat
  BY DEF Types
<1>2. /\ Len(history') \in Nat /\ Len(history) <= Len(history')
      /\ \A i \in 1 .. Len(history) : history'[i] = history[i]
  BY <1>1
<1>3. CASE found = << >>
  BY <1>3 DEF SearchInv, AnswerInRows, SearchesFind, FoundIsNearest, FindsUnlessMisled
<1>4. CASE found # << >>
  <2> DEFINE of == found.of
             from == found.from
             row == found.row
             pattern == found.pattern
  <2>1. of \in 0 .. Len(history) /\ from \in 1 .. of /\ row \in 0 .. of
    BY <1>4 DEF SearchInv, AnswerInRows
  <2>2. AnswerInRows'
    BY <1>1, <1>2, <1>4, <2>1 DEF SearchInv, AnswerInRows
  <2>3. FoundIsNearest'
    <3> SUFFICES ASSUME row # 0,
                        NEW i \in IF found.direction = "backwards" THEN row + 1 .. from
                                                                   ELSE from .. row - 1
                 PROVE  Matches(history'[row], pattern) /\ ~Matches(history'[i], pattern)
      <4>1. row # 0 => Matches(history'[row], pattern)
        BY <1>1, <1>2, <1>4, <2>1 DEF SearchInv, SearchesFind, FoundIsNearest
      <4> QED
        BY <1>4, <4>1 DEF FoundIsNearest
    <3>1. row \in 1 .. Len(history) /\ i \in 1 .. Len(history)
      BY <1>1, <2>1
    <3> QED
      BY <1>2, <1>4, <3>1 DEF SearchInv, SearchesFind, FoundIsNearest
  <2>4. FindsUnlessMisled'
    <3>1. \A i \in 1 .. of : history'[i] = history[i]
      BY <1>1, <1>2, <2>1
    <3> QED
      BY <1>4, <3>1 DEF SearchInv, SearchesFind, FindsUnlessMisled
  <2> QED
    BY <2>2, <2>3, <2>4 DEF SearchInv, SearchesFind
<1> QED
  BY <1>3, <1>4

\* Every step keeps what the last answer said.
LEMMA NextSearchInv ==
    ASSUME Types, SearchInv, [Next]_vars
    PROVE  SearchInv'
<1>1. ASSUME NEW s \in Shells, Insert(s)
      PROVE  SearchInv'
  <2>1. history' = Append(history, adding[s].line) /\ found' = found
    BY <1>1 DEF Insert
  <2> HIDE DEF SearchInv
  <2> QED
    BY <2>1, AnswerStays
<1>2. ASSUME UNCHANGED <<history, found>>
      PROVE  SearchInv'
  BY <1>2, AnswerStays
<1>3. ASSUME NEW s \in Shells, NEW line \in Lines, Add(s, line)
      PROVE  SearchInv'
  BY <1>2, <1>3 DEF Add
<1>4. ASSUME NEW s \in Shells, QueryLast(s) \/ QueryGet(s) \/ QueryFails(s) \/ InsertFails(s)
      PROVE  SearchInv'
  BY <1>2, <1>4 DEF QueryLast, QueryGet, QueryFails, InsertFails
<1>5. ASSUME NEW s \in Shells, NEW idx \in DOMAIN history,
             NEW direction \in {"backwards", "forwards"}, NEW p \in Patterns,
             SearchFails(s, idx, direction, p)
      PROVE  SearchInv'
  <2>1. /\ history' = history /\ found'.from = idx /\ found'.row = 0 /\ found'.pattern = p
        /\ found'.of = Len(history) /\ found'.locked = TRUE
    BY <1>5 DEF SearchFails
  <2>2. Len(history) \in Nat /\ DOMAIN history = 1 .. Len(history)
    BY DEF Types
  <2> QED
    BY <2>1, <2>2 DEF SearchInv, AnswerInRows, SearchesFind, FoundIsNearest, FindsUnlessMisled
<1>6. CASE UNCHANGED vars
  BY <1>2, <1>6 DEF vars
<1> QED
  BY <1>1, <1>3, <1>4, <1>5, <1>6, SearchFromInv DEF Next

\* A search answers with the nearest row that holds the pattern, and where it
\* misses one, the database had picked another before it (History::search).
THEOREM SearchesAreRight == Spec => []SearchesFind
<1>1. Init => SearchInv
  BY DEF Init, SearchInv, AnswerInRows, SearchesFind, FoundIsNearest, FindsUnlessMisled
<1>2. IInv /\ SearchInv /\ [Next]_vars => SearchInv'
  BY NextSearchInv DEF IInv
<1>3. SearchInv => SearchesFind
  BY DEF SearchInv
<1> QED
  BY <1>1, <1>2, <1>3, Invariance, PTL DEF Spec
=============================================================================
