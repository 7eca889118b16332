---------------------- MODULE RegisterAllocatorProofs -----------------------
(* Proofs about RegisterAllocator, for every set of temporaries.           *)
EXTENDS RegisterAllocator, SequenceTheorems, TLAPS

\* Popping the free list: the popped register is the last one listed, and the
\* rest of the list is what preceded it.
LEMMA PopFacts ==
    ASSUME NEW s \in Seq(Nat), s # << >>
    PROVE  /\ Len(s) \in Nat \ {0}
           /\ SubSeq(s, 1, Len(s) - 1) \in Seq(Nat)
           /\ Len(SubSeq(s, 1, Len(s) - 1)) = Len(s) - 1
           /\ \A i \in 1 .. Len(s) - 1 : SubSeq(s, 1, Len(s) - 1)[i] = s[i]
           /\ s[Len(s)] \in Nat
<1> DEFINE n == Len(s) - 1
<1>1. Len(s) \in Nat \ {0} /\ s[Len(s)] \in Nat
  OBVIOUS
<1>2. n \in Nat /\ Len(s) = n + 1
  BY <1>1
<1>3. \A i \in 1 .. n : s[i] \in Nat
  BY <1>1
<1> HIDE DEF n
<1>4. /\ SubSeq(s, 1, n) \in Seq(Nat)
      /\ Len(SubSeq(s, 1, n)) = IF 1 <= n THEN n - 1 + 1 ELSE 0
      /\ \A i \in 1 .. n - 1 + 1 : SubSeq(s, 1, n)[i] = s[1 + i - 1]
  BY <1>2, <1>3, SubSeqProperties
<1>5. Len(SubSeq(s, 1, n)) = n /\ \A i \in 1 .. n : SubSeq(s, 1, n)[i] = s[i]
  BY <1>2, <1>4
<1> QED
  BY <1>1, <1>4, <1>5 DEF n

\* Initially there are no registers at all.
LEMMA InitIInv == Init => IInv
  BY DEF Init, IInv, TypeOK, NoAlias, InFrame, Disjoint, NoLeak, New, Live, FreeRegs, frame_size

\* allocate() from the free list keeps the invariant.
LEMMA ReuseIInv ==
    ASSUME IInv, NEW t \in Temp, Allocate(t), alloc.free_list # << >>
    PROVE  IInv'
<1> DEFINE s == alloc.free_list
           r == s[Len(s)]
<1> USE NoRegAssumption
<1>1. /\ s \in Seq(Nat) /\ s # << >> /\ alloc.num_allocated \in Nat
      /\ held \in [Temp -> Nat \cup {NoReg}]
  BY DEF IInv, TypeOK
<1>2. /\ Len(s) \in Nat \ {0}
      /\ SubSeq(s, 1, Len(s) - 1) \in Seq(Nat)
      /\ Len(SubSeq(s, 1, Len(s) - 1)) = Len(s) - 1
      /\ \A i \in 1 .. Len(s) - 1 : SubSeq(s, 1, Len(s) - 1)[i] = s[i]
      /\ r \in Nat
  BY <1>1, PopFacts
<1>3. /\ held' = [held EXCEPT ![t] = r] /\ held[t] = NoReg
      /\ alloc' = [alloc EXCEPT !.free_list = SubSeq(@, 1, Len(@) - 1)]
  BY DEF Allocate, allocated, allocate
<1>4. /\ alloc'.free_list = SubSeq(s, 1, Len(s) - 1)
      /\ alloc'.num_allocated = alloc.num_allocated
  BY <1>3 DEF IInv, TypeOK
<1>5. TypeOK'
  BY <1>1, <1>2, <1>3 DEF IInv, TypeOK
<1>6. r \in FreeRegs
  BY <1>1, <1>2 DEF FreeRegs
<1>7. FreeRegs' \subseteq FreeRegs \ {r}
  <2> SUFFICES ASSUME NEW i \in DOMAIN alloc'.free_list
               PROVE  alloc'.free_list[i] \in FreeRegs \ {r}
    BY DEF FreeRegs
  <2>1. i \in 1 .. Len(s) - 1
    BY <1>2, <1>4
  <2>2. /\ i \in DOMAIN s /\ Len(s) \in DOMAIN s /\ i # Len(s)
        /\ alloc'.free_list[i] = s[i]
    BY <1>1, <1>2, <1>4, <2>1
  <2> QED
    BY <2>2 DEF FreeRegs, IInv, Disjoint
<1>8. Live' = Live \cup {t} /\ t \notin Live
  BY <1>1, <1>2, <1>3 DEF Live
<1>9. NoAlias'
  BY <1>1, <1>3, <1>6, <1>8 DEF NoAlias, IInv, Disjoint, Live
<1>10. InFrame'
  BY <1>1, <1>3, <1>4, <1>6, <1>8 DEF InFrame, IInv, Disjoint, Live, frame_size
<1>11. Disjoint'
  <2>1. FreeRegs' \subseteq 1 .. frame_size(alloc)'
    BY <1>4, <1>7 DEF IInv, Disjoint, frame_size
  <2>2. \A i, j \in DOMAIN alloc'.free_list :
            alloc'.free_list[i] = alloc'.free_list[j] => i = j
    <3> DEFINE q == alloc'.free_list
    <3>1. /\ DOMAIN q = 1 .. Len(s) - 1 /\ DOMAIN s = 1 .. Len(s)
          /\ \A i \in 1 .. Len(s) - 1 : q[i] = s[i]
      BY <1>1, <1>2, <1>4
    <3>2. \A i \in DOMAIN q : i \in DOMAIN s /\ q[i] = s[i]
      BY <1>2, <3>1
    <3>3. \A i, j \in DOMAIN s : s[i] = s[j] => i = j
      BY DEF IInv, Disjoint
    <3> HIDE DEF q, s
    <3> QED
      BY <3>2, <3>3 DEF q
  <2>3. \A u \in Live' : held'[u] \notin FreeRegs'
    BY <1>1, <1>3, <1>7, <1>8 DEF IInv, Disjoint, Live
  <2> QED
    BY <2>1, <2>2, <2>3 DEF Disjoint
<1>12. NoLeak'
  <2>1. FreeRegs \ {r} \subseteq FreeRegs'
    <3> SUFFICES ASSUME NEW i \in DOMAIN s, s[i] # r
                 PROVE  s[i] \in FreeRegs'
      BY DEF FreeRegs
    <3>1. i \in 1 .. Len(s) - 1
      BY <1>1, <1>2
    <3>2. i \in DOMAIN alloc'.free_list /\ alloc'.free_list[i] = s[i]
      BY <1>2, <1>4, <3>1
    <3> QED
      BY <3>2 DEF FreeRegs
  <2>2. held'[t] = r /\ t \in Live' /\ \A u \in Live : held'[u] = held[u]
    BY <1>1, <1>3, <1>8
  <2> QED
    BY <1>4, <1>8, <2>1, <2>2 DEF IInv, NoLeak, frame_size
<1> QED
  BY <1>5, <1>9, <1>10, <1>11, <1>12 DEF IInv

\* allocate() of a register that did not exist before keeps the invariant.
LEMMA GrowIInv ==
    ASSUME IInv, NEW t \in Temp, Allocate(t), alloc.free_list = << >>
    PROVE  IInv'
<1> DEFINE n == alloc.num_allocated
<1> USE NoRegAssumption
<1>1. /\ n \in Nat
      /\ held \in [Temp -> Nat \cup {NoReg}]
      /\ held' = [held EXCEPT ![t] = n + 1] /\ held[t] = NoReg
      /\ alloc' = [alloc EXCEPT !.num_allocated = n + 1]
      /\ alloc \in [num_allocated : Nat, free_list : Seq(Nat)]
  BY DEF IInv, TypeOK, Allocate, allocated, allocate
<1>2. /\ alloc'.num_allocated = n + 1 /\ alloc'.free_list = << >>
      /\ alloc' \in [num_allocated : Nat, free_list : Seq(Nat)]
  BY <1>1
<1>3. Live' = Live \cup {t} /\ t \notin Live
  BY <1>1 DEF Live
<1>4. \A u \in Live : held[u] \in 1 .. n /\ held'[u] = held[u]
  BY <1>1, <1>3 DEF IInv, InFrame, Live, frame_size
<1>5. FreeRegs' = {}
  BY <1>2 DEF FreeRegs
<1>6. TypeOK'
  BY <1>1, <1>2 DEF TypeOK
<1>7. NoAlias'
  BY <1>1, <1>3, <1>4 DEF IInv, NoAlias, Live
<1>8. InFrame'
  BY <1>1, <1>2, <1>3, <1>4 DEF InFrame, frame_size
<1>9. Disjoint'
  BY <1>2, <1>5 DEF Disjoint
<1>10. NoLeak'
  <2>1. \A r \in 1 .. n : \E u \in Live : held[u] = r
    BY <1>1 DEF IInv, NoLeak, FreeRegs, frame_size, Allocate
  <2>2. held'[t] = n + 1
    BY <1>1
  <2>3. \A r \in 1 .. n + 1 : r \in 1 .. n \/ r = n + 1
    BY <1>1
  <2> QED
    BY <1>2, <1>3, <1>4, <2>1, <2>2, <2>3 DEF NoLeak, frame_size
<1> QED
  BY <1>6, <1>7, <1>8, <1>9, <1>10 DEF IInv

\* free() keeps the invariant: the register was live, hence not yet listed.
LEMMA FreeIInv ==
    ASSUME IInv, NEW t \in Temp, Free(t)
    PROVE  IInv'
<1> DEFINE s == alloc.free_list
           r == held[t]
<1> USE NoRegAssumption
<1>1. /\ s \in Seq(Nat) /\ alloc.num_allocated \in Nat
      /\ held \in [Temp -> Nat \cup {NoReg}]
      /\ held' = [held EXCEPT ![t] = NoReg] /\ t \in Live
      /\ alloc'.free_list = Append(s, r)
      /\ alloc'.num_allocated = alloc.num_allocated
      /\ alloc' = [alloc EXCEPT !.free_list = Append(s, r)]
      /\ alloc \in [num_allocated : Nat, free_list : Seq(Nat)]
  BY DEF IInv, TypeOK, Free, free, Live
<1>2. r \in 1 .. frame_size(alloc) /\ r \in Nat /\ r \notin FreeRegs
  BY <1>1 DEF IInv, InFrame, Disjoint, frame_size
<1>3. Live' = Live \ {t} /\ \A u \in Live' : held'[u] = held[u]
  BY <1>1 DEF Live
<1>4. /\ Append(s, r) \in Seq(Nat) /\ Len(Append(s, r)) = Len(s) + 1 /\ Len(s) \in Nat
      /\ \A i \in 1 .. Len(s) : Append(s, r)[i] = s[i]
      /\ Append(s, r)[Len(s) + 1] = r
  BY <1>1, <1>2
<1>5. FreeRegs' = FreeRegs \cup {r}
  <2>1. DOMAIN s = 1 .. Len(s) /\ DOMAIN alloc'.free_list = 1 .. Len(s) + 1
    BY <1>1, <1>4
  <2>2. \A i \in DOMAIN alloc'.free_list : alloc'.free_list[i] \in FreeRegs \cup {r}
    <3> SUFFICES ASSUME NEW i \in 1 .. Len(s) + 1
                 PROVE  alloc'.free_list[i] \in FreeRegs \cup {r}
      BY <2>1
    <3>1. CASE i = Len(s) + 1
      BY <3>1, <1>1, <1>4
    <3>2. CASE i # Len(s) + 1
      <4>1. i \in DOMAIN s /\ alloc'.free_list[i] = s[i]
        BY <3>2, <1>1, <1>4, <2>1
      <4> QED
        BY <4>1 DEF FreeRegs
    <3> QED
      BY <3>1, <3>2
  <2>3. \A i \in DOMAIN s : s[i] \in FreeRegs'
    <3> SUFFICES ASSUME NEW i \in DOMAIN s
                 PROVE  s[i] \in FreeRegs'
      OBVIOUS
    <3>1. i \in DOMAIN alloc'.free_list /\ alloc'.free_list[i] = s[i]
      BY <1>1, <1>4, <2>1
    <3> QED
      BY <3>1 DEF FreeRegs
  <2>4. r \in FreeRegs'
    <3>1. Len(s) + 1 \in DOMAIN alloc'.free_list /\ alloc'.free_list[Len(s) + 1] = r
      BY <1>1, <1>4, <2>1
    <3> QED
      BY <3>1 DEF FreeRegs
  <2> QED
    BY <2>2, <2>3, <2>4 DEF FreeRegs
<1>6. TypeOK'
  BY <1>1, <1>4 DEF TypeOK
<1>7. NoAlias'
  BY <1>3 DEF IInv, NoAlias
<1>8. InFrame'
  BY <1>1, <1>3 DEF IInv, InFrame, frame_size
<1>9. Disjoint'
  <2>1. FreeRegs' \subseteq 1 .. frame_size(alloc)'
    BY <1>1, <1>2, <1>5 DEF IInv, Disjoint, frame_size
  <2>2. \A i, j \in DOMAIN alloc'.free_list :
            alloc'.free_list[i] = alloc'.free_list[j] => i = j
    BY <1>1, <1>2, <1>4 DEF IInv, Disjoint, FreeRegs
  <2>3. \A u \in Live' : held'[u] \notin FreeRegs'
    BY <1>1, <1>3, <1>5 DEF IInv, Disjoint, NoAlias
  <2> QED
    BY <2>1, <2>2, <2>3 DEF Disjoint
<1>10. NoLeak'
  BY <1>1, <1>3, <1>5 DEF IInv, NoLeak, frame_size
<1> QED
  BY <1>6, <1>7, <1>8, <1>9, <1>10 DEF IInv

\* The invariant that the results below follow from.
THEOREM Invariance == Spec => []IInv
<1>1. Init => IInv
  BY InitIInv
<1>2. IInv /\ [Next]_vars => IInv'
  <2> SUFFICES ASSUME IInv, [Next]_vars
               PROVE  IInv'
    OBVIOUS
  <2>1. CASE UNCHANGED vars
    BY <2>1 DEF vars, IInv, TypeOK, NoAlias, InFrame, Disjoint, NoLeak, Live, FreeRegs, frame_size
  <2>2. ASSUME NEW t \in Temp, Allocate(t)
        PROVE  IInv'
    BY <2>2, ReuseIInv, GrowIInv
  <2>3. ASSUME NEW t \in Temp, Free(t)
        PROVE  IInv'
    BY <2>3, FreeIInv
  <2> QED
    BY <2>1, <2>2, <2>3 DEF Next
<1> QED
  BY <1>1, <1>2, PTL DEF Spec

\* No register is ever held twice, however many temporaries there are.
THEOREM NoAliasing == Spec => []NoAlias
<1>1. IInv => NoAlias
  BY DEF IInv
<1> QED
  BY <1>1, Invariance, PTL

\* Every register the compiler uses is a slot of the frame it will reserve.
THEOREM RegistersInFrame == Spec => []InFrame
<1>1. IInv => InFrame
  BY DEF IInv
<1> QED
  BY <1>1, Invariance, PTL

-----------------------------------------------------------------------------
(* The allocator implements Slots.                                         *)

\* The slots in use are those that live temporaries hold.
LEMMA InUseFacts == IInv => Frame!InUse = {held[t] : t \in Live}
  BY DEF IInv, TypeOK, Frame!InUse, Live

\* A register from the free list is a slot of the frame that nobody holds.
LEMMA ReuseTakes ==
    ASSUME IInv, NEW t \in Temp, Allocate(t), alloc.free_list # << >>
    PROVE  Frame!Take(t)
<1> DEFINE s == alloc.free_list
           r == s[Len(s)]
<1>1. s \in Seq(Nat) /\ s # << >> /\ alloc \in [num_allocated : Nat, free_list : Seq(Nat)]
  BY DEF IInv, TypeOK
<1>2. Len(s) \in DOMAIN s
  BY <1>1, PopFacts
<1>3. r \in FreeRegs
  BY <1>2 DEF FreeRegs
<1>4. /\ held[t] = NoReg /\ held' = [held EXCEPT ![t] = r]
      /\ alloc'.num_allocated = alloc.num_allocated
  BY <1>1 DEF Allocate, allocated, allocate
<1>5. r \in 1 .. frame_size(alloc) /\ r \notin Frame!InUse
  BY <1>3, InUseFacts DEF IInv, Disjoint
<1> HIDE DEF r, s
<1>6. frame_size(alloc)' = frame_size(alloc)
  BY <1>4 DEF frame_size
<1> QED
  BY <1>4, <1>5, <1>6 DEF Frame!Take

\* Where the free list is empty every slot is held, so that the frame may grow.
LEMMA GrowTakes ==
    ASSUME IInv, NEW t \in Temp, Allocate(t), alloc.free_list = << >>
    PROVE  Frame!Take(t)
<1> DEFINE n == alloc.num_allocated
<1>1. /\ n \in Nat /\ held[t] = NoReg /\ held' = [held EXCEPT ![t] = n + 1]
      /\ alloc'.num_allocated = n + 1
  BY DEF IInv, TypeOK, Allocate, allocated, allocate
<1>2. 1 .. n \subseteq Frame!InUse
  <2>1. FreeRegs = {}
    BY DEF FreeRegs
  <2> QED
    BY <2>1, InUseFacts DEF IInv, NoLeak, frame_size
<1>3. n + 1 \notin Frame!InUse
  <2>1. \A u \in Live : held[u] \in 1 .. n
    BY DEF IInv, InFrame, frame_size
  <2> QED
    BY <1>1, <2>1, InUseFacts
<1>4. n + 1 \in 1 .. n + 1
  BY <1>1
<1> QED
  BY <1>1, <1>2, <1>3, <1>4 DEF Frame!Take, frame_size

\* The register allocator implements a frame of slots, for any number of
\* temporaries that come and go in any order.
THEOREM Refinement == Spec => AllocatesSlots
<1>1. Init => Frame!Init
  BY DEF Init, Frame!Init, New, frame_size
<1>2. IInv /\ [Next]_vars => [Frame!Next]_<<held, frame_size(alloc)>>
  <2> SUFFICES ASSUME IInv, [Next]_vars
               PROVE  [Frame!Next]_<<held, frame_size(alloc)>>
    OBVIOUS
  <2>1. CASE UNCHANGED vars
    BY <2>1 DEF vars, frame_size
  <2>2. ASSUME NEW t \in Temp, Allocate(t)
        PROVE  Frame!Next
    BY <2>2, ReuseTakes, GrowTakes DEF Frame!Next
  <2>3. ASSUME NEW t \in Temp, Free(t)
        PROVE  Frame!Next
    <3>1. held[t] # NoReg /\ held' = [held EXCEPT ![t] = NoReg]
      BY <2>3 DEF Free
    <3>2. frame_size(alloc)' = frame_size(alloc)
      BY <2>3 DEF Free, free, frame_size, IInv, TypeOK
    <3> QED
      BY <3>1, <3>2 DEF Frame!Next, Frame!Give
  <2> QED
    BY <2>1, <2>2, <2>3 DEF Next
<1> QED
  BY <1>1, <1>2, Invariance, PTL DEF Spec, AllocatesSlots, Frame!Spec
=============================================================================
