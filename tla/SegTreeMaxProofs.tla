--------------------------- MODULE SegTreeMaxProofs --------------------------
(***************************************************************************)
(* seg_tree->max (src/common/src/seg_tree.c): when calloc never fails and  *)
(* no caller passes the top offset, outside seg_tree_add it is the highest *)
(* end in the tree.  seg_tree_add updates it once, at line 214, with       *)
(* MAX(max, end), after its loop has trimmed, split and dropped nodes; the *)
(* argument is that the loop only removes bytes of the new range, so every *)
(* node it touches that ended above the new range keeps its end.          *)
(***************************************************************************)
EXTENDS SegTreeProofs

\* No thread is inside seg_tree_add.
NoAdd == \A t \in Threads : pc[t] # "add"

\* The facts about max outside an add, for a set of nodes S and a value m.
MaxOf(S, m) ==
  /\ \A g \in S : g.end <= m
  /\ S = {} => m = 0
  /\ S # {} => \E g \in S : g.end = m

\* A step of a thread other than the writer, or of a reader, leaves the set
\* of threads inside seg_tree_add alone.
LEMMA AddersFixed ==
  ASSUME TypeOK, NEW t \in Threads, pc[t] # "add",
         pc' = [pc EXCEPT ![t] = "read"] \/ pc' = [pc EXCEPT ![t] = "idle"]
           \/ pc' = pc
  PROVE  \A u \in Threads : pc'[u] = "add" <=> pc[u] = "add"
  BY DEF TypeOK

\* MaxInv, stated with the operators above.
LEMMA MaxInvDef ==
  MaxInv <=> /\ \A t \in Threads : pc[t] = "add" => writer = t
             /\ NoAdd => MaxOf(segs, max)
             /\ \A t \in Threads : pc[t] = "add" =>
                   /\ \A g \in segs : g.end <= AddMax(t)
                   /\ AddMax(t) = node[t].end \/ \E g \in segs : g.end = AddMax(t)
  BY DEF MaxInv, NoAdd, MaxOf

\* Steps that leave the nodes, max, the lock and the running add alone.
LEMMA MaxQuiet ==
  ASSUME TypeOK, MaxInv, UNCHANGED <<segs, max, writer, node>>,
         \A u \in Threads : pc'[u] = "add" <=> pc[u] = "add"
  PROVE  MaxInv'
  BY DEF MaxInv, AddMax

\* seg_tree_add's lock, lines 147-152: the new add starts from a tree whose
\* max is its highest end.
LEMMA MaxBegin ==
  ASSUME TypeOK, MaxInv, NEW t \in Threads, NEW s \in Offsets, NEW e \in Offsets,
         NEW p \in Ptrs, s <= e, AddBegin(t, s, e, p)
  PROVE  MaxInv'
  <1>1. NoAdd /\ MaxOf(segs, max)
    <2>1. NoAdd
      BY ConstAssumption DEF AddBegin, LockFree, MaxInv, NoAdd
    <2>2. QED
      BY <2>1 DEF MaxInv, NoAdd, MaxOf
  <1>2. \A u \in Threads : pc'[u] = "add" <=> u = t
    BY <1>1 DEF AddBegin, NoAdd, TypeOK
  <1>3. max \in Nat /\ e \in Nat /\ node'[t].end = e
    BY ConstAssumption, ModFacts DEF AddBegin, TypeOK, Word
  <1>4. AddMax(t)' = IF max > e THEN max ELSE e
    BY <1>3 DEF AddBegin, AddMax
  <1>5. \A g \in segs' : g.end <= AddMax(t)'
    BY <1>1, <1>3, <1>4 DEF AddBegin, MaxOf, TypeOK, Seg, Word
  <1>6. AddMax(t)' = node'[t].end \/ \E g \in segs' : g.end = AddMax(t)'
    BY <1>1, <1>3, <1>4 DEF AddBegin, MaxOf
  <1>7. QED
    BY <1>2, <1>5, <1>6 DEF MaxInv, AddBegin

\* A node the loop drops lies inside the new range.
LEMMA FullInside ==
  ASSUME NEW o \in Seg, NEW n \in Seg, Trim(o, n).full
  PROVE  o.end <= n.end
  BY DEF Trim, NonOverlapping

\* One pass of seg_tree_add's loop, lines 159-208: dropping, trimming or
\* splitting the overlapping node o never raises an end above what the add
\* will store, and a node that ended there keeps its end in a piece.
LEMMA MaxOverlap ==
  ASSUME IInv, MaxInv, ~MayFailAlloc, NEW t \in Threads, AddOverlap(t)
  PROVE  MaxInv'
  <1> DEFINE n == node[t]
             M == AddMax(t)
  <1>1. pc[t] = "add" /\ n \in Seg /\ Proper(n) /\ Shape
    BY ShapeFromIInv DEF AddOverlap, IInv, AddingWellFormed, Proper
  <1>2. PICK o \in segs : /\ Overlap(o, n)
                          /\ AddDrop(t, o) \/ AddTrim(t, o) \/ AddSplit(t, o)
    BY DEF AddOverlap, AddTrimNoMem, AddRestNoMem
  <1>3. UNCHANGED <<max, writer, pc, node>>
    BY <1>2 DEF AddOverlap, AddDrop, AddTrim, AddSplit
  <1>4. \A u \in Threads : pc[u] = "add" => u = t
    BY <1>1 DEF MaxInv
  <1>5. /\ M \in Nat /\ n.end <= M /\ o \in Seg /\ o.end <= M
        /\ \A g \in segs : g.end <= M
        /\ M = n.end \/ \E g \in segs : g.end = M
    BY <1>1, <1>2 DEF MaxInv, AddMax, IInv, TypeOK, Shape, Seg, Word
  <1>6. /\ \A g \in segs' : g.end <= M
        /\ M = n.end \/ \E g \in segs' : g.end = M
    <2>1. CASE AddDrop(t, o)
      <3>1. segs' = segs \ {o} /\ o.end <= n.end
        BY <1>1, <1>5, <2>1, FullInside DEF AddDrop
      <3>2. QED
        BY <1>1, <1>5, <3>1 DEF Shape, Seg, Word
    <2>2. CASE AddTrim(t, o) \/ AddSplit(t, o)
      <3>1. ~Trim(o, n).full
        BY <2>2 DEF AddTrim, AddSplit
      <3>2. /\ Resized(o, n) \in Seg /\ Resized(o, n).end <= o.end
            /\ RBInsert(segs \ {o}, Resized(o, n)) = Kept(segs, o, n)
            /\ ~HasRest(o, n) => Resized(o, n).end = o.end
            /\ HasRest(o, n) =>
                 /\ Remaining(o, n) \in Seg /\ Remaining(o, n).end = o.end
                 /\ RBInsert(Kept(segs, o, n), Remaining(o, n)) = Split(segs, o, n)
        BY <1>1, <1>2, <3>1, PiecesFit DEF Shape
      <3>3. CASE AddTrim(t, o)
        <4>1. segs' = (segs \ {o}) \cup {Resized(o, n)}
              /\ Resized(o, n).end = o.end
          BY <3>2, <3>3 DEF AddTrim, Kept
        <4>2. QED
          BY <1>5, <4>1 DEF Seg, Word
      <3>4. CASE AddSplit(t, o)
        <4>1. /\ segs' = (segs \ {o}) \cup {Resized(o, n), Remaining(o, n)}
              /\ Remaining(o, n).end = o.end /\ Remaining(o, n) \in Seg
          BY <3>2, <3>4 DEF AddSplit, Kept, Split
        <4>2. QED
          BY <1>5, <3>2, <4>1 DEF Seg, Word
      <3>5. QED
        BY <2>2, <3>3, <3>4
    <2>3. QED
      BY <1>2, <2>1, <2>2
  <1>7. QED
    BY <1>1, <1>3, <1>4, <1>6 DEF MaxInv, AddMax

\* seg_tree_add's return, lines 210-217: the node goes in, max becomes
\* MAX(max, end), and no add is running any more.
LEMMA MaxDone ==
  ASSUME IInv, MaxInv, NEW t \in Threads, AddDone(t)
  PROVE  MaxInv'
  <1> DEFINE n == node[t]
  <1>1. pc[t] = "add" /\ n \in Seg /\ segs \subseteq Seg /\ max \in Nat
    BY DEF AddDone, IInv, AddingWellFormed, TypeOK, Word
  <1>2. \A u \in Threads : pc[u] = "add" => u = t
    BY <1>1 DEF MaxInv
  <1>3. NoAdd'
    BY <1>1, <1>2 DEF AddDone, NoAdd, IInv, TypeOK
  <1>4. /\ \A g \in segs : g.end <= AddMax(t)
        /\ AddMax(t) = n.end \/ \E g \in segs : g.end = AddMax(t)
    BY <1>1 DEF MaxInv
  <1>5. segs' = segs \cup {n} /\ max' = AddMax(t)
    BY DEF AddDone, AddMax
  <1>6. MaxOf(segs', max')
    BY <1>1, <1>4, <1>5 DEF MaxOf, AddMax, Seg, Word
  <1>7. QED
    BY <1>3, <1>6 DEF MaxInv, NoAdd, MaxOf

\* seg_tree_clear, lines 339-368: max is reset with the nodes, and an empty
\* tree, left as it is, already has max = 0.
LEMMA MaxClear ==
  ASSUME TypeOK, MaxInv, NEW t \in Threads, Clear(t)
  PROVE  MaxInv'
  <1>1. NoAdd
    BY ConstAssumption DEF Clear, LockFree, MaxInv, NoAdd
  <1>2. MaxOf(segs', max')
    BY <1>1 DEF Clear, MaxInv, NoAdd, MaxOf
  <1>3. QED
    BY <1>1, <1>2 DEF Clear, MaxInv, NoAdd, MaxOf

\* MaxInv is preserved by every step when calloc never fails.
THEOREM MaxInvStep ==
  ASSUME TopFree, ~MayFailAlloc
  PROVE  IInv /\ MaxInv /\ [Next]_vars => MaxInv'
  <1> SUFFICES ASSUME IInv, MaxInv, [Next]_vars PROVE MaxInv'
    OBVIOUS
  <1>0. TypeOK
    BY DEF IInv
  <1>1. CASE UNCHANGED vars
    BY <1>1 DEF vars, MaxInv, AddMax
  <1>2. ASSUME NEW t \in Threads, AddNoMem(t) PROVE MaxInv'
    BY <1>2 DEF AddNoMem
  <1>3. ASSUME NEW t \in Threads, NEW s \in Offsets, NEW e \in Offsets,
               NEW p \in Ptrs, s <= e, AddBegin(t, s, e, p)
        PROVE  MaxInv'
    BY <1>0, <1>3, MaxBegin
  <1>4. ASSUME NEW t \in Threads, AddOverlap(t) PROVE MaxInv'
    BY <1>4, MaxOverlap
  <1>5. ASSUME NEW t \in Threads, AddDone(t) PROVE MaxInv'
    BY <1>5, MaxDone
  <1>6. ASSUME NEW t \in Threads, Clear(t) PROVE MaxInv'
    BY <1>0, <1>6, MaxClear
  <1>7. ASSUME NEW t \in Threads, RdLock(t) \/ RdUnlock(t) PROVE MaxInv'
    <2>1. pc[t] # "add"
      BY <1>7 DEF RdLock, RdUnlock
    <2>2. \A u \in Threads : pc'[u] = "add" <=> pc[u] = "add"
      BY <1>0, <1>7, <2>1, AddersFixed DEF RdLock, RdUnlock
    <2>3. QED
      BY <1>0, <1>7, <2>2, MaxQuiet DEF RdLock, RdUnlock
  <1>8. ASSUME NEW t \in Threads, NEW s \in Offsets, NEW e \in Offsets, Find(t, s, e)
        PROVE  MaxInv'
    BY <1>0, <1>8, MaxQuiet DEF Find
  <1>9. QED
    BY <1>1, <1>2, <1>3, <1>4, <1>5, <1>6, <1>7, <1>8 DEF Next

\* Under MaxInv, max is what seg_tree_max's callers expect.
LEMMA MaxInvGivesHighest ==
  ASSUME TypeOK, MaxInv
  PROVE  MaxIsHighestEnd
  <1> SUFFICES ASSUME NoAdd PROVE max = HighestEnd(segs)
    BY DEF MaxIsHighestEnd, NoAdd
  <1>1. MaxOf(segs, max)
    BY DEF MaxInv, NoAdd, MaxOf
  <1>2. CASE segs = {}
    BY <1>1, <1>2 DEF MaxOf, HighestEnd
  <1>3. CASE segs # {}
    <2>1. PICK w \in segs : w.end = max
      BY <1>1, <1>3 DEF MaxOf
    <2>2. \A h \in segs : h.end <= w.end
      BY <1>1, <2>1 DEF MaxOf
    <2>3. \E g \in segs : \A h \in segs : h.end <= g.end
      BY <2>2
    <2>4. HighestEnd(segs) = (CHOOSE g \in segs : \A h \in segs : h.end <= g.end).end
      BY <1>3 DEF HighestEnd
    <2>5. QED
      BY <1>1, <2>1, <2>2, <2>3, <2>4 DEF MaxOf, TypeOK, Seg, Word
  <1>4. QED
    BY <1>2, <1>3

(***************************************************************************)
(* MaxInv holds in every reachable state when calloc never fails and no    *)
(* caller passes the top offset: seg_tree_add's loop never leaves a node   *)
(* ending above the MAX it stores at line 214, and only the lock holder    *)
(* runs it.                                                                *)
(***************************************************************************)
THEOREM MaxInvHolds ==
  ASSUME TopFree, ~MayFailAlloc
  PROVE  Spec => [](IInv /\ MaxInv)
  <1>1. Init => IInv /\ MaxInv
    BY IInvInit DEF Init, MaxInv, AddMax
  <1>2. IInv /\ MaxInv /\ [Next]_vars => IInv' /\ MaxInv'
    BY IInvStep, MaxInvStep
  <1>3. QED
    BY <1>1, <1>2, PTL DEF Spec

(***************************************************************************)
(* seg_tree->max is the highest end in the tree whenever no seg_tree_add   *)
(* is running, for every width and set of threads, when calloc never fails *)
(* and no caller passes the top offset.  A failed calloc leaves max stale  *)
(* after the loop has already removed nodes; the segtree_nomem run does    *)
(* not check this property for that reason.                                *)
(***************************************************************************)
THEOREM MaxHighest ==
  ASSUME TopFree, ~MayFailAlloc
  PROVE  Spec => []MaxIsHighestEnd
  <1>1. IInv /\ MaxInv => MaxIsHighestEnd
    BY MaxInvGivesHighest DEF IInv
  <1>2. QED
    BY <1>1, MaxInvHolds, PTL

=============================================================================
