---------------------------- MODULE SegTreeProofs ---------------------------
(***************************************************************************)
(* Proofs about the segment tree of SegTree (src/common/src/seg_tree.c):   *)
(* for callers that never pass the top offset 2^W - 1, IInv is inductive,  *)
(* so the tree is well typed and seg_tree->count always equals the number *)
(* of nodes, for every width, every set of threads and whether or not     *)
(* allocations fail.                                                        *)
(***************************************************************************)
EXTENDS SegTree, FiniteSetTheorems, WellFoundedInduction, TLAPS

\* A node that is a proper interval below the top offset.
Proper(g) == g \in Seg /\ g.start <= g.end /\ g.end < Mod - 1

LEMMA ModFacts == Mod \in Nat /\ Mod >= 2
  BY WAssumption DEF Mod

\* All nodes of S are proper, and no two share a byte.
AllProper(S) == \A g \in S : Proper(g)
DisjointSet(S) == \A g, h \in S : g # h => ~Overlap(g, h)

\* A part of a node shares no byte with what the node shares none with.
LEMMA InsideDisjoint ==
  ASSUME NEW o \in Seg, NEW g \in Seg, NEW h \in Seg,
         o.start <= g.start, g.end <= o.end, ~Overlap(o, h) \/ ~Overlap(h, o)
  PROVE  ~Overlap(g, h) /\ ~Overlap(h, g)
  BY ModFacts DEF Overlap, Seg, Word

\* RB_INSERT of a node that overlaps nothing adds one node.
LEMMA InsertFresh ==
  ASSUME NEW S, S \subseteq Seg, IsFiniteSet(S),
         NEW n \in Seg, n.start <= n.end,
         \A g \in S : ~Overlap(g, n)
  PROVE  /\ RBInsert(S, n) = S \cup {n}
         /\ IsFiniteSet(S \cup {n})
         /\ Cardinality(S \cup {n}) = Cardinality(S) + 1
  <1>1. n \notin S
    BY ModFacts DEF Overlap, Seg, Word
  <1>2. RBInsert(S, n) = S \cup {n}
    BY DEF RBInsert
  <1>3. QED
    BY <1>1, <1>2, FS_AddElement

\* seg_tree_node_alloc of a piece of a node gives a node.
LEMMA PieceType ==
  ASSUME NEW o \in Seg, NEW a \in Word, NEW b \in Word
  PROVE  /\ Piece(o, a, b) \in Seg
         /\ Piece(o, a, b).start = a
         /\ Piece(o, a, b).end = b
  BY ModFacts DEF Piece, Seg, Word

\* When get_non_overlapping_range returns 0, it returns a non-empty part of
\* the old node, provided neither range reaches the top offset.
LEMMA TrimFacts ==
  ASSUME NEW o \in Seg, NEW n \in Seg, Proper(o), Proper(n), Overlap(o, n),
         ~NonOverlapping(o.start, o.end, n.start, n.end).full
  PROVE  LET r == NonOverlapping(o.start, o.end, n.start, n.end)
         IN  /\ r.ns \in Word /\ r.ne \in Word
             /\ o.start <= r.ns /\ r.ns <= r.ne /\ r.ne <= o.end
  <1> DEFINE r == NonOverlapping(o.start, o.end, n.start, n.end)
  <1>1. CASE o.start < n.start
    <2>1. r = [full |-> FALSE, ns |-> o.start,
               ne |-> IF o.end < (n.start - 1) % Mod THEN o.end ELSE (n.start - 1) % Mod]
      BY <1>1, ModFacts DEF NonOverlapping, Seg, Word
    <2>2. (n.start - 1) % Mod = n.start - 1
      BY <1>1, ModFacts DEF Seg, Word
    <2>3. QED
      BY <2>1, <2>2, <1>1, ModFacts DEF Proper, Seg, Word
  <1>2. CASE o.start > n.start /\ o.end > n.end
    <2>1. r = [full |-> FALSE, ne |-> o.end,
               ns |-> IF o.start > (n.end + 1) % Mod THEN o.start ELSE (n.end + 1) % Mod]
      BY <1>2, ModFacts DEF NonOverlapping, Seg, Word
    <2>2. (n.end + 1) % Mod = n.end + 1
      BY ModFacts DEF Proper, Seg, Word
    <2>3. QED
      BY <2>1, <2>2, <1>2, ModFacts DEF Proper, Seg, Word, Overlap
  <1>3. CASE o.start = n.start /\ o.end > n.end
    <2>1. r = [full |-> FALSE, ns |-> (n.end + 1) % Mod, ne |-> o.end]
      BY <1>3, ModFacts DEF NonOverlapping, Seg, Word
    <2>2. (n.end + 1) % Mod = n.end + 1
      BY ModFacts DEF Proper, Seg, Word
    <2>3. QED
      BY <2>1, <2>2, <1>3, ModFacts DEF Proper, Seg, Word
  <1>4. QED
    <2>1. ~(o.start >= n.start /\ o.end <= n.end)
      BY ModFacts DEF NonOverlapping
    <2>2. QED
      BY <2>1, <1>1, <1>2, <1>3, ModFacts DEF Seg, Word

\* Inserting a proper node that overlaps nothing keeps the tree's shape.
LEMMA InsertKeeps ==
  ASSUME NEW S, S \subseteq Seg, IsFiniteSet(S), AllProper(S), DisjointSet(S),
         NEW n, Proper(n), \A g \in S : ~Overlap(g, n) /\ ~Overlap(n, g)
  PROVE  /\ RBInsert(S, n) = S \cup {n}
         /\ S \cup {n} \subseteq Seg
         /\ IsFiniteSet(S \cup {n})
         /\ Cardinality(S \cup {n}) = Cardinality(S) + 1
         /\ AllProper(S \cup {n})
         /\ DisjointSet(S \cup {n})
  <1>1. /\ RBInsert(S, n) = S \cup {n}
        /\ IsFiniteSet(S \cup {n})
        /\ Cardinality(S \cup {n}) = Cardinality(S) + 1
    BY InsertFresh DEF Proper
  <1>2. DisjointSet(S \cup {n})
    BY DEF DisjointSet
  <1>3. QED
    BY <1>1, <1>2 DEF AllProper, Proper

\* Removing a node of the tree keeps its shape and counts one less.
LEMMA RemoveKeeps ==
  ASSUME NEW S, S \subseteq Seg, IsFiniteSet(S), AllProper(S), DisjointSet(S),
         NEW o \in S
  PROVE  /\ S \ {o} \subseteq Seg
         /\ IsFiniteSet(S \ {o})
         /\ Cardinality(S \ {o}) = Cardinality(S) - 1
         /\ Cardinality(S \ {o}) \in Nat
         /\ AllProper(S \ {o})
         /\ DisjointSet(S \ {o})
         /\ \A g \in S \ {o} : ~Overlap(g, o) /\ ~Overlap(o, g)
  <1>1. /\ IsFiniteSet(S \ {o})
        /\ Cardinality(S \ {o}) = Cardinality(S) - 1
    BY FS_RemoveElement
  <1>2. Cardinality(S \ {o}) \in Nat
    BY <1>1, FS_CardinalityType
  <1>3. QED
    BY <1>1, <1>2 DEF AllProper, DisjointSet

\* The values seg_tree_find_nolock can return.
LEMMA FindType ==
  ASSUME NEW S, S \subseteq Seg, NEW s, NEW e
  PROVE  FindNoLock(S, s, e) \in Seg \cup {NoSeg}
  BY DEF FindNoLock

\* The byte map of a set of nodes.
LEMMA TreeBytesType ==
  ASSUME NEW S, S \subseteq Seg
  PROVE  TreeBytes(S) \in [Word -> Word \cup {Mod}]
  <1>1. ASSUME NEW x \in Word, NEW g \in S
        PROVE  (g.ptr + (x - g.start)) % Mod \in Word
    BY ModFacts DEF Seg, Word
  <1>2. QED
    BY <1>1 DEF TreeBytes

\* The shape of the tree, as the lemmas above state it.
Shape == segs \subseteq Seg /\ IsFiniteSet(segs) /\ AllProper(segs) /\ DisjointSet(segs)

LEMMA ShapeFromIInv == IInv => Shape
  BY DEF IInv, TypeOK, SegsWellFormed, SegsDisjoint, Shape, AllProper,
         DisjointSet, Proper

LEMMA ShapeToIInv ==
  ASSUME Shape', TypeOK', AddingWellFormed', CountConsistent'
  PROVE  IInv'
  BY DEF IInv, Shape, SegsWellFormed, SegsDisjoint, AllProper, DisjointSet, Proper

\* When the trimmed piece leaves no remainder, it keeps the old node's end:
\* a left piece always leaves the part of o after the new range.
LEMMA TrimKeepsEnd ==
  ASSUME NEW o \in Seg, NEW n \in Seg, Proper(o), Proper(n), Overlap(o, n),
         ~Trim(o, n).full, ~HasRest(o, n)
  PROVE  Resized(o, n).end = o.end
  <1>1. Resized(o, n).end = Trim(o, n).ne /\ Trim(o, n).ne \in Word
    BY TrimFacts, PieceType DEF Trim, Resized
  <1>2. CASE o.start < n.start
    <2>1. (n.start - 1) % Mod = n.start - 1 /\ o.end >= n.start
      BY <1>2, ModFacts DEF Overlap, Seg, Word
    <2>2. Trim(o, n).ne = n.start - 1
      BY <1>2, <2>1, ModFacts DEF Trim, NonOverlapping, Seg, Word
    <2>3. RestStart(o, n) = n.start
      BY <1>1, <2>2, ModFacts DEF RestStart, Seg, Word
    <2>4. HasRest(o, n)
      BY <1>2, <2>1, <2>3 DEF HasRest, Seg, Word
    <2>5. QED
      BY <2>4
  <1>3. CASE ~(o.start < n.start)
    BY <1>1, <1>3, ModFacts DEF Trim, NonOverlapping, Seg, Word
  <1>4. QED
    BY <1>2, <1>3

\* The tree after a pass of seg_tree_add's loop has trimmed node o, without
\* and with a remainder.
Kept(S, o, n) == (S \ {o}) \cup {Resized(o, n)}
Split(S, o, n) == Kept(S, o, n) \cup {Remaining(o, n)}

\* One pass of seg_tree_add's loop that trims node o of a well-formed tree:
\* the piece resized and the remainder are proper parts of o, RB_INSERT
\* takes both, and the tree keeps its shape.
LEMMA PiecesFit ==
  ASSUME NEW S, S \subseteq Seg, IsFiniteSet(S), AllProper(S), DisjointSet(S),
         NEW n \in Seg, Proper(n), NEW o \in S, Overlap(o, n), ~Trim(o, n).full
  PROVE  /\ Resized(o, n) \in Seg /\ Resized(o, n).end <= o.end
         /\ RBInsert(S \ {o}, Resized(o, n)) = Kept(S, o, n)
         /\ Kept(S, o, n) \subseteq Seg /\ IsFiniteSet(Kept(S, o, n))
         /\ AllProper(Kept(S, o, n)) /\ DisjointSet(Kept(S, o, n))
         /\ Cardinality(Kept(S, o, n)) = Cardinality(S)
         /\ ~HasRest(o, n) => Resized(o, n).end = o.end
         /\ HasRest(o, n) =>
              /\ Remaining(o, n) \in Seg /\ Remaining(o, n).end = o.end
              /\ RBInsert(Kept(S, o, n), Remaining(o, n)) = Split(S, o, n)
              /\ IsFiniteSet(Split(S, o, n)) /\ AllProper(Split(S, o, n))
              /\ DisjointSet(Split(S, o, n))
              /\ Cardinality(Split(S, o, n)) = Cardinality(S) + 1
  <1> DEFINE r == Resized(o, n)
             m == Remaining(o, n)
             others == S \ {o}
             K == others \cup {r}
  <1>1. /\ others \subseteq Seg /\ IsFiniteSet(others)
        /\ Cardinality(others) = Cardinality(S) - 1
        /\ Cardinality(others) \in Nat
        /\ AllProper(others) /\ DisjointSet(others)
        /\ \A g \in others : ~Overlap(g, o) /\ ~Overlap(o, g)
    BY RemoveKeeps
  <1>2. Proper(o) /\ Cardinality(S) \in Nat
    BY FS_CardinalityType DEF AllProper
  <1>3. /\ r \in Seg /\ Proper(r)
        /\ o.start <= r.start /\ r.end <= o.end
        /\ RestStart(o, n) = r.end + 1
    <2>1. /\ Trim(o, n).ns \in Word /\ Trim(o, n).ne \in Word
          /\ o.start <= Trim(o, n).ns /\ Trim(o, n).ns <= Trim(o, n).ne
          /\ Trim(o, n).ne <= o.end
      BY <1>2, TrimFacts DEF Trim
    <2>2. r \in Seg /\ r.start = Trim(o, n).ns /\ r.end = Trim(o, n).ne
      BY <2>1, PieceType DEF Resized
    <2>3. QED
      BY <1>2, <2>1, <2>2, ModFacts DEF Proper, RestStart, Seg, Word
  <1>4. \A g \in others : ~Overlap(g, r) /\ ~Overlap(r, g)
    BY <1>1, <1>3, InsideDisjoint
  <1>5. /\ RBInsert(others, r) = K
        /\ K \subseteq Seg /\ IsFiniteSet(K)
        /\ Cardinality(K) = Cardinality(others) + 1
        /\ AllProper(K) /\ DisjointSet(K)
    BY <1>1, <1>3, <1>4, InsertKeeps
  <1>6. ~HasRest(o, n) => r.end = o.end
    BY <1>2, TrimKeepsEnd DEF AllProper
  <1>7. ASSUME HasRest(o, n)
        PROVE  /\ m \in Seg /\ m.end = o.end
               /\ RBInsert(K, m) = K \cup {m}
               /\ IsFiniteSet(K \cup {m}) /\ AllProper(K \cup {m})
               /\ DisjointSet(K \cup {m})
               /\ Cardinality(K \cup {m}) = Cardinality(K) + 1
    <2>1. RestStart(o, n) \in Word
      BY <1>2, <1>3, <1>7, ModFacts DEF Proper, Seg, Word
    <2>2. m \in Seg /\ m.start = RestStart(o, n) /\ m.end = o.end
      BY <2>1, PieceType DEF Remaining, Seg
    <2>3. Proper(m) /\ o.start <= m.start /\ r.end < m.start
      BY <1>2, <1>3, <1>7, <2>2, ModFacts DEF HasRest, Proper, Seg, Word
    <2>4. \A g \in K : ~Overlap(g, m) /\ ~Overlap(m, g)
      <3>1. ASSUME NEW g \in others PROVE ~Overlap(g, m) /\ ~Overlap(m, g)
        <4>1. o \in Seg /\ g \in Seg /\ ~Overlap(o, g)
          BY <1>1
        <4>2. m \in Seg /\ o.start <= m.start /\ m.end <= o.end
          BY <2>2, <2>3 DEF Seg, Word
        <4>3. QED
          BY <4>1, <4>2, InsideDisjoint, Zenon
      <3>2. ~Overlap(r, m) /\ ~Overlap(m, r)
        BY <1>3, <2>2, <2>3 DEF Overlap, Proper, Seg, Word
      <3>3. QED
        BY <3>1, <3>2
    <2>5. QED
      BY <1>5, <2>2, <2>3, <2>4, InsertKeeps
  <1>8. Cardinality(K) = Cardinality(S)
    BY <1>1, <1>2, <1>5
  <1>9. HasRest(o, n) => Cardinality(K \cup {m}) = Cardinality(S) + 1
    BY <1>7, <1>8
  <1>10. QED
    BY <1>3, <1>5, <1>6, <1>7, <1>8, <1>9, Zenon DEF Kept, Split

THEOREM IInvInit == Init => IInv
  <1> SUFFICES ASSUME Init PROVE IInv
    OBVIOUS
  <1>1. NoBytes \in [Word -> Word \cup {Mod}]
    BY DEF NoBytes
  <1>2. NoSeg \in Seg \cup {NoSeg}
    OBVIOUS
  <1>3. IsFiniteSet(segs) /\ Cardinality(segs) = 0
    BY FS_EmptySet DEF Init
  <1>4. TypeOK
    <2>1. segs \subseteq Seg /\ count \in Nat /\ max \in Word
      BY <1>3, ModFacts DEF Init, Word
    <2>2. writer \in Threads \cup {NoThread} /\ readers \subseteq Threads
      BY DEF Init
    <2>3. pc \in [Threads -> {"idle", "add", "read"}]
      BY DEF Init
    <2>4. node \in [Threads -> Seg \cup {NoSeg}] /\ found \in [Threads -> Seg \cup {NoSeg}]
      BY <1>2 DEF Init
    <2>5. rc \in [Threads -> {0, ENOMEM}]
      BY DEF Init
    <2>6. crashed \in BOOLEAN /\ calls \in Nat /\ snapshot \in [Word -> Word \cup {Mod}]
      BY <1>1 DEF Init
    <2>7. QED
      BY <2>1, <2>2, <2>3, <2>4, <2>5, <2>6 DEF TypeOK
  <1>5. SegsWellFormed /\ SegsDisjoint /\ AddingWellFormed /\ CountConsistent
    BY <1>3 DEF Init, SegsWellFormed, SegsDisjoint, AddingWellFormed, CountConsistent
  <1>6. QED
    BY <1>3, <1>4, <1>5 DEF IInv

\* The steps that leave the nodes and the count alone.
LEMMA IInvQuiet ==
  ASSUME IInv, UNCHANGED <<segs, count>>, TypeOK', AddingWellFormed'
  PROVE  IInv'
  BY ShapeFromIInv, ShapeToIInv DEF IInv, CountConsistent, Shape, AllProper,
     DisjointSet, Proper

THEOREM IInvStep == ASSUME TopFree PROVE IInv /\ [Next]_vars => IInv'
  <1> SUFFICES ASSUME IInv, [Next]_vars PROVE IInv'
    OBVIOUS
  <1>0. TypeOK /\ Shape /\ AddingWellFormed /\ CountConsistent
    BY ShapeFromIInv DEF IInv
  <1>1. CASE UNCHANGED vars
    BY <1>1 DEF vars, IInv, TypeOK, SegsWellFormed, SegsDisjoint,
       AddingWellFormed, CountConsistent
  <1>2. ASSUME NEW t \in Threads, AddNoMem(t) PROVE IInv'
    <2>1. TypeOK'
      BY <1>0, <1>2 DEF AddNoMem, TypeOK
    <2>2. AddingWellFormed'
      BY <1>0, <1>2 DEF AddNoMem, AddingWellFormed
    <2>3. QED
      BY <2>1, <2>2, <1>2, IInvQuiet DEF AddNoMem
  <1>3. ASSUME NEW t \in Threads, NEW s \in Offsets, NEW e \in Offsets,
               NEW p \in Ptrs, s <= e, AddBegin(t, s, e, p)
        PROVE  IInv'
    <2>1. [start |-> s, end |-> e, ptr |-> p] \in Seg /\ e < Mod - 1
      BY ConstAssumption, ModFacts, TopFree DEF TopFree, Seg, Word
    <2>2. TreeBytes(segs) \in [Word -> Word \cup {Mod}]
      BY <1>0, TreeBytesType DEF TypeOK
    <2>3. TypeOK'
      BY <1>0, <1>3, <2>1, <2>2 DEF AddBegin, TypeOK
    <2>4. AddingWellFormed'
      BY <1>0, <1>3, <2>1 DEF AddBegin, AddingWellFormed, TypeOK
    <2>5. QED
      BY <2>3, <2>4, <1>3, IInvQuiet DEF AddBegin
  <1>4. ASSUME NEW t \in Threads, AddOverlap(t) PROVE IInv'
    <2> DEFINE n == node[t]
    <2>1. pc[t] = "add" /\ Proper(n)
      BY <1>0, <1>4 DEF AddOverlap, AddingWellFormed, Proper
    <2>2. PICK o \in segs :
             /\ Overlap(o, n)
             /\ \/ AddDrop(t, o)
                \/ AddTrimNoMem(t, o)
                \/ AddTrim(t, o)
                \/ AddSplit(t, o)
                \/ AddRestNoMem(t, o)
      BY <1>4 DEF AddOverlap
    <2>3. UNCHANGED <<max, readers, calls>>
      BY <1>4 DEF AddOverlap
    <2> DEFINE others == segs \ {o}
    <2>4. /\ others \subseteq Seg /\ IsFiniteSet(others)
          /\ Cardinality(others) = Cardinality(segs) - 1
          /\ Cardinality(others) \in Nat
          /\ AllProper(others) /\ DisjointSet(others)
          /\ \A g \in others : ~Overlap(g, o) /\ ~Overlap(o, g)
      BY <1>0, RemoveKeeps DEF Shape
    <2>13. Cardinality(segs) \in Nat
      BY <1>0, FS_CardinalityType DEF Shape
    <2>5. Proper(o) /\ o \in Seg
      BY <1>0 DEF Shape, AllProper, Proper
    <2>8. CASE AddDrop(t, o)
      <3>a. Shape' /\ CountConsistent' /\ count' \in Nat
        BY <1>0, <2>4, <2>8 DEF AddDrop, Shape, CountConsistent
      <3>b. TypeOK'
        BY <1>0, <2>3, <2>8, <3>a DEF AddDrop, TypeOK, Shape
      <3>c. AddingWellFormed'
        BY <1>0, <2>8 DEF AddDrop, AddingWellFormed
      <3>d. QED
        BY <3>a, <3>b, <3>c, ShapeToIInv
    <2>9. CASE AddTrimNoMem(t, o) \/ AddRestNoMem(t, o)
      <3>1. TypeOK'
        BY <1>0, <2>3, <2>9, ModFacts DEF AddTrimNoMem, AddRestNoMem, TypeOK,
           NoBytes, ENOMEM
      <3>2. AddingWellFormed'
        <4>1. \A u \in Threads : pc'[u] = "add" => pc[u] = "add" /\ node'[u] = node[u]
          BY <1>0, <2>9 DEF AddTrimNoMem, AddRestNoMem, TypeOK
        <4>2. QED
          BY <4>1, <1>0 DEF AddingWellFormed
      <3>3. QED
        BY <3>1, <3>2, <2>9, IInvQuiet DEF AddTrimNoMem, AddRestNoMem
    \* Both trimming cases: resized, and the remainder, go in whole.
    <2>6. ASSUME ~Trim(o, n).full
          PROVE  /\ RBInsert(others, Resized(o, n)) = Kept(segs, o, n)
                 /\ Kept(segs, o, n) \subseteq Seg /\ IsFiniteSet(Kept(segs, o, n))
                 /\ AllProper(Kept(segs, o, n)) /\ DisjointSet(Kept(segs, o, n))
                 /\ Cardinality(Kept(segs, o, n)) = Cardinality(segs)
                 /\ HasRest(o, n) =>
                      /\ RBInsert(Kept(segs, o, n), Remaining(o, n)) = Split(segs, o, n)
                      /\ Split(segs, o, n) \subseteq Seg
                      /\ IsFiniteSet(Split(segs, o, n))
                      /\ AllProper(Split(segs, o, n)) /\ DisjointSet(Split(segs, o, n))
                      /\ Cardinality(Split(segs, o, n)) = Cardinality(segs) + 1
      <3>1. /\ segs \subseteq Seg /\ IsFiniteSet(segs)
            /\ AllProper(segs) /\ DisjointSet(segs)
            /\ n \in Seg /\ Proper(n) /\ Overlap(o, n)
        BY <1>0, <2>1, <2>2 DEF Shape, Proper
      <3>2. /\ RBInsert(segs \ {o}, Resized(o, n)) = Kept(segs, o, n)
            /\ Kept(segs, o, n) \subseteq Seg /\ IsFiniteSet(Kept(segs, o, n))
            /\ AllProper(Kept(segs, o, n)) /\ DisjointSet(Kept(segs, o, n))
            /\ Cardinality(Kept(segs, o, n)) = Cardinality(segs)
            /\ HasRest(o, n) =>
                 /\ Remaining(o, n) \in Seg
                 /\ RBInsert(Kept(segs, o, n), Remaining(o, n)) = Split(segs, o, n)
                 /\ IsFiniteSet(Split(segs, o, n)) /\ AllProper(Split(segs, o, n))
                 /\ DisjointSet(Split(segs, o, n))
                 /\ Cardinality(Split(segs, o, n)) = Cardinality(segs) + 1
        BY <3>1, <2>6, PiecesFit
      <3>3. QED
        BY <3>2 DEF Split
    <2>10. CASE AddTrim(t, o)
      <3>1. Shape' /\ CountConsistent'
        BY <1>0, <2>6, <2>10 DEF AddTrim, Shape, CountConsistent
      <3>2. TypeOK'
        BY <1>0, <2>3, <2>10, <3>1 DEF AddTrim, TypeOK, Shape
      <3>3. AddingWellFormed'
        BY <1>0, <2>10 DEF AddTrim, AddingWellFormed
      <3>4. QED
        BY <3>1, <3>2, <3>3, ShapeToIInv
    <2>11. CASE AddSplit(t, o)
      <3>1. Shape' /\ CountConsistent'
        BY <1>0, <2>6, <2>11 DEF AddSplit, Shape, CountConsistent
      <3>2. TypeOK'
        BY <1>0, <2>3, <2>11, <3>1 DEF AddSplit, TypeOK, Shape
      <3>3. AddingWellFormed'
        BY <1>0, <2>11 DEF AddSplit, AddingWellFormed
      <3>4. QED
        BY <3>1, <3>2, <3>3, ShapeToIInv
    <2>12. QED
      BY <2>2, <2>8, <2>9, <2>10, <2>11
  <1>5. ASSUME NEW t \in Threads, AddDone(t) PROVE IInv'
    <2> DEFINE n == node[t]
    <2>1. Proper(n) /\ \A g \in segs : ~Overlap(g, n) /\ ~Overlap(n, g)
      BY <1>0, <1>5 DEF AddDone, AddingWellFormed, Proper, Overlap, Seg, Word
    <2>2. /\ segs' \subseteq Seg /\ IsFiniteSet(segs')
          /\ Cardinality(segs') = Cardinality(segs) + 1
          /\ AllProper(segs') /\ DisjointSet(segs')
      BY <1>0, <1>5, <2>1, InsertKeeps DEF AddDone, Shape
    <2>3. CountConsistent'
      BY <1>0, <1>5, <2>2 DEF AddDone, CountConsistent
    <2>4. max' \in Word
      BY <1>0, <1>5, <2>1 DEF AddDone, AddMax, TypeOK, Proper, Seg
    <2>5. TypeOK'
      BY <1>0, <1>5, <2>2, <2>3, <2>4 DEF AddDone, TypeOK, NoBytes, CountConsistent
    <2>6. AddingWellFormed'
      BY <1>0, <1>5 DEF AddDone, AddingWellFormed, TypeOK
    <2>7. QED
      BY <2>2, <2>3, <2>5, <2>6, ShapeToIInv DEF Shape
  <1>6. ASSUME NEW t \in Threads, Clear(t) PROVE IInv'
    <2>1. IsFiniteSet(segs') /\ Cardinality(segs') = 0
      BY <1>6, FS_EmptySet DEF Clear
    <2>2. Shape'
      BY <1>6, <2>1 DEF Clear, Shape, AllProper, DisjointSet
    <2>3. TypeOK'
      BY <1>0, <1>6, ModFacts DEF Clear, TypeOK, Word
    <2>4. AddingWellFormed'
      BY <1>0, <1>6 DEF Clear, AddingWellFormed
    <2>5. CountConsistent'
      <3>1. CASE segs = {}
        BY <1>0, <1>6, <2>1, <3>1, FS_EmptySet DEF Clear, CountConsistent
      <3>2. CASE segs # {}
        BY <1>6, <2>1, <3>2 DEF Clear, CountConsistent
      <3>3. QED
        BY <3>1, <3>2
    <2>6. QED
      BY <2>2, <2>3, <2>4, <2>5, ShapeToIInv
  <1>7. ASSUME NEW t \in Threads, RdLock(t) \/ RdUnlock(t) PROVE IInv'
    <2>1. TypeOK'
      BY <1>0, <1>7 DEF RdLock, RdUnlock, TypeOK
    <2>2. AddingWellFormed'
      <3>1. /\ UNCHANGED node
            /\ \A u \in Threads : pc'[u] = "add" => pc[u] = "add"
        BY <1>0, <1>7 DEF RdLock, RdUnlock, TypeOK
      <3>2. QED
        BY <3>1, <1>0 DEF AddingWellFormed
    <2>3. QED
      BY <2>1, <2>2, <1>7, IInvQuiet DEF RdLock, RdUnlock
  <1>8. ASSUME NEW t \in Threads, NEW s \in Offsets, NEW e \in Offsets, Find(t, s, e)
        PROVE  IInv'
    <2>1. FindNoLock(segs, s, e) \in Seg \cup {NoSeg}
      BY <1>0, FindType DEF TypeOK
    <2>2. TypeOK'
      BY <1>0, <1>8, <2>1 DEF Find, TypeOK
    <2>3. AddingWellFormed'
      <3>1. UNCHANGED <<pc, node>>
        BY <1>8 DEF Find
      <3>2. QED
        BY <1>0, <3>1 DEF AddingWellFormed
    <2>4. QED
      BY <2>2, <2>3, <1>8, IInvQuiet DEF Find
  <1>9. QED
    BY <1>1, <1>2, <1>3, <1>4, <1>5, <1>6, <1>7, <1>8 DEF Next

(***************************************************************************)
(* IInv holds in every reachable state: the invariant the TLC runs check.  *)
(* The fairness conjuncts of Spec play no part in a safety argument.       *)
(***************************************************************************)
THEOREM IInvHolds == ASSUME TopFree PROVE Spec => []IInv
  <1>1. Init => IInv
    BY IInvInit
  <1>2. IInv /\ [Next]_vars => IInv'
    BY IInvStep
  <1>3. QED
    BY <1>1, <1>2, PTL DEF Spec

(***************************************************************************)
(* Every node seg_tree_add or seg_tree_clear leaves in the tree is well    *)
(* typed, and so are the lock, the cursor and the return codes.            *)
(***************************************************************************)
THEOREM TypeCorrect == ASSUME TopFree PROVE Spec => []TypeOK
  <1>1. IInv => TypeOK
    BY DEF IInv
  <1>2. QED
    BY <1>1, IInvHolds, PTL

(***************************************************************************)
(* seg_tree->count, as seg_tree_count returns it, always equals the number *)
(* of nodes in the tree when no caller passes the top offset 2^W - 1: the  *)
(* decrement for a dropped node and the increment for a split node keep it *)
(* in step through every interleaving of adds, clears and failed mallocs.  *)
(***************************************************************************)
THEOREM CountIsNodes == ASSUME TopFree PROVE Spec => []CountConsistent
  <1>1. IInv => CountConsistent
    BY DEF IInv
  <1>2. QED
    BY <1>1, IInvHolds, PTL

-----------------------------------------------------------------------------
(* seg_tree_find_nolock                                                    *)

\* Any non-empty set of nodes has one with the least start: the node
\* RB_NFIND reaches when no node holds the start byte.
LEMMA LeastStartExists ==
  ASSUME NEW T, T \subseteq Seg, T # {}
  PROVE  \E m \in T : \A h \in T : m.start <= h.start
  <1> DEFINE St == {g.start : g \in T}
  <1>1. St \subseteq Nat /\ St # {}
    BY ModFacts DEF Seg, Word
  <1>2. PICK x \in St : \A y \in St : ~(<<y, x>> \in OpToRel(<, Nat))
    BY <1>1, WFMin, NatLessThanWellFounded
  <1>3. \A y \in St : x <= y
    <2> SUFFICES ASSUME NEW y \in St, y < x PROVE FALSE
      BY <1>1
    <2>1. <<y, x>> \in Nat \X Nat /\ <<y, x>>[1] < <<y, x>>[2]
      BY <1>1
    <2>2. <<y, x>> \in OpToRel(<, Nat)
      BY <2>1, Zenon DEF OpToRel
    <2>3. QED
      BY <1>2, <2>2
  <1>4. PICK m \in T : m.start = x
    OBVIOUS
  <1>5. QED
    BY <1>3, <1>4

\* In a tree of disjoint proper nodes, two nodes with the same start are
\* the same node: the comparator of the tree is strict on disjoint ranges.
LEMMA SameStartSame ==
  ASSUME NEW S, S \subseteq Seg, AllProper(S), DisjointSet(S),
         NEW g \in S, NEW h \in S, g.start = h.start
  PROVE  g = h
  BY ModFacts DEF AllProper, Proper, DisjointSet, Overlap, Seg, Word

\* The node of least start among those overlapping [s, e] is unique, so the
\* reference's CHOOSE names it whatever node is given.
LEMMA LowestIs ==
  ASSUME NEW S, S \subseteq Seg, AllProper(S), DisjointSet(S),
         NEW s \in Nat, NEW e \in Nat,
         NEW g \in S, Overlap(g, [start |-> s, end |-> e]),
         \A h \in S : Overlap(h, [start |-> s, end |-> e]) => g.start <= h.start
  PROVE  LowestOverlap(S, s, e) = g
  <1> DEFINE ov == {x \in S : Overlap(x, [start |-> s, end |-> e])}
  <1>1. g \in ov /\ \A h \in ov : g.start <= h.start
    OBVIOUS
  <1>2. \A m \in ov : (\A h \in ov : m.start <= h.start) => m = g
    <2> SUFFICES ASSUME NEW m \in ov, \A h \in ov : m.start <= h.start
                 PROVE  m = g
      OBVIOUS
    <2>1. m.start = g.start
      BY <1>1 DEF Seg, Word
    <2>2. QED
      BY <2>1, SameStartSame
  <1>3. QED
    BY <1>1, <1>2 DEF LowestOverlap

\* seg_tree_find_nolock returns the overlapping node with the lowest start
\* in any tree of disjoint proper nodes: a node holding the start byte is
\* the lowest overlap, and otherwise RB_NFIND's next node is.
LEMMA FindCorrect ==
  ASSUME NEW S, S \subseteq Seg, AllProper(S), DisjointSet(S),
         NEW s \in Nat, NEW e \in Nat, s <= e
  PROVE  FindNoLock(S, s, e) = LowestOverlap(S, s, e)
  <1> DEFINE sn    == [start |-> s, end |-> e]
             holds == {g \in S : g.start <= s /\ s <= g.end}
             after == {g \in S : g.start > s}
             ov    == {g \in S : Overlap(g, sn)}
  <1>1. NoSeg \notin Seg
    BY ModFacts DEF NoSeg, Seg, Word
  <1>2. CASE holds # {}
    <2>1. PICK g \in holds : /\ g = CHOOSE x \in holds : TRUE
                             /\ g \in Seg /\ g.start \in Nat /\ g.end \in Nat
      BY <1>2, ModFacts DEF Seg, Word
    <2>2. FindNoLock(S, s, e) = g
      BY <1>1, <1>2, <2>1 DEF FindNoLock
    <2>3. Overlap(g, sn)
      BY <2>1 DEF Overlap
    <2>4. \A h \in S : Overlap(h, sn) => g.start <= h.start
      <3> SUFFICES ASSUME NEW h \in S, Overlap(h, sn), h.start < g.start
                   PROVE  FALSE
        BY <2>1 DEF Seg, Word
      <3>1. h \in Seg /\ h.start \in Nat /\ h.end \in Nat
        BY ModFacts DEF Seg, Word
      <3>2. h # g
        <4>1. h.start # g.start
          BY <2>1, <3>1
        <4>2. QED
          BY <4>1, Zenon
      <3>3. ~Overlap(h, g)
        BY <2>1, <3>2 DEF DisjointSet
      <3>4. QED
        BY <2>1, <3>1, <3>3 DEF Overlap
    <2>5. QED
      BY <2>1, <2>2, <2>3, <2>4, LowestIs
  <1>3. CASE holds = {} /\ after # {}
    <2> DEFINE n == CHOOSE x \in after : \A h \in after : x.start <= h.start
    <2>1. \E m \in after : \A h \in after : m.start <= h.start
      BY <1>3, LeastStartExists
    <2>2. /\ n \in after /\ \A h \in after : n.start <= h.start
          /\ n \in Seg /\ n.start \in Nat /\ n.end \in Nat
      BY <2>1, ModFacts DEF Seg, Word
    <2>3. \A h \in S : Overlap(h, sn) => h \in after
      BY <1>3 DEF Overlap, Seg, Word
    <2>4. FindNoLock(S, s, e) = IF n.start <= e THEN n ELSE NoSeg
      BY <1>1, <1>3, <2>2 DEF FindNoLock
    <2>5. CASE n.start <= e
      <3>1. Overlap(n, sn)
        BY <2>2, <2>5 DEF Overlap, AllProper, Proper, Seg, Word
      <3>2. \A h \in S : Overlap(h, sn) => n.start <= h.start
        BY <2>2, <2>3
      <3>3. QED
        BY <2>2, <2>4, <2>5, <3>1, <3>2, LowestIs
    <2>6. CASE ~(n.start <= e)
      <3>1. ov = {}
        BY <2>2, <2>3, <2>6 DEF Overlap, Seg, Word
      <3>2. QED
        BY <2>4, <2>6, <3>1 DEF LowestOverlap
    <2>7. QED
      BY <2>5, <2>6
  <1>4. CASE holds = {} /\ after = {}
    <2>1. ov = {}
      BY <1>4 DEF Overlap, Seg, Word
    <2>2. FindNoLock(S, s, e) = NoSeg
      BY <1>4 DEF FindNoLock
    <2>3. QED
      BY <2>1, <2>2 DEF LowestOverlap
  <1>5. QED
    BY <1>2, <1>3, <1>4

(***************************************************************************)
(* seg_tree_find_nolock, built on RB_NFIND of the start byte, returns the  *)
(* overlapping node with the lowest start in every reachable state, also   *)
(* in the middle of another thread's seg_tree_add (the tree stays a set of *)
(* disjoint proper nodes after each iteration of its loop).                *)
(***************************************************************************)
THEOREM FindLowest == ASSUME TopFree PROVE Spec => []FindIsLowestOverlap
  <1>1. IInv => FindIsLowestOverlap
    <2> SUFFICES ASSUME IInv, NEW s \in Offsets, NEW e \in Offsets, s <= e
                 PROVE  FindNoLock(segs, s, e) = LowestOverlap(segs, s, e)
      BY DEF FindIsLowestOverlap
    <2>1. Shape
      BY ShapeFromIInv
    <2>2. s \in Nat /\ e \in Nat
      BY ConstAssumption DEF Word
    <2>3. QED
      BY <2>1, <2>2, FindCorrect DEF Shape
  <1>2. QED
    BY <1>1, IInvHolds, PTL

=============================================================================
