-------------------------- MODULE SegTreeRefProofs --------------------------
(***************************************************************************)
(* The segment tree of src/common/src/seg_tree.c implements the byte map   *)
(* of SegMap, when calloc never fails and no caller passes the top offset. *)
(* While seg_tree_add runs, the abstract map is the one it found when it  *)
(* took the lock (AbsMap); its loop is a stutter, and the step at line 210 *)
(* that inserts the new node is the abstract add.  The argument is that   *)
(* the loop gives up only bytes of the new range (AddKeepsOutside): a      *)
(* trimmed piece or a remainder keeps the old node's bytes outside the     *)
(* range, at the same log offsets.                                         *)
(***************************************************************************)
EXTENDS SegTreeMaxProofs

\* Node g holds byte x; the log offset it maps x to.
HoldsByte(g, x) == g.start <= x /\ x <= g.end
ByteOf(g, x) == (g.ptr + (x - g.start)) % Mod

\* In a set of disjoint nodes, the byte map at x is given by the node
\* holding x.
LEMMA BytesAt ==
  ASSUME NEW S, S \subseteq Seg, DisjointSet(S), NEW x \in Word,
         NEW g \in S, HoldsByte(g, x)
  PROVE  TreeBytes(S)[x] = ByteOf(g, x)
  <1>1. {h \in S : h.start <= x /\ x <= h.end} = {g}
    <2>1. ASSUME NEW h \in S, h.start <= x, x <= h.end PROVE h = g
      <3>1. Overlap(h, g)
        BY <2>1 DEF HoldsByte, Overlap, Seg, Word
      <3>2. QED
        BY <3>1 DEF DisjointSet
    <2>2. QED
      BY <2>1 DEF HoldsByte
  <1>2. QED
    BY <1>1 DEF TreeBytes, ByteOf

\* A byte no node holds is a hole.
LEMMA BytesHole ==
  ASSUME NEW S, NEW x \in Word, \A g \in S : ~HoldsByte(g, x)
  PROVE  TreeBytes(S)[x] = Mod
  BY DEF TreeBytes, HoldsByte

\* The remainder of n is the r of any n = q * Mod + r with 0 <= r < Mod.
LEMMA ModUnique ==
  ASSUME NEW n \in Int, NEW q \in Int, NEW r \in 0 .. Mod - 1, n = q * Mod + r
  PROVE  n % Mod = r
  <1>1. /\ n = (n \div Mod) * Mod + (n % Mod)
        /\ n % Mod \in 0 .. Mod - 1 /\ n \div Mod \in Int
    BY ModFacts
  <1>2. PICK d \in Int : d = q - n \div Mod
    BY <1>1
  <1>3. d * Mod = (n % Mod) - r
    BY <1>1, <1>2, ModFacts
  <1>4. d = 0
    <2>1. CASE d >= 1
      <3>1. d * Mod >= Mod
        BY <2>1, ModFacts
      <3>2. QED
        BY <1>1, <1>3, <3>1, ModFacts
    <2>2. CASE d <= -1
      <3>1. d * Mod <= -Mod
        BY <2>2, ModFacts
      <3>2. QED
        BY <1>1, <1>3, <3>1, ModFacts
    <2>3. QED
      BY <2>1, <2>2
  <1>5. QED
    BY <1>3, <1>4, ModFacts

\* Adding a multiple of the modulus does not change a remainder.
LEMMA ModShift ==
  ASSUME NEW k \in Nat, NEW c \in Nat
  PROVE  (k * Mod + c) % Mod = c % Mod
  <1>1. c = (c \div Mod) * Mod + (c % Mod) /\ c % Mod \in 0 .. Mod - 1
        /\ c \div Mod \in Int
    BY ModFacts
  <1>2. k * Mod + c = (k + c \div Mod) * Mod + (c % Mod)
    BY <1>1, ModFacts
  <1>3. /\ k * Mod + c \in Int
        /\ k + c \div Mod \in Int
    BY <1>1, ModFacts
  <1>4. QED
    BY <1>1, <1>2, <1>3, ModUnique

\* Reducing a summand first does not change the remainder of a sum.
LEMMA ModAdd ==
  ASSUME NEW A \in Nat, NEW B \in Nat
  PROVE  ((A % Mod) + B) % Mod = (A + B) % Mod
  <1>1. A = (A \div Mod) * Mod + (A % Mod) /\ A \div Mod \in Nat /\ A % Mod \in Nat
    BY ModFacts
  <1>2. ((A \div Mod) * Mod + ((A % Mod) + B)) % Mod = ((A % Mod) + B) % Mod
    BY <1>1, ModShift
  <1>3. (A \div Mod) * Mod + ((A % Mod) + B) = A + B
    BY <1>1, ModFacts
  <1>4. QED
    BY <1>2, <1>3

\* A piece of o starting at a maps every byte from a on where o did:
\* seg_tree_node_alloc moves the pointer with the start (line 186).
LEMMA PieceByte ==
  ASSUME NEW o \in Seg, NEW a \in Word, NEW b \in Word, NEW x \in Word,
         o.start <= a, a <= x
  PROVE  ByteOf(Piece(o, a, b), x) = ByteOf(o, x)
  <1>1. /\ o.ptr + (a - o.start) \in Nat /\ x - a \in Nat
        /\ (o.ptr + (a - o.start)) + (x - a) = o.ptr + (x - o.start)
    BY DEF Seg, Word
  <1>2. (((o.ptr + (a - o.start)) % Mod) + (x - a)) % Mod = (o.ptr + (x - o.start)) % Mod
    BY <1>1, ModAdd
  <1>3. QED
    BY <1>2 DEF ByteOf, Piece
\* A node the loop drops lies wholly inside the new range.
LEMMA FullWithin ==
  ASSUME NEW o \in Seg, NEW n \in Seg, Trim(o, n).full
  PROVE  n.start <= o.start /\ o.end <= n.end
  BY DEF Trim, NonOverlapping

\* The pieces seg_tree_add puts back for o, lines 186 and 198, lie in o.
LEMMA PiecesInside ==
  ASSUME NEW o \in Seg, NEW n \in Seg, Proper(o), Proper(n), Overlap(o, n),
         ~Trim(o, n).full
  PROVE  /\ Resized(o, n) \in Seg
         /\ o.start <= Resized(o, n).start /\ Resized(o, n).end <= o.end
         /\ HasRest(o, n) =>
              /\ Remaining(o, n) \in Seg
              /\ o.start <= Remaining(o, n).start
              /\ Remaining(o, n).end = o.end
  <1>1. /\ Trim(o, n).ns \in Word /\ Trim(o, n).ne \in Word
        /\ o.start <= Trim(o, n).ns /\ Trim(o, n).ns <= Trim(o, n).ne
        /\ Trim(o, n).ne <= o.end
    BY TrimFacts DEF Trim
  <1>2. /\ Resized(o, n) \in Seg
        /\ Resized(o, n).start = Trim(o, n).ns /\ Resized(o, n).end = Trim(o, n).ne
    BY <1>1, PieceType DEF Resized
  <1>3. ASSUME HasRest(o, n)
        PROVE  /\ Remaining(o, n) \in Seg
               /\ o.start <= Remaining(o, n).start
               /\ Remaining(o, n).end = o.end
    <2>1. RestStart(o, n) \in Word /\ o.start <= RestStart(o, n)
      BY <1>2, <1>3, ModFacts DEF HasRest, RestStart, Seg, Word
    <2>2. QED
      BY <2>1, PieceType DEF Remaining, Seg
  <1>4. QED
    BY <1>1, <1>2, <1>3

\* A byte of o outside the new range is held, after the pass of the loop
\* that trims o, by the piece resized or by the remainder: lines 166-167
\* cut from o exactly the bytes of the new range that o holds.
LEMMA TrimCover ==
  ASSUME NEW o \in Seg, NEW n \in Seg, Proper(o), Proper(n), Overlap(o, n),
         ~Trim(o, n).full, NEW x \in Word, HoldsByte(o, x),
         x < n.start \/ n.end < x
  PROVE  \/ HoldsByte(Resized(o, n), x)
         \/ HasRest(o, n) /\ HoldsByte(Remaining(o, n), x)
  <1>0. Trim(o, n).ns \in Word /\ Trim(o, n).ne \in Word
    BY TrimFacts DEF Trim
  <1>1. /\ Trim(o, n).ns \in Word /\ Trim(o, n).ne \in Word
        /\ Resized(o, n).start = Trim(o, n).ns /\ Resized(o, n).end = Trim(o, n).ne
    <2>1. Resized(o, n) = Piece(o, Trim(o, n).ns, Trim(o, n).ne)
      BY DEF Resized
    <2>2. /\ Piece(o, Trim(o, n).ns, Trim(o, n).ne).start = Trim(o, n).ns
          /\ Piece(o, Trim(o, n).ns, Trim(o, n).ne).end = Trim(o, n).ne
      BY <1>0, PieceType
    <2>3. QED
      BY <1>0, <2>1, <2>2
  <1>2. /\ (n.start - 1) % Mod = n.start - 1 \/ n.start = 0
        /\ (n.end + 1) % Mod = n.end + 1
    BY ModFacts DEF Proper, Seg, Word
  <1>3. CASE o.start < n.start
    <2>1. /\ Trim(o, n).ns = o.start
          /\ Trim(o, n).ne = IF o.end < n.start - 1 THEN o.end ELSE n.start - 1
      BY <1>2, <1>3, ModFacts DEF Trim, NonOverlapping, Seg, Word
    <2>2. CASE x < n.start
      BY <1>1, <2>1, <2>2 DEF HoldsByte, Seg, Word
    <2>3. CASE n.end < x
      <3>1. Resized(o, n).end = n.start - 1
        BY <1>1, <2>1, <2>3 DEF HoldsByte, Proper, Seg, Word
      <3>2. RestStart(o, n) = n.start
        BY <3>1, <1>3, ModFacts DEF RestStart, Seg, Word
      <3>3. HasRest(o, n)
        BY <3>2, <1>3, <2>3 DEF HasRest, HoldsByte, Proper, Seg, Word
      <3>4. Remaining(o, n).start = n.start /\ Remaining(o, n).end = o.end
        BY <3>2, PieceType DEF Remaining, Seg
      <3>5. QED
        BY <3>3, <3>4, <2>3 DEF HoldsByte, Proper, Seg, Word
    <2>4. QED
      BY <2>2, <2>3
  <1>4. CASE o.start > n.start /\ o.end > n.end
    <2>1. /\ Trim(o, n).ne = o.end
          /\ Trim(o, n).ns = IF o.start > n.end + 1 THEN o.start ELSE n.end + 1
      BY <1>2, <1>4, ModFacts DEF Trim, NonOverlapping, Seg, Word
    <2>2. QED
      BY <1>1, <1>4, <2>1 DEF HoldsByte, Seg, Word
  <1>5. CASE o.start = n.start /\ o.end > n.end
    <2>1. Trim(o, n).ne = o.end /\ Trim(o, n).ns = n.end + 1
      BY <1>2, <1>5, ModFacts DEF Trim, NonOverlapping, Seg, Word
    <2>2. QED
      BY <1>1, <1>5, <2>1 DEF HoldsByte, Seg, Word
  <1>6. QED
    <2>1. ~(o.start >= n.start /\ o.end <= n.end)
      BY DEF Trim, NonOverlapping
    <2>2. QED
      BY <2>1, <1>3, <1>4, <1>5 DEF Seg, Word
\* A piece of o holds only bytes of o, each mapped as o mapped it.
LEMMA PieceOf ==
  ASSUME NEW o \in Seg, NEW a \in Word, NEW b \in Word, o.start <= a, b <= o.end,
         NEW x \in Word, HoldsByte(Piece(o, a, b), x)
  PROVE  HoldsByte(o, x) /\ ByteOf(Piece(o, a, b), x) = ByteOf(o, x)
  <1>1. Piece(o, a, b).start = a /\ Piece(o, a, b).end = b
    BY PieceType
  <1>2. a <= x /\ x <= b
    BY <1>1 DEF HoldsByte
  <1>3. HoldsByte(o, x)
    BY <1>2 DEF HoldsByte, Seg, Word
  <1>4. QED
    BY <1>2, <1>3, PieceByte

\* The tree after one pass of seg_tree_add's loop over the overlapping
\* node o: dropped (lines 168-172), trimmed (186-190) or split (186-207).
LoopStep(S, o, n, T) ==
  \/ Trim(o, n).full /\ T = S \ {o}
  \/ ~Trim(o, n).full /\ ~HasRest(o, n) /\ T = Kept(S, o, n)
  \/ ~Trim(o, n).full /\ HasRest(o, n) /\ T = Split(S, o, n)

\* g is a node seg_tree_node_alloc made from a part of o.
IsPiece(g, o) == \E a, b \in Word : o.start <= a /\ b <= o.end /\ g = Piece(o, a, b)

\* resized, and the remainder when there is one, are pieces of o.
LEMMA TrimPieces ==
  ASSUME NEW o \in Seg, NEW n \in Seg, Proper(o), Proper(n), Overlap(o, n),
         ~Trim(o, n).full
  PROVE  /\ IsPiece(Resized(o, n), o)
         /\ HasRest(o, n) => IsPiece(Remaining(o, n), o)
  <1>1. /\ Trim(o, n).ns \in Word /\ Trim(o, n).ne \in Word
        /\ o.start <= Trim(o, n).ns /\ Trim(o, n).ne <= o.end
    BY TrimFacts DEF Trim
  <1>2. IsPiece(Resized(o, n), o)
    BY <1>1 DEF IsPiece, Resized
  <1>3. ASSUME HasRest(o, n) PROVE IsPiece(Remaining(o, n), o)
    <2>1. Resized(o, n) \in Seg
      BY PiecesInside
    <2>2. RestStart(o, n) \in Word /\ o.start <= RestStart(o, n)
      BY <1>3, <2>1, ModFacts DEF HasRest, RestStart, Seg, Word
    <2>3. o.end \in Word /\ o.end <= o.end
      BY DEF Seg, Word
    <2>4. Remaining(o, n) = Piece(o, RestStart(o, n), o.end)
      BY DEF Remaining
    <2>5. QED
      BY <2>2, <2>3, <2>4, Zenon DEF IsPiece
  <1>4. QED
    BY <1>2, <1>3

\* One pass of the loop keeps the tree's nodes disjoint, keeps every node
\* but o, and what it adds are pieces of o: resized always, and the
\* remainder when there is one.
LEMMA LoopShape ==
  ASSUME NEW S, S \subseteq Seg, IsFiniteSet(S), AllProper(S), DisjointSet(S),
         NEW n \in Seg, Proper(n), NEW o \in S, Overlap(o, n),
         NEW T, LoopStep(S, o, n, T)
  PROVE  /\ T \subseteq Seg /\ DisjointSet(T) /\ S \ {o} \subseteq T
         /\ \A g \in T \ (S \ {o}) : IsPiece(g, o)
         /\ ~Trim(o, n).full => Resized(o, n) \in T
         /\ ~Trim(o, n).full /\ HasRest(o, n) => Remaining(o, n) \in T
  <1>0. Proper(o)
    BY DEF AllProper
  <1>1. CASE Trim(o, n).full /\ T = S \ {o}
    BY <1>1, RemoveKeeps
  <1>2. CASE ~Trim(o, n).full /\ ~HasRest(o, n) /\ T = Kept(S, o, n)
    <2>1. Kept(S, o, n) \subseteq Seg /\ DisjointSet(Kept(S, o, n))
      BY <1>0, <1>2, PiecesFit
    <2>2. IsPiece(Resized(o, n), o)
      BY <1>0, <1>2, TrimPieces
    <2>3. QED
      BY <1>2, <2>1, <2>2 DEF Kept
  <1>3. CASE ~Trim(o, n).full /\ HasRest(o, n) /\ T = Split(S, o, n)
    <2>1. /\ Kept(S, o, n) \subseteq Seg /\ Remaining(o, n) \in Seg
          /\ DisjointSet(Split(S, o, n))
      BY <1>0, <1>3, PiecesFit
    <2>2. IsPiece(Resized(o, n), o) /\ IsPiece(Remaining(o, n), o)
      BY <1>0, <1>3, TrimPieces
    <2>3. QED
      BY <1>3, <2>1, <2>2 DEF Split, Kept
  <1>4. QED
    BY <1>1, <1>2, <1>3 DEF LoopStep
\* One pass of seg_tree_add's loop leaves every byte outside the new range
\* mapped where it was: a byte of another node stays in that node, a byte
\* of o stays in a piece of o at the same log offset (TrimCover, PieceOf),
\* and a hole stays a hole, as the pieces hold only bytes of o.
LEMMA LoopKeepsOutside ==
  ASSUME NEW S, S \subseteq Seg, IsFiniteSet(S), AllProper(S), DisjointSet(S),
         NEW n \in Seg, Proper(n), NEW o \in S, Overlap(o, n),
         NEW T, LoopStep(S, o, n, T),
         NEW x \in Word, x < n.start \/ n.end < x
  PROVE  TreeBytes(T)[x] = TreeBytes(S)[x]
  <1>1. /\ T \subseteq Seg /\ DisjointSet(T) /\ S \ {o} \subseteq T
        /\ \A g \in T \ (S \ {o}) : IsPiece(g, o)
        /\ ~Trim(o, n).full => Resized(o, n) \in T
        /\ ~Trim(o, n).full /\ HasRest(o, n) => Remaining(o, n) \in T
    BY LoopShape
  <1>2. ASSUME NEW g \in T, HoldsByte(g, x), g \notin S \ {o}
        PROVE  HoldsByte(o, x) /\ ByteOf(g, x) = ByteOf(o, x)
    <2>1. PICK a \in Word, b \in Word : o.start <= a /\ b <= o.end /\ g = Piece(o, a, b)
      BY <1>1, <1>2 DEF IsPiece
    <2>2. QED
      BY <1>2, <2>1, PieceOf
  <1>3. CASE \E g \in S \ {o} : HoldsByte(g, x)
    <2>1. PICK g \in S \ {o} : HoldsByte(g, x)
      BY <1>3
    <2>2. TreeBytes(T)[x] = ByteOf(g, x)
      BY <1>1, <2>1, BytesAt
    <2>3. TreeBytes(S)[x] = ByteOf(g, x)
      BY <2>1, BytesAt
    <2>4. QED
      BY <2>2, <2>3
  <1>4. CASE HoldsByte(o, x)
    <2>1. ~Trim(o, n).full
      <3>1. SUFFICES ASSUME Trim(o, n).full PROVE FALSE
        OBVIOUS
      <3>2. n.start <= o.start /\ o.end <= n.end
        BY <3>1, FullWithin
      <3>3. QED
        BY <1>4, <3>2 DEF HoldsByte, Seg, Word
    <2>2. Proper(o)
      BY DEF AllProper
    <2>3. PICK p \in T : HoldsByte(p, x) /\ p \notin S \ {o}
      <3>1. \/ HoldsByte(Resized(o, n), x)
            \/ HasRest(o, n) /\ HoldsByte(Remaining(o, n), x)
        BY <1>4, <2>1, <2>2, TrimCover
      <3>2. ASSUME NEW g \in S \ {o}, HoldsByte(g, x) PROVE FALSE
        <4>1. Overlap(g, o)
          BY <1>4, <3>2 DEF HoldsByte, Overlap, Seg, Word
        <4>2. QED
          BY <3>2, <4>1 DEF DisjointSet
      <3>3. CASE HoldsByte(Resized(o, n), x)
        BY <1>1, <2>1, <3>2, <3>3
      <3>4. CASE HasRest(o, n) /\ HoldsByte(Remaining(o, n), x)
        BY <1>1, <2>1, <3>2, <3>4
      <3>5. QED
        BY <3>1, <3>3, <3>4
    <2>4. TreeBytes(T)[x] = ByteOf(p, x)
      BY <1>1, <2>3, BytesAt
    <2>5. ByteOf(p, x) = ByteOf(o, x)
      BY <1>2, <2>3
    <2>6. TreeBytes(S)[x] = ByteOf(o, x)
      BY <1>4, BytesAt
    <2>7. QED
      BY <2>4, <2>5, <2>6
  <1>5. CASE ~\E g \in S : HoldsByte(g, x)
    <2>1. \A g \in T : ~HoldsByte(g, x)
      BY <1>1, <1>2, <1>5
    <2>2. QED
      BY <1>5, <2>1, BytesHole
  <1>6. QED
    BY <1>3, <1>4, <1>5
-----------------------------------------------------------------------------
(* AddKeepsOutside is inductive together with IInv and MaxInv.            *)

\* A pass of seg_tree_add's loop when calloc never fails is a LoopStep.
LEMMA OverlapIsLoop ==
  ASSUME IInv, ~MayFailAlloc, NEW t \in Threads, AddOverlap(t)
  PROVE  /\ pc[t] = "add" /\ node[t] \in Seg /\ Proper(node[t]) /\ Shape
         /\ \E o \in segs : Overlap(o, node[t]) /\ LoopStep(segs, o, node[t], segs')
         /\ UNCHANGED <<snapshot, pc, node>>
  <1> DEFINE n == node[t]
  <1>1. pc[t] = "add" /\ n \in Seg /\ Proper(n) /\ Shape
    BY ShapeFromIInv DEF AddOverlap, IInv, AddingWellFormed, Proper
  <1>2. PICK o \in segs : /\ Overlap(o, n)
                          /\ AddDrop(t, o) \/ AddTrim(t, o) \/ AddSplit(t, o)
    BY DEF AddOverlap, AddTrimNoMem, AddRestNoMem
  <1>3. LoopStep(segs, o, n, segs')
    <2>1. CASE AddDrop(t, o)
      BY <2>1 DEF AddDrop, LoopStep
    <2>2. CASE AddTrim(t, o) \/ AddSplit(t, o)
      <3>1. ~Trim(o, n).full
        BY <2>2 DEF AddTrim, AddSplit
      <3>2. /\ RBInsert(segs \ {o}, Resized(o, n)) = Kept(segs, o, n)
            /\ HasRest(o, n) =>
                 RBInsert(Kept(segs, o, n), Remaining(o, n)) = Split(segs, o, n)
        BY <1>1, <1>2, <3>1, PiecesFit DEF Shape
      <3>3. QED
        BY <2>2, <3>1, <3>2 DEF AddTrim, AddSplit, LoopStep
    <2>3. QED
      BY <1>2, <2>1, <2>2
  <1>4. UNCHANGED <<snapshot, pc, node>>
    BY <1>2 DEF AddDrop, AddTrim, AddSplit
  <1>5. QED
    BY <1>1, <1>2, <1>3, <1>4

\* The loop of the lock holder keeps every byte outside its range.
LEMMA KeepOverlap ==
  ASSUME IInv, MaxInv, AddKeepsOutside, ~MayFailAlloc, NEW t \in Threads, AddOverlap(t)
  PROVE  AddKeepsOutside'
  <1> DEFINE n == node[t]
  <1>1. /\ pc[t] = "add" /\ n \in Seg /\ Proper(n) /\ Shape
        /\ \E o \in segs : Overlap(o, n) /\ LoopStep(segs, o, n, segs')
        /\ UNCHANGED <<snapshot, pc, node>>
    BY OverlapIsLoop
  <1>2. PICK o \in segs : Overlap(o, n) /\ LoopStep(segs, o, n, segs')
    BY <1>1
  <1>3. SUFFICES ASSUME NEW u \in Threads, pc'[u] = "add",
                        NEW x \in Word, x < node'[u].start \/ node'[u].end < x
                 PROVE  TreeBytes(segs')[x] = snapshot'[x]
    BY DEF AddKeepsOutside
  <1>4. u = t
    BY <1>1, <1>3 DEF MaxInv
  <1>5. x < n.start \/ n.end < x
    BY <1>1, <1>3, <1>4
  <1>6. TreeBytes(segs')[x] = TreeBytes(segs)[x]
    BY <1>1, <1>2, <1>5, LoopKeepsOutside DEF Shape
  <1>7. TreeBytes(segs)[x] = snapshot[x]
    BY <1>1, <1>4, <1>5 DEF AddKeepsOutside
  <1>8. QED
    BY <1>1, <1>6, <1>7

\* seg_tree_add takes the lock and records the map it finds.
LEMMA KeepBegin ==
  ASSUME NEW t \in Threads, NEW s, NEW e, NEW p, AddBegin(t, s, e, p)
  PROVE  AddKeepsOutside'
  BY DEF AddBegin, AddKeepsOutside

\* Steps after which no thread is inside seg_tree_add.
LEMMA KeepNoAdd ==
  ASSUME NoAdd'
  PROVE  AddKeepsOutside'
  BY DEF NoAdd, AddKeepsOutside

\* Steps that leave the nodes, the history and the running add alone.
LEMMA KeepQuiet ==
  ASSUME AddKeepsOutside, UNCHANGED <<segs, snapshot, node>>,
         \A u \in Threads : pc'[u] = "add" <=> pc[u] = "add"
  PROVE  AddKeepsOutside'
  BY DEF AddKeepsOutside
\* After seg_tree_add returns 0, no thread is inside it: only the lock
\* holder ever was.
LEMMA DoneNoAdd ==
  ASSUME TypeOK, MaxInv, NEW t \in Threads, AddDone(t)
  PROVE  NoAdd'
  <1>1. \A u \in Threads : pc[u] = "add" => u = t
    BY DEF AddDone, MaxInv
  <1>2. QED
    BY <1>1 DEF AddDone, NoAdd, TypeOK

\* seg_tree_clear runs with the tree unlocked, so no add is running.
LEMMA ClearNoAdd ==
  ASSUME TypeOK, MaxInv, NEW t \in Threads, Clear(t)
  PROVE  NoAdd /\ NoAdd'
  BY ConstAssumption DEF Clear, LockFree, MaxInv, NoAdd

\* AddKeepsOutside is preserved by every step when calloc never fails.
THEOREM KeepStep ==
  ASSUME TopFree, ~MayFailAlloc
  PROVE  IInv /\ MaxInv /\ AddKeepsOutside /\ [Next]_vars => AddKeepsOutside'
  <1> SUFFICES ASSUME IInv, MaxInv, AddKeepsOutside, [Next]_vars
               PROVE  AddKeepsOutside'
    OBVIOUS
  <1>0. TypeOK
    BY DEF IInv
  <1>1. CASE UNCHANGED vars
    <2>1. UNCHANGED <<segs, snapshot, node, pc>>
      BY <1>1 DEF vars
    <2>2. QED
      BY <2>1, KeepQuiet
  <1>2. ASSUME NEW t \in Threads, AddNoMem(t) PROVE AddKeepsOutside'
    BY <1>2 DEF AddNoMem
  <1>3. ASSUME NEW t \in Threads, NEW s \in Offsets, NEW e \in Offsets,
               NEW p \in Ptrs, s <= e, AddBegin(t, s, e, p)
        PROVE  AddKeepsOutside'
    BY <1>3, KeepBegin
  <1>4. ASSUME NEW t \in Threads, AddOverlap(t) PROVE AddKeepsOutside'
    BY <1>4, KeepOverlap
  <1>5. ASSUME NEW t \in Threads, AddDone(t) PROVE AddKeepsOutside'
    BY <1>0, <1>5, DoneNoAdd, KeepNoAdd
  <1>6. ASSUME NEW t \in Threads, Clear(t) PROVE AddKeepsOutside'
    BY <1>0, <1>6, ClearNoAdd, KeepNoAdd
  <1>7. ASSUME NEW t \in Threads, RdLock(t) \/ RdUnlock(t) PROVE AddKeepsOutside'
    <2>1. pc[t] # "add"
      BY <1>7 DEF RdLock, RdUnlock
    <2>2. \A u \in Threads : pc'[u] = "add" <=> pc[u] = "add"
      BY <1>0, <1>7, <2>1, AddersFixed DEF RdLock, RdUnlock
    <2>3. QED
      BY <1>7, <2>2, KeepQuiet DEF RdLock, RdUnlock
  <1>8. ASSUME NEW t \in Threads, NEW s \in Offsets, NEW e \in Offsets, Find(t, s, e)
        PROVE  AddKeepsOutside'
    BY <1>8, KeepQuiet DEF Find
  <1>9. QED
    BY <1>1, <1>2, <1>3, <1>4, <1>5, <1>6, <1>7, <1>8 DEF Next

(***************************************************************************)
(* While a seg_tree_add runs, every byte outside its range maps where it  *)
(* did when the add took the write lock, for every width and number of    *)
(* threads, when calloc never fails and no caller passes the top offset:  *)
(* the trims and splits of its loop give up only bytes of the new range, *)
(* and a trimmed piece's pointer moves with its start.                     *)
(***************************************************************************)
THEOREM OutsideKept ==
  ASSUME TopFree, ~MayFailAlloc
  PROVE  Spec => [](IInv /\ MaxInv /\ AddKeepsOutside)
  <1>1. Init => AddKeepsOutside
    BY DEF Init, AddKeepsOutside
  <1>2. IInv /\ MaxInv /\ AddKeepsOutside /\ [Next]_vars => AddKeepsOutside'
    BY KeepStep
  <1>3. QED
    <2>1. Init => IInv /\ MaxInv /\ AddKeepsOutside
      BY <1>1, IInvInit DEF Init, MaxInv, AddMax
    <2>2. IInv /\ MaxInv /\ AddKeepsOutside /\ [Next]_vars
            => (IInv /\ MaxInv /\ AddKeepsOutside)'
      BY <1>2, IInvStep, MaxInvStep
    <2>3. QED
      BY <2>1, <2>2, PTL DEF Spec
-----------------------------------------------------------------------------
(* The refinement of SegMap.                                               *)

\* The abstract map outside and inside an add.
LEMMA AbsIdle ==
  ASSUME NoAdd PROVE AbsMap = TreeBytes(segs)
  BY DEF NoAdd, AbsMap

LEMMA AbsAdding ==
  ASSUME NEW t \in Threads, pc[t] = "add" PROVE AbsMap = snapshot
  BY DEF AbsMap

\* The bytes of the tree seg_tree_add leaves at line 210: the new node's
\* range maps to its affine pointers, every other byte to what the
\* snapshot held, when the tree kept the bytes outside the range.
LEMMA DoneMap ==
  ASSUME NEW S, S \subseteq Seg, IsFiniteSet(S), AllProper(S), DisjointSet(S),
         NEW n, Proper(n), \A g \in S : ~Overlap(g, n),
         NEW snap,
         \A x \in Word : x < n.start \/ n.end < x => TreeBytes(S)[x] = snap[x]
  PROVE  TreeBytes(S \cup {n})
           = [x \in Word |-> IF n.start <= x /\ x <= n.end
                               THEN (n.ptr + (x - n.start)) % Mod
                               ELSE snap[x]]
  <1>1. n \in Seg /\ \A g \in S : ~Overlap(g, n) /\ ~Overlap(n, g)
    BY DEF Proper, Overlap, Seg, Word
  <1>2. S \cup {n} \subseteq Seg /\ DisjointSet(S \cup {n})
    BY <1>1, InsertKeeps
  <1>3. ASSUME NEW x \in Word, n.start <= x, x <= n.end
        PROVE  TreeBytes(S \cup {n})[x] = (n.ptr + (x - n.start)) % Mod
    BY <1>2, <1>3, BytesAt DEF HoldsByte, ByteOf
  <1>4. ASSUME NEW x \in Word, ~(n.start <= x /\ x <= n.end)
        PROVE  TreeBytes(S \cup {n})[x] = snap[x]
    <2>1. x < n.start \/ n.end < x
      BY <1>1, <1>4 DEF Seg, Word
    <2>2. CASE \E g \in S : HoldsByte(g, x)
      <3>1. PICK g \in S : HoldsByte(g, x)
        BY <2>2
      <3>2. TreeBytes(S \cup {n})[x] = ByteOf(g, x) /\ TreeBytes(S)[x] = ByteOf(g, x)
        BY <1>2, <3>1, BytesAt
      <3>3. QED
        BY <2>1, <3>2
    <2>3. CASE ~\E g \in S : HoldsByte(g, x)
      <3>1. \A g \in S \cup {n} : ~HoldsByte(g, x)
        BY <1>4, <2>3 DEF HoldsByte
      <3>2. TreeBytes(S \cup {n})[x] = Mod /\ TreeBytes(S)[x] = Mod
        BY <2>3, <3>1, BytesHole
      <3>3. QED
        BY <2>1, <3>2
    <2>4. QED
      BY <2>2, <2>3
  <1>5. QED
    <2>1. TreeBytes(S \cup {n}) = [x \in Word |-> TreeBytes(S \cup {n})[x]]
      BY DEF TreeBytes
    <2>2. QED
      BY <1>3, <1>4, <2>1
\* seg_tree_add's return, lines 210-217, is add(start, end, ptr) of SegMap.
LEMMA RefDone ==
  ASSUME IInv, MaxInv, AddKeepsOutside, NEW t \in Threads, AddDone(t)
  PROVE  Abs!Next
  <1> DEFINE n == node[t]
  <1>1. /\ pc[t] = "add" /\ n \in Seg /\ Proper(n) /\ Shape
        /\ \A g \in segs : ~Overlap(g, n)
    BY ShapeFromIInv DEF AddDone, IInv, AddingWellFormed, Proper
  <1>2. AbsMap = snapshot
    BY <1>1, AbsAdding
  <1>3. AbsMap' = TreeBytes(segs \cup {n})
    <2>1. NoAdd'
      BY DoneNoAdd DEF IInv
    <2>2. QED
      BY <2>1 DEF AddDone, NoAdd, AbsMap
  <1>4. \A x \in Word : x < n.start \/ n.end < x => TreeBytes(segs)[x] = snapshot[x]
    BY <1>1 DEF AddKeepsOutside
  <1>5. TreeBytes(segs \cup {n})
          = [x \in Word |-> IF n.start <= x /\ x <= n.end
                              THEN (n.ptr + (x - n.start)) % Mod
                              ELSE snapshot[x]]
    BY <1>1, <1>4, DoneMap DEF Shape
  <1>6. n.start \in Word /\ n.end \in Word /\ n.ptr \in Word /\ n.start <= n.end
    BY <1>1 DEF Proper, Seg
  <1>7. Abs!Add(n.start, n.end, n.ptr)
    BY <1>2, <1>3, <1>5 DEF Abs!Add, Abs!Word, Abs!Mod, Mod, Word
  <1>8. QED
    BY <1>6, <1>7 DEF Abs!Next, Abs!Word, Abs!Mod, Word, Mod

\* seg_tree_clear, lines 339-368, is clear() of SegMap.
LEMMA RefClear ==
  ASSUME TypeOK, MaxInv, NEW t \in Threads, Clear(t)
  PROVE  Abs!Next
  <1>1. NoAdd'
    BY ClearNoAdd
  <1>2. AbsMap' = TreeBytes({})
    BY <1>1 DEF Clear, NoAdd, AbsMap
  <1>3. TreeBytes({}) = [x \in Word |-> Mod]
    BY DEF TreeBytes
  <1>4. QED
    BY <1>2, <1>3 DEF Abs!Next, Abs!Clear, Abs!Word, Abs!Mod, Word, Mod

\* The empty tree of seg_tree_init maps every byte to a hole.
LEMMA RefInit == Init => Abs!Init
  <1> SUFFICES ASSUME Init PROVE Abs!Init
    OBVIOUS
  <1>1. NoAdd
    BY DEF Init, NoAdd
  <1>2. AbsMap = TreeBytes({})
    BY <1>1, AbsIdle DEF Init
  <1>3. TreeBytes({}) = [x \in Word |-> Mod]
    BY DEF TreeBytes
  <1>4. QED
    BY <1>2, <1>3 DEF Abs!Init, Abs!Word, Abs!Mod, Word, Mod

\* Every step of the tree is a step of SegMap or leaves its map alone.
THEOREM RefStep ==
  ASSUME TopFree, ~MayFailAlloc
  PROVE  IInv /\ MaxInv /\ AddKeepsOutside /\ [Next]_vars => [Abs!Next]_AbsMap
  <1> SUFFICES ASSUME IInv, MaxInv, AddKeepsOutside, [Next]_vars
               PROVE  [Abs!Next]_AbsMap
    OBVIOUS
  <1>0. TypeOK
    BY DEF IInv
  <1>1. CASE UNCHANGED vars
    BY <1>1 DEF vars, AbsMap
  <1>2. ASSUME NEW t \in Threads, AddNoMem(t) PROVE [Abs!Next]_AbsMap
    BY <1>2 DEF AddNoMem
  <1>3. ASSUME NEW t \in Threads, NEW s \in Offsets, NEW e \in Offsets,
               NEW p \in Ptrs, s <= e, AddBegin(t, s, e, p)
        PROVE  UNCHANGED AbsMap
    <2>1. NoAdd
      BY <1>3, ConstAssumption DEF AddBegin, LockFree, MaxInv, NoAdd
    <2>2. AbsMap = TreeBytes(segs)
      BY <2>1, AbsIdle
    <2>3. pc'[t] = "add"
      BY <1>0, <1>3 DEF AddBegin, TypeOK
    <2>4. AbsMap' = TreeBytes(segs)
      BY <1>3, <2>3 DEF AddBegin, AbsMap
    <2>5. QED
      BY <2>2, <2>4
  <1>4. ASSUME NEW t \in Threads, AddOverlap(t) PROVE UNCHANGED AbsMap
    <2>1. pc[t] = "add" /\ UNCHANGED <<snapshot, pc>>
      BY <1>4, OverlapIsLoop
    <2>2. QED
      BY <2>1 DEF AbsMap
  <1>5. ASSUME NEW t \in Threads, AddDone(t) PROVE [Abs!Next]_AbsMap
    BY <1>5, RefDone
  <1>6. ASSUME NEW t \in Threads, Clear(t) PROVE [Abs!Next]_AbsMap
    BY <1>0, <1>6, RefClear
  <1>7. ASSUME NEW t \in Threads, RdLock(t) \/ RdUnlock(t) PROVE UNCHANGED AbsMap
    <2>1. pc[t] # "add"
      BY <1>7 DEF RdLock, RdUnlock
    <2>2. \A u \in Threads : pc'[u] = "add" <=> pc[u] = "add"
      BY <1>0, <1>7, <2>1, AddersFixed DEF RdLock, RdUnlock
    <2>3. QED
      BY <1>7, <2>2 DEF RdLock, RdUnlock, AbsMap
  <1>8. ASSUME NEW t \in Threads, NEW s \in Offsets, NEW e \in Offsets, Find(t, s, e)
        PROVE  UNCHANGED AbsMap
    BY <1>8 DEF Find, AbsMap
  <1>9. QED
    BY <1>1, <1>2, <1>3, <1>4, <1>5, <1>6, <1>7, <1>8 DEF Next

(***************************************************************************)
(* The segment tree implements SegMap, for every width and number of      *)
(* threads, when calloc never fails and no caller passes the top offset:  *)
(* seg_tree_add overwrites exactly its range with the affine pointers and *)
(* keeps every other byte, seg_tree_clear forgets every byte, and finds   *)
(* and iterations change nothing.  With calloc failing the refinement    *)
(* does not hold (the segtree_partial_add run shows the map a failed add *)
(* leaves), so the assumption is needed.                                   *)
(***************************************************************************)
THEOREM SegTreeRefines ==
  ASSUME TopFree, ~MayFailAlloc
  PROVE  Spec => SegMapSpec
  <1>1. Init => Abs!Init
    BY RefInit
  <1>2. IInv /\ MaxInv /\ AddKeepsOutside /\ [Next]_vars => [Abs!Next]_AbsMap
    BY RefStep
  <1>3. Spec => [](IInv /\ MaxInv /\ AddKeepsOutside)
    BY OutsideKept
  <1>4. QED
    BY <1>1, <1>2, <1>3, PTL DEF Spec, SegMapSpec, Abs!Spec
=============================================================================
