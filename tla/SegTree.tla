------------------------------- MODULE SegTree ------------------------------
(***************************************************************************)
(* The thread-safe segment tree of src/common/src/seg_tree.c, shared by   *)
(* the threads of one process.                                             *)
(*                                                                         *)
(* The red-black tree is the set `segs' of its nodes: RB_INSERT refuses a *)
(* node that compares equal (overlaps) to one already there and returns   *)
(* that one, so which overlapping node the loop of seg_tree_add meets     *)
(* first depends on the tree's shape, and is a free choice here.          *)
(* The rwlock is `writer' and `readers'.  seg_tree_add holds the write    *)
(* lock across its whole loop, and the loop is modelled one iteration per *)
(* step, so that an allocation failure in the middle of it is visible.    *)
(* All arithmetic on start, end and ptr is unsigned long: modulo 2^W.     *)
(***************************************************************************)
EXTENDS Naturals, FiniteSets

CONSTANTS
  W,            \* bit width of unsigned long in the model
  Threads,      \* threads of the process sharing the tree
  NoThread,     \* no thread holds the write lock
  Offsets,      \* start/end offsets callers pass to add and find
  Ptrs,         \* log offsets callers pass to add
  MayFailAlloc, \* whether calloc may return NULL
  MaxCalls      \* bound on the number of add calls in a behaviour

\* The second conjunct follows from the first; it is stated because the
\* provers know no law of exponentiation.
ASSUME WAssumption == W \in Nat \ {0} /\ 2 ^ W \in Nat \ {0, 1}

Mod == 2 ^ W
Word == 0 .. (Mod - 1)

ASSUME ConstAssumption ==
  /\ NoThread \notin Threads
  /\ Offsets \subseteq Word
  /\ Ptrs \subseteq Word
  /\ MayFailAlloc \in BOOLEAN
  /\ MaxCalls \in Nat

\* struct seg_tree_node: an interval [start, end] and the log offset of start.
Seg == [start : Word, end : Word, ptr : Word]
NoSeg == [start |-> 0, end |-> 0, ptr |-> Mod]   \* NULL: not a Seg
ENOMEM == 12

VARIABLES
  segs,      \* the nodes of seg_tree->head
  count,     \* seg_tree->count
  max,       \* seg_tree->max
  writer,    \* thread holding the write lock, or NoThread
  readers,   \* threads holding the read lock
  pc,        \* "idle", "add" (inside the while loop of seg_tree_add), "read"
  node,      \* the range a thread in seg_tree_add is inserting
  rc,        \* return code of the thread's last seg_tree_add: 0 or ENOMEM
  found,     \* node returned by its last seg_tree_find_nolock, or NoSeg
  crashed,   \* the process died on a NULL dereference
  calls,     \* number of add calls so far (bounded by MaxCalls)
  snapshot   \* history: the bytes of the tree when the running add locked it

vars == <<segs, count, max, writer, readers, pc, node, rc, found, crashed, calls, snapshot>>

TypeOK ==
  /\ segs \subseteq Seg
  /\ count \in Nat
  /\ max \in Word
  /\ writer \in Threads \cup {NoThread}
  /\ readers \subseteq Threads
  /\ pc \in [Threads -> {"idle", "add", "read"}]
  /\ node \in [Threads -> Seg \cup {NoSeg}]
  /\ rc \in [Threads -> {0, ENOMEM}]
  /\ found \in [Threads -> Seg \cup {NoSeg}]
  /\ crashed \in BOOLEAN
  /\ calls \in Nat
  /\ snapshot \in [Word -> Word \cup {Mod}]

-----------------------------------------------------------------------------
(* Helpers translated from seg_tree.c                                     *)

\* compare_func(a, b) = 0: the two intervals share a byte.
Overlap(a, b) == ~(a.start > b.end) /\ ~(a.end < b.start)

\* RB_INSERT whose result is ignored: the node goes in unless it overlaps.
RBInsert(S, n) == IF \E o \in S : Overlap(o, n) THEN S ELSE S \cup {n}

\* Mutant: the left remainder ends at start2 instead of start2 - 1.
NonOverlappingNoMinus(s1, e1, s2, e2) ==
  IF s1 >= s2 /\ e1 <= e2 THEN [full |-> TRUE, ns |-> 0, ne |-> 0]
  ELSE IF s1 < s2
       THEN [full |-> FALSE, ns |-> s1, ne |-> IF e1 < s2 THEN e1 ELSE s2]
  ELSE IF s1 > s2 /\ e1 > e2
       THEN [full |-> FALSE, ne |-> e1,
             ns |-> IF s1 > (e2 + 1) % Mod THEN s1 ELSE (e2 + 1) % Mod]
  ELSE [full |-> FALSE, ns |-> (e2 + 1) % Mod, ne |-> e1]

\* get_non_overlapping_range(start1, end1, start2, end2): `full' is its
\* return value 1; otherwise [ns, ne] is new_start/new_end.
NonOverlapping(s1, e1, s2, e2) ==
  IF s1 >= s2 /\ e1 <= e2 THEN [full |-> TRUE, ns |-> 0, ne |-> 0]
  ELSE IF s1 < s2
       THEN [full |-> FALSE, ns |-> s1,
             ne |-> IF e1 < (s2 - 1) % Mod THEN e1 ELSE (s2 - 1) % Mod]
  ELSE IF s1 > s2 /\ e1 > e2
       THEN [full |-> FALSE, ne |-> e1,
             ns |-> IF s1 > (e2 + 1) % Mod THEN s1 ELSE (e2 + 1) % Mod]
  ELSE [full |-> FALSE, ns |-> (e2 + 1) % Mod, ne |-> e1]

\* Mutants: the piece keeps the old node's pointer; the sum is not wrapped.
PieceSamePtr(o, a, b) == [start |-> a, end |-> b, ptr |-> o.ptr]
PieceNoWrap(o, a, b) == [start |-> a, end |-> b, ptr |-> o.ptr + (a - o.start)]

\* seg_tree_node_alloc(start, end, ptr) for a piece of overlap o starting
\* at a: its pointer is o->ptr + (a - o->start).
Piece(o, a, b) == [start |-> a, end |-> b, ptr |-> (o.ptr + (a - o.start)) % Mod]

\* Mutant: the found node must begin strictly before end.
FindNoLockStrict(S, s, e) ==
  LET holds == {g \in S : g.start <= s /\ s <= g.end}
      after == {g \in S : g.start > s}
      next  == IF holds # {} THEN CHOOSE g \in holds : TRUE
               ELSE IF after # {}
                    THEN CHOOSE g \in after : \A h \in after : g.start <= h.start
                    ELSE NoSeg
  IN IF next # NoSeg /\ next.start < e THEN next ELSE NoSeg

\* seg_tree_find_nolock: RB_NFIND of [start, start] gives the node holding
\* start, else the node with the least start above it; found if it begins
\* no later than end.
FindNoLock(S, s, e) ==
  LET holds == {g \in S : g.start <= s /\ s <= g.end}
      after == {g \in S : g.start > s}
      next  == IF holds # {} THEN CHOOSE g \in holds : TRUE
               ELSE IF after # {}
                    THEN CHOOSE g \in after : \A h \in after : g.start <= h.start
                    ELSE NoSeg
  IN IF next # NoSeg /\ next.start <= e THEN next ELSE NoSeg

LockFree == writer = NoThread /\ readers = {}

\* The logical-to-physical byte map the nodes stand for (Mod for a hole).
TreeBytes(S) ==
  [x \in Word |->
     LET holding == {g \in S : g.start <= x /\ x <= g.end}
     IN IF holding = {} THEN Mod
        ELSE LET g == CHOOSE g \in holding : TRUE IN (g.ptr + (x - g.start)) % Mod]

NoBytes == [x \in Word |-> Mod]

-----------------------------------------------------------------------------
(* Operations.  Every call starts from pc = "idle" of its thread.         *)

Init ==
  /\ segs = {}
  /\ count = 0
  /\ max = 0
  /\ writer = NoThread
  /\ readers = {}
  /\ pc = [t \in Threads |-> "idle"]
  /\ node = [t \in Threads |-> NoSeg]
  /\ rc = [t \in Threads |-> 0]
  /\ found = [t \in Threads |-> NoSeg]
  /\ crashed = FALSE
  /\ calls = 0
  /\ snapshot = NoBytes

\* seg_tree_add, lines 147-150: calloc of the new node fails, nothing locked.
AddNoMem(t) ==
  /\ MayFailAlloc
  /\ pc[t] = "idle" /\ calls < MaxCalls
  /\ calls' = calls + 1
  /\ rc' = [rc EXCEPT ![t] = ENOMEM]
  /\ UNCHANGED <<snapshot, segs, count, max, writer, readers, pc, node, found, crashed>>

\* seg_tree_add, lines 147-152: node allocated, write lock taken.
AddBegin(t, s, e, p) ==
  /\ pc[t] = "idle" /\ calls < MaxCalls /\ LockFree
  /\ calls' = calls + 1
  /\ writer' = t
  /\ pc' = [pc EXCEPT ![t] = "add"]
  /\ node' = [node EXCEPT ![t] = [start |-> s, end |-> e, ptr |-> p]]
  /\ snapshot' = TreeBytes(segs)
  /\ UNCHANGED <<segs, count, max, readers, rc, found, crashed>>

\* One pass of the while loop, lines 159-208, with RB_INSERT having returned
\* the node o overlapping the new range n: lines 166-167 ask for the part of
\* o outside n, resized; the rest of o after resized is its remainder.
Trim(o, n) == NonOverlapping(o.start, o.end, n.start, n.end)
Resized(o, n) == Piece(o, Trim(o, n).ns, Trim(o, n).ne)
RestStart(o, n) == (Resized(o, n).end + 1) % Mod
HasRest(o, n) == RestStart(o, n) >= o.start /\ RestStart(o, n) <= o.end
Remaining(o, n) == Piece(o, RestStart(o, n), o.end)

\* Lines 168-172: o lies inside the new range; remove it, count--.
AddDrop(t, o) ==
  /\ Trim(o, node[t]).full
  /\ segs' = segs \ {o}
  /\ count' = count - 1
  /\ UNCHANGED <<snapshot, writer, pc, node, rc, found, crashed>>

\* Lines 181-185: calloc of resized fails; return ENOMEM, lock still held.
AddTrimNoMem(t, o) ==
  /\ ~Trim(o, node[t]).full /\ MayFailAlloc
  /\ pc' = [pc EXCEPT ![t] = "idle"]
  /\ node' = [node EXCEPT ![t] = NoSeg]
  /\ rc' = [rc EXCEPT ![t] = ENOMEM]
  /\ snapshot' = NoBytes
  /\ UNCHANGED <<segs, count, writer, found, crashed>>

\* Lines 186-190, 207: o replaced by resized, no remainder.
AddTrim(t, o) ==
  /\ ~Trim(o, node[t]).full
  /\ ~HasRest(o, node[t])
  /\ segs' = RBInsert(segs \ {o}, Resized(o, node[t]))
  /\ UNCHANGED <<snapshot, count, writer, pc, node, rc, found, crashed>>

\* Lines 186-207: o replaced by resized and its remainder, count++.
AddSplit(t, o) ==
  /\ ~Trim(o, node[t]).full
  /\ HasRest(o, node[t])
  /\ segs' = RBInsert(RBInsert(segs \ {o}, Resized(o, node[t])), Remaining(o, node[t]))
  /\ count' = count + 1
  /\ UNCHANGED <<snapshot, writer, pc, node, rc, found, crashed>>

\* Lines 198-204: calloc of remaining fails, but line 200 tests resized,
\* so RB_INSERT dereferences NULL and the process dies.
AddRestNoMem(t, o) ==
  /\ ~Trim(o, node[t]).full /\ MayFailAlloc
  /\ HasRest(o, node[t])
  /\ crashed' = TRUE
  /\ UNCHANGED <<snapshot, segs, count, writer, pc, node, rc, found>>

AddOverlap(t) ==
  /\ pc[t] = "add"
  /\ \E o \in segs :
     /\ Overlap(o, node[t])
     /\ \/ AddDrop(t, o)
        \/ AddTrimNoMem(t, o)
        \/ AddTrim(t, o)
        \/ AddSplit(t, o)
        \/ AddRestNoMem(t, o)
  /\ UNCHANGED <<max, readers, calls>>

\* The max the running seg_tree_add of t stores at line 214: MAX(seg_tree->max, end).
AddMax(t) == IF max > node[t].end THEN max ELSE node[t].end

\* Mutants of AddDone: the count++ of lines 210-212 is lost; max is set to
\* the new end instead of MAX(max, end).
AddDoneNoCount(t) ==
  /\ pc[t] = "add"
  /\ ~\E o \in segs : Overlap(o, node[t])
  /\ segs' = segs \cup {node[t]}
  /\ count' = count
  /\ max' = AddMax(t)
  /\ writer' = NoThread
  /\ pc' = [pc EXCEPT ![t] = "idle"]
  /\ node' = [node EXCEPT ![t] = NoSeg]
  /\ rc' = [rc EXCEPT ![t] = 0]
  /\ snapshot' = NoBytes
  /\ UNCHANGED <<readers, found, crashed, calls>>

AddDoneSetMax(t) ==
  /\ pc[t] = "add"
  /\ ~\E o \in segs : Overlap(o, node[t])
  /\ segs' = segs \cup {node[t]}
  /\ count' = count + 1
  /\ max' = node[t].end
  /\ writer' = NoThread
  /\ pc' = [pc EXCEPT ![t] = "idle"]
  /\ node' = [node EXCEPT ![t] = NoSeg]
  /\ rc' = [rc EXCEPT ![t] = 0]
  /\ snapshot' = NoBytes
  /\ UNCHANGED <<readers, found, crashed, calls>>

\* Lines 159, 210-217: RB_INSERT of the new node succeeds; unlock, return 0.
AddDone(t) ==
  /\ pc[t] = "add"
  /\ ~\E o \in segs : Overlap(o, node[t])
  /\ segs' = segs \cup {node[t]}
  /\ count' = count + 1
  /\ max' = AddMax(t)
  /\ writer' = NoThread
  /\ pc' = [pc EXCEPT ![t] = "idle"]
  /\ node' = [node EXCEPT ![t] = NoSeg]
  /\ rc' = [rc EXCEPT ![t] = 0]
  /\ snapshot' = NoBytes
  /\ UNCHANGED <<readers, found, crashed, calls>>

\* Mutant: seg_tree_clear empties the tree without taking the write lock.
ClearNoLock(t) ==
  /\ pc[t] = "idle"
  /\ segs' = {}
  /\ \/ segs = {} /\ UNCHANGED <<count, max>>
     \/ segs # {} /\ count' = 0 /\ max' = 0
  /\ UNCHANGED <<snapshot, writer, readers, pc, node, rc, found, crashed, calls>>

\* seg_tree_clear (and seg_tree_destroy, which only calls it), lines 339-368:
\* an empty tree is left as it is (lines 346-350), count and max included.
Clear(t) ==
  /\ pc[t] = "idle" /\ LockFree
  /\ segs' = {}
  /\ \/ segs = {} /\ UNCHANGED <<count, max>>
     \/ segs # {} /\ count' = 0 /\ max' = 0
  /\ UNCHANGED <<snapshot, writer, readers, pc, node, rc, found, crashed, calls>>

\* seg_tree_rdlock, lines 308-311, before a find or an iteration.
RdLock(t) ==
  /\ pc[t] = "idle" /\ writer = NoThread
  /\ readers' = readers \cup {t}
  /\ pc' = [pc EXCEPT ![t] = "read"]
  /\ UNCHANGED <<snapshot, segs, count, max, writer, node, rc, found, crashed, calls>>

\* seg_tree_find_nolock, lines 225-254, under the caller's read lock; the
\* calloc of its probe node may fail, and then it returns NULL.
Find(t, s, e) ==
  /\ pc[t] = "read"
  /\ \/ found' = [found EXCEPT ![t] = FindNoLock(segs, s, e)]
     \/ MayFailAlloc /\ found' = [found EXCEPT ![t] = NoSeg]
  /\ UNCHANGED <<snapshot, segs, count, max, writer, readers, pc, node, rc, crashed, calls>>

\* seg_tree_unlock, lines 330-333, by a reader; what it found is dropped.
RdUnlock(t) ==
  /\ pc[t] = "read"
  /\ readers' = readers \ {t}
  /\ pc' = [pc EXCEPT ![t] = "idle"]
  /\ found' = [found EXCEPT ![t] = NoSeg]
  /\ UNCHANGED <<snapshot, segs, count, max, writer, node, rc, crashed, calls>>

Next ==
  /\ ~crashed
  /\ \E t \in Threads :
     \/ AddNoMem(t)
     \/ \E s, e \in Offsets, p \in Ptrs : s <= e /\ AddBegin(t, s, e, p)
     \/ AddOverlap(t)
     \/ AddDone(t)
     \/ Clear(t)
     \/ RdLock(t)
     \/ \E s, e \in Offsets : s <= e /\ Find(t, s, e)
     \/ RdUnlock(t)

\* The thread inside seg_tree_add runs: it holds the lock and never waits.
Fairness == \A t \in Threads : WF_vars(AddOverlap(t)) /\ WF_vars(AddDone(t))

Spec == Init /\ [][Next]_vars /\ Fairness
-----------------------------------------------------------------------------
(* Properties                                                              *)

\* The highest end among the segments (0 for none).
HighestEnd(S) ==
  IF S = {} THEN 0 ELSE (CHOOSE g \in S : \A h \in S : h.end <= g.end).end

\* Reference for find: the overlapping segment with the lowest start.
LowestOverlap(S, s, e) ==
  LET ov == {g \in S : Overlap(g, [start |-> s, end |-> e])}
  IN IF ov = {} THEN NoSeg ELSE CHOOSE g \in ov : \A h \in ov : g.start <= h.start

\* seg_tree->count is the number of nodes in the tree (spec section 8,
\* property 5): every count++ and count-- of seg_tree_add and the reset in
\* seg_tree_clear match a node really inserted or removed.
CountConsistent == count = Cardinality(segs)

\* Outside of seg_tree_add, seg_tree->max is the end of the last segment
\* (0 when empty): the running MAX of added ends in seg_tree_add agrees with
\* what the overwrites and trims of the loop leave in the tree.
MaxIsHighestEnd == (\A t \in Threads : pc[t] # "add") => max = HighestEnd(segs)

\* seg_tree_find_nolock, built on RB_NFIND of the start byte, returns the
\* overlapping segment with the lowest start, as its comment promises.
FindIsLowestOverlap ==
  \A s, e \in Offsets : s <= e => FindNoLock(segs, s, e) = LowestOverlap(segs, s, e)

\* No caller passes the top offset 2^W - 1 (the 64-bit unsigned long maximum
\* in the code): below it, resized->end + 1 in seg_tree_add cannot wrap.
TopFree == Offsets \subseteq 0 .. (Mod - 2)

\* The tree's nodes are proper intervals below the top offset ...
SegsWellFormed == \A g \in segs : g.start <= g.end /\ g.end < Mod - 1

\* ... no two of them share a byte (spec section 8, property 1) ...
SegsDisjoint == \A g, h \in segs : g # h => ~Overlap(g, h)

\* ... and so is the range a running seg_tree_add is inserting.
AddingWellFormed ==
  \A t \in Threads : pc[t] = "add" =>
     node[t] \in Seg /\ node[t].start <= node[t].end /\ node[t].end < Mod - 1

\* Inductive strengthening of TypeOK and CountConsistent, for callers that
\* keep below the top offset: every trimmed piece seg_tree_add puts back is
\* a proper part of the node it replaces, so it never overlaps another node
\* and RB_INSERT never refuses it; hence every count++ matches an insert.
IInv ==
  /\ TypeOK
  /\ IsFiniteSet(segs)
  /\ SegsWellFormed
  /\ SegsDisjoint
  /\ AddingWellFormed
  /\ CountConsistent

\* Inductive strengthening of MaxIsHighestEnd, when calloc never fails:
\* only the lock holder is inside seg_tree_add; outside an add, max is the
\* end of some node and no node ends above it (0 for an empty tree); during
\* an add, the loop only removes bytes of the new range, so no node ends
\* above what the add will store, and that value is the new range's end or
\* the end of a node still in the tree.
MaxInv ==
  /\ \A t \in Threads : pc[t] = "add" => writer = t
  /\ (\A t \in Threads : pc[t] # "add") =>
        /\ \A g \in segs : g.end <= max
        /\ segs = {} => max = 0
        /\ segs # {} => \E g \in segs : g.end = max
  /\ \A t \in Threads : pc[t] = "add" =>
        /\ \A g \in segs : g.end <= AddMax(t)
        /\ AddMax(t) = node[t].end \/ \E g \in segs : g.end = AddMax(t)

\* Inductive strengthening for the refinement: while a seg_tree_add runs,
\* every byte outside its range still maps where it did when the add took
\* the lock, as the loop's trims and splits give up only bytes of the new
\* range and a trimmed piece's pointer is moved with its start.
AddKeepsOutside ==
  \A t \in Threads : pc[t] = "add" =>
    \A x \in Word : x < node[t].start \/ node[t].end < x =>
       TreeBytes(segs)[x] = snapshot[x]

\* Every seg_tree_add that has taken the lock leaves its while loop: the
\* trimmed pieces it puts back never overlap the new range again.
AddTerminates == \A t \in Threads : (pc[t] = "add") ~> (pc[t] = "idle")

\* A thread that has returned from a seg_tree call holds no write lock.
LockReleasedOnReturn == \A t \in Threads : pc[t] = "idle" => writer # t

\* seg_tree_add reports allocation failure instead of crashing the process.
NoNullDeref == ~crashed

\* While a thread holds the read lock (from seg_tree_rdlock to
\* seg_tree_unlock), no step of any thread changes the tree, its count or
\* its max: seg_tree_add and seg_tree_clear wait for the write lock, and a
\* reader is let in only when no add holds it.
ReadLockFreezesTree ==
  [][\A t \in Threads : pc[t] = "read" => UNCHANGED <<segs, count, max>>]_vars

\* The node seg_tree_find_nolock returned (a pointer into the tree, line
\* 248) is still a node of the tree as long as its caller holds the read
\* lock, whatever adds and clears other threads start meanwhile.
FoundInTree ==
  \A t \in Threads : pc[t] = "read" /\ found[t] # NoSeg => found[t] \in segs

\* The byte map the tree stands for.  A seg_tree_add takes effect when it
\* returns 0: while it runs under the write lock, the map is the one it
\* found when it took the lock, whatever its loop has trimmed so far.
AbsMap == IF \E t \in Threads : pc[t] = "add" THEN snapshot ELSE TreeBytes(segs)

Abs == INSTANCE SegMap WITH map <- AbsMap, Hole <- Mod

\* The segment tree implements the byte map: every add overwrites exactly its
\* range with the affine pointers, keeps every other byte, and a failed add
\* changes nothing (spec sections 4.1 and 8, properties 2 and 3).
SegMapSpec == Abs!Spec
=============================================================================
