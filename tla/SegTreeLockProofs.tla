-------------------------- MODULE SegTreeLockProofs -------------------------
(***************************************************************************)
(* Proofs about the rwlock of seg_tree.c: while a thread holds the read    *)
(* lock the tree does not change, so the node seg_tree_find_nolock hands   *)
(* out stays in it.  They hold for any threads, offsets, pointers and word *)
(* width, and whether or not calloc fails: a seg_tree_add that returns     *)
(* ENOMEM with the lock still held (line 184) only keeps everybody out.    *)
(***************************************************************************)
EXTENDS SegTree, TLAPS

\* The lock's discipline, as the code keeps it: the readers are the threads
\* between seg_tree_rdlock and seg_tree_unlock, a thread inside
\* seg_tree_add holds the write lock, and nobody reads while it is held.
LockInv ==
  /\ pc \in [Threads -> {"idle", "add", "read"}]
  /\ DOMAIN found = Threads
  /\ \A t \in Threads : pc[t] = "read" <=> t \in readers
  /\ \A t \in Threads : pc[t] = "add" => writer = t
  /\ writer # NoThread => readers = {}
  /\ \A t \in Threads : pc[t] # "read" => found[t] = NoSeg
  /\ FoundInTree

\* What ReadLockFreezesTree asks of one step.
Frozen == \A t \in Threads : pc[t] = "read" => UNCHANGED <<segs, count, max>>

\* Nobody holds the read lock.
NoReader == \A t \in Threads : pc[t] # "read"
-----------------------------------------------------------------------------
(* Lemmas.                                                                 *)

\* seg_tree_find_nolock returns a node of the tree or NULL.
LEMMA FindInTree ==
  ASSUME NEW S, NEW s, NEW e
  PROVE  FindNoLock(S, s, e) \in S \cup {NoSeg}
  BY DEF FindNoLock

\* While some thread holds the write lock, nobody reads.
LEMMA WriterExcludes ==
  ASSUME LockInv, writer # NoThread \/ readers = {}
  PROVE  NoReader
  BY DEF LockInv, NoReader

\* A thread inside seg_tree_add holds the write lock.
LEMMA AdderWrites ==
  ASSUME LockInv, NEW t \in Threads, pc[t] = "add"
  PROVE  writer = t /\ writer # NoThread
  BY ConstAssumption DEF LockInv

\* Before any call nobody holds the lock and nothing was found.
LEMMA LockInit ==
  ASSUME Init PROVE LockInv
  BY DEF Init, LockInv, FoundInTree
-----------------------------------------------------------------------------
(* The operations of the writers: seg_tree_add and seg_tree_clear.         *)

\* seg_tree_add's calloc of the new node fails before it locks.
LEMMA NoMemStep ==
  ASSUME LockInv, NEW t \in Threads, AddNoMem(t)
  PROVE  LockInv' /\ Frozen
  BY DEF AddNoMem, LockInv, FoundInTree, Frozen

\* seg_tree_add takes the write lock, lines 147-152: it waits until no
\* reader and no writer holds it.
LEMMA BeginStep ==
  ASSUME LockInv, NEW t \in Threads, NEW s, NEW e, NEW p, AddBegin(t, s, e, p)
  PROVE  LockInv' /\ Frozen
  <1>1. writer = NoThread /\ readers = {}
    BY DEF AddBegin, LockFree
  <1>2. NoReader
    BY <1>1, WriterExcludes
  <1>3. \A u \in Threads : pc[u] # "add"
    BY <1>1, AdderWrites
  <1>4. /\ pc' = [pc EXCEPT ![t] = "add"] /\ writer' = t
        /\ UNCHANGED <<readers, found, segs, count, max>>
    BY DEF AddBegin
  <1>5. LockInv'
    BY <1>1, <1>2, <1>3, <1>4, ConstAssumption DEF LockInv, NoReader, FoundInTree
  <1>6. QED
    BY <1>4, <1>5 DEF Frozen

\* One pass of seg_tree_add's loop, under the write lock: whatever it
\* removes, trims or splits, nobody is reading.
LEMMA OverlapStep ==
  ASSUME LockInv, NEW t \in Threads, AddOverlap(t)
  PROVE  LockInv' /\ Frozen
  <1>1. pc[t] = "add"
    BY DEF AddOverlap
  <1>2. writer = t /\ readers = {} /\ NoReader
    BY <1>1, AdderWrites, WriterExcludes DEF LockInv
  <1>3. /\ UNCHANGED <<writer, readers, found>>
        /\ pc' = pc \/ pc' = [pc EXCEPT ![t] = "idle"]
    BY DEF AddOverlap, AddDrop, AddTrimNoMem, AddTrim, AddSplit, AddRestNoMem
  <1>4. /\ pc' \in [Threads -> {"idle", "add", "read"}]
        /\ \A u \in Threads : pc'[u] # "read"
        /\ \A u \in Threads : pc'[u] = "add" => pc[u] = "add"
    BY <1>2, <1>3 DEF LockInv, NoReader
  <1>5. \A u \in Threads : found[u] = NoSeg
    BY <1>2 DEF LockInv, NoReader
  <1>6. LockInv'
    BY <1>2, <1>3, <1>4, <1>5 DEF LockInv, FoundInTree
  <1>7. QED
    BY <1>2, <1>6 DEF Frozen, NoReader

\* seg_tree_add inserts the new node and unlocks, lines 210-217.
LEMMA DoneStep ==
  ASSUME LockInv, NEW t \in Threads, AddDone(t)
  PROVE  LockInv' /\ Frozen
  <1>1. pc[t] = "add"
    BY DEF AddDone
  <1>2. writer = t /\ readers = {} /\ NoReader
    BY <1>1, AdderWrites, WriterExcludes DEF LockInv
  <1>3. /\ pc' = [pc EXCEPT ![t] = "idle"] /\ writer' = NoThread
        /\ UNCHANGED <<readers, found>>
    BY DEF AddDone
  <1>4. \A u \in Threads : pc[u] = "add" => u = t
    BY <1>2 DEF LockInv
  <1>5. \A u \in Threads : found[u] = NoSeg
    BY <1>2 DEF LockInv, NoReader
  <1>6. LockInv'
    BY <1>2, <1>3, <1>4, <1>5 DEF LockInv, NoReader, FoundInTree
  <1>7. QED
    BY <1>2, <1>6 DEF Frozen, NoReader

\* seg_tree_clear empties the tree under the write lock, lines 339-368.
LEMMA ClearStep ==
  ASSUME LockInv, NEW t \in Threads, Clear(t)
  PROVE  LockInv' /\ Frozen
  <1>1. writer = NoThread /\ readers = {}
    BY DEF Clear, LockFree
  <1>2. NoReader
    BY <1>1, WriterExcludes
  <1>3. UNCHANGED <<writer, readers, pc, found>>
    BY DEF Clear
  <1>4. \A u \in Threads : found[u] = NoSeg
    BY <1>2 DEF LockInv, NoReader
  <1>5. LockInv'
    BY <1>1, <1>2, <1>3, <1>4 DEF LockInv, NoReader, FoundInTree
  <1>6. QED
    BY <1>2, <1>5 DEF Frozen, NoReader
-----------------------------------------------------------------------------
(* The operations of the readers.                                          *)

\* seg_tree_rdlock waits until no writer holds the lock.
LEMMA RdLockStep ==
  ASSUME LockInv, NEW t \in Threads, RdLock(t)
  PROVE  LockInv' /\ Frozen
  <1>1. pc[t] = "idle" /\ writer = NoThread
    BY DEF RdLock
  <1>2. \A u \in Threads : pc[u] # "add"
    BY <1>1, AdderWrites
  <1>3. found[t] = NoSeg
    BY <1>1 DEF LockInv
  <1>4. /\ pc' = [pc EXCEPT ![t] = "read"] /\ readers' = readers \cup {t}
        /\ UNCHANGED <<writer, found, segs, count, max>>
    BY DEF RdLock
  <1>5. LockInv'
    BY <1>1, <1>2, <1>3, <1>4 DEF LockInv, FoundInTree
  <1>6. QED
    BY <1>4, <1>5 DEF Frozen

\* seg_tree_find_nolock under the read lock: it returns a node of the tree
\* or NULL, and changes nothing.
LEMMA FindStep ==
  ASSUME LockInv, NEW t \in Threads, NEW s, NEW e, Find(t, s, e)
  PROVE  LockInv' /\ Frozen
  <1>1. pc[t] = "read"
    BY DEF Find
  <1>2. found'[t] \in segs \cup {NoSeg}
    BY FindInTree DEF Find, LockInv
  <1>3. /\ found' = [found EXCEPT ![t] = found'[t]]
        /\ UNCHANGED <<pc, writer, readers, segs, count, max>>
    BY DEF Find, LockInv
  <1>4. LockInv'
    BY <1>1, <1>2, <1>3 DEF LockInv, FoundInTree
  <1>5. QED
    BY <1>3, <1>4 DEF Frozen

\* seg_tree_unlock by a reader drops what it found.
LEMMA RdUnlockStep ==
  ASSUME LockInv, NEW t \in Threads, RdUnlock(t)
  PROVE  LockInv' /\ Frozen
  <1>1. pc[t] = "read"
    BY DEF RdUnlock
  <1>2. /\ pc' = [pc EXCEPT ![t] = "idle"] /\ readers' = readers \ {t}
        /\ found' = [found EXCEPT ![t] = NoSeg]
        /\ UNCHANGED <<writer, segs, count, max>>
    BY DEF RdUnlock
  <1>3. LockInv'
    BY <1>1, <1>2 DEF LockInv, FoundInTree
  <1>4. QED
    BY <1>2, <1>3 DEF Frozen
-----------------------------------------------------------------------------
(* The theorems.                                                           *)

\* Every step keeps the lock's discipline, and none changes the tree while
\* a thread holds the read lock.
THEOREM LockStep ==
  ASSUME LockInv, [Next]_vars
  PROVE  LockInv' /\ Frozen
  <1>1. CASE Next
    <2>1. PICK t \in Threads :
            \/ AddNoMem(t)
            \/ \E s, e \in Offsets, p \in Ptrs : s <= e /\ AddBegin(t, s, e, p)
            \/ AddOverlap(t)
            \/ AddDone(t)
            \/ Clear(t)
            \/ RdLock(t)
            \/ \E s, e \in Offsets : s <= e /\ Find(t, s, e)
            \/ RdUnlock(t)
      BY <1>1 DEF Next
    <2>2. QED
      BY <2>1, NoMemStep, BeginStep, OverlapStep, DoneStep, ClearStep,
         RdLockStep, FindStep, RdUnlockStep
  <1>2. CASE UNCHANGED vars
    BY <1>2 DEF vars, LockInv, FoundInTree, Frozen
  <1>3. QED
    BY <1>1, <1>2

\* seg_tree's rwlock keeps its discipline in every reachable state, for
\* any threads, offsets and word width, and whether or not calloc fails.
THEOREM LockInvHolds == Spec => []LockInv
  <1>1. Init => LockInv
    BY LockInit
  <1>2. LockInv /\ [Next]_vars => LockInv'
    BY LockStep
  <1>3. QED
    BY <1>1, <1>2, PTL DEF Spec

\* No seg_tree_add or seg_tree_clear changes the tree, its count or its
\* max while a thread holds the read lock.
THEOREM ReadersSeeFrozenTree == Spec => ReadLockFreezesTree
  <1>1. Init => LockInv
    BY LockInit
  <1>2. LockInv /\ [Next]_vars => LockInv' /\ [Frozen]_vars
    BY LockStep
  <1>3. QED
    BY <1>1, <1>2, PTL DEF Spec, ReadLockFreezesTree, Frozen

\* The node seg_tree_find_nolock returned is in the tree for as long as
\* its caller holds the read lock.
THEOREM FoundStaysInTree == Spec => []FoundInTree
  <1>1. LockInv => FoundInTree
    BY DEF LockInv
  <1>2. QED
    BY <1>1, LockInvHolds, PTL
=============================================================================
