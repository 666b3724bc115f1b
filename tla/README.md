# TLA+ models of UnifyCR's segment tree and delegator metadata path

This directory holds TLA+ specifications of the two parts of UnifyCR whose
source is under `src/` and which change shared state:

* the thread-safe **segment tree** (`src/common/src/seg_tree.c`). It maps the
  logical byte ranges of a file to offsets in a client's write log.
* the delegator's **metadata path** (`src/server/src/unifycr_metadata.c`).
  The delegator's main thread flushes client indexes into the MDHIM
  key-value store (`meta_process_fsync`), calls the attribute and extent
  API, and fills a request manager's `del_req_set` from the same store
  (`meta_batch_get`; `unifycr_global.h`, lines 139-165, says the main
  thread adds the items, the request manager only processes them).

The two parts do not call each other in the repository. A client keeps its
extents in a segment tree. It hands them to the delegator through its
shared-memory index region, and the delegator puts them into the KV store.
So each part is a module of its own.

`PROJECT.json` lists the components, every run, the mutants, the map from
each definition to the source lines it translates, the findings, the
hazards and the theorems.

## Modules

| module | models |
|---|---|
| `SegTree` | `seg_tree_init`, `seg_tree_add`, `seg_tree_clear`/`destroy`, the rwlock, `seg_tree_find_nolock` |
| `SegMap` | what a segment tree promises: a byte map with last-writer-wins `add` and `clear` |
| `SegTreeProofs` | TLAPS proofs of the segment tree's inductive invariant, type correctness, count and `seg_tree_find_nolock` |
| `SegTreeMaxProofs` | TLAPS proof that `seg_tree->max` is the highest end (with the invariant `MaxInv`) |
| `SegTreeRefProofs` | TLAPS proof that the segment tree implements `SegMap` (`SegTreeRefines`), through `AddKeepsOutside` |
| `SegTreeLockProofs` | TLAPS proofs about the rwlock: the tree is frozen while a thread holds the read lock (`ReadersSeeFrozenTree`), with the lock invariant `LockInv` |
| `MCSegTree` | the small instances TLC runs |
| `Metadata` | `meta_process_fsync`, `meta_batch_get`, `unifycr_set/get_file_attribute(s)`, `unifycr_set/get_file_extents`, over the globals they share |
| `MetadataProofs` | TLAPS proofs of the flush invariants (`FlushCorrect` and its corollaries) and of the attribute get (`AttrGetCorrect`) |
| `MetadataReadProofs` | TLAPS proofs that `meta_batch_get` returns exactly the stored extents in its ranges (`ReadCorrect`) and that `tot_num` counts the distinct extents copied into `msg_meta` (`ReadCountExact`) |
| `MCMetadata` | the small instances TLC runs |

### SegTree

State:

* `segs` is the set of nodes `[start, end, ptr]` of the red-black tree.
* `count` and `max` are the fields of `struct seg_tree`.
* `writer` and `readers` are the `pthread_rwlock_t`.
* `pc`, `node`, `rc` and `found` are the per-thread locals and results.
* `crashed` marks a NULL dereference.
* `snapshot` is a history variable: the byte map when the running add took
  the lock.

All arithmetic is on `unsigned long`, so it is modulo `2^W`.

`RB_INSERT` refuses a node that compares equal (overlaps) to one in the tree
and returns that one. Which overlapping node the loop meets first depends on
the tree's shape, so `RBInsert` leaves the choice free.

`seg_tree_add` is one step per iteration of its `while` loop. That way an
allocation failure in the middle of the loop is visible, and the states a
reader can never see (the write lock is held) are still checked against the
invariants. The steps are:

* `AddBegin` allocates and locks.
* The iterations are `AddDrop`, `AddTrim`, `AddSplit`, and the `ENOMEM`
  exits `AddTrimNoMem` and `AddRestNoMem`. `AddOverlap` is their
  disjunction.
* `AddDone` inserts the node, counts it, raises `max` and unlocks.

`get_non_overlapping_range` is the operator `NonOverlapping`.
`MayFailAlloc` says whether `calloc` may return NULL.

`SegMap` is instantiated with the refinement mapping `AbsMap`:

* while an add runs, the map is the one it found when it locked (`snapshot`);
* otherwise it is `TreeBytes(segs)`.

An add takes effect when it returns 0.

### Metadata

The functions share process-wide globals, and they are the model's shared
variables:

* `keys` is `unifycr_keys`.
* `primaryIndex` is `md->primary_index`.
* `bgrm` is the reply chain the global pointer still reaches: a sequence of
  replies. Each reply has an id `<<g, server>>`, where `g` counts the gets
  (`gets`).

All of these functions run on the main thread, one call at a time.
`MainIdle` (no fsync, set, get or batch get in progress) guards the start
of every call, and a call's steps then run back to back. Each function is
still cut into steps at the statements that read or write the globals
(`FsyncFill`/`FsyncPut1`/`FsyncAttrFill`/`FsyncPut2` split the fsync at
lines 257, 295, 317 and 339), so a call meets the globals as the previous
call left them, and every put or get can fail on its own.

The loops over the reply chain (`meta_batch_get`, lines 412-450, and
`unifycr_get_file_extents`, lines 663-685) are one step per reply:
`GetLoopStep`/`GetExtStep` read the reply the global `bgrm` points to
now, release it and move `bgrm` on, and `GetLoopEnd`/`GetExtEnd` end the
loop when it is NULL. `tot` is `tot_num`, the slots of `msg_meta`
filled so far. Memory is not modelled: the release of a reply only moves
`bgrm` on, and leaks change nothing the properties read.

`store[0]` (extents) and `store[1]` (attributes) are the two MDHIM indexes.
MDHIM itself is not under `src/`, so it is modelled from the spec
(`Shard`, `PutStored`, `InRange`, `RangeGet`, `Servers`, `FailedSets`):

* a put stores what reaches a live server;
* a range get returns one reply per server, with the stored keys in the
  ranges or with an error.

`MayFailKV` lets any set of servers fail a call. The clients' write index
and attribute region (in shared memory, written outside `src/`) are the
constants `Index` and `Attrs`.

Abstractions, on purpose:

* Keys and values are records, not byte buffers.
* `fattr_keys`/`fattr_vals` and `unifycr_vals` are written only by the main
  thread, so they are not variables.
* The requests of a batch are the constant set `Requests`.
* A point get of a missing gfid is an error reply (MDHIM's behaviour is not
  in the repository).

## Runs

Every run uses small instances:

* `SegTree`: `W = 3` (offsets 0..7), two threads, three adds.
* `Metadata`: two clients, two metadata servers, `MAX_META_PER_SEND = 2`,
  stripes of two offsets.

These bounds make the hard cases happen. A range overlaps zero, one or two
nodes. Trims and splits happen at both ends. Two keys fall on different
servers. A batch fills the key buffer. The passing runs reach 42k, 55k, 313k
and 189 distinct states. Together they fire every action and every
disjunct of each `Next`.

| run | expect | what it shows |
|---|---|---|
| `segtree` | pass | `IInv`, `MaxIsHighestEnd`, `FindIsLowestOverlap`, `AddKeepsOutside`, `AddTerminates` and `SegMapSpec` with two threads adding, clearing and finding. The segment tree refines the byte map, and while an add runs the bytes outside its range keep their mapping. |
| `segtree_nomem` | pass | With every `calloc` allowed to fail: `TypeOK` and `CountConsistent`; no add or clear changes the tree, its count or its max while a thread holds the read lock (`ReadLockFreezesTree`, an action property). |
| `segtree_count_wrap` | violation | An add reaching offset `2^W-1` wraps `resized->end + 1`, and `count` drifts (`seg_tree.c:192`). |
| `segtree_lock_leak` | violation | `ENOMEM` is returned with the write lock held (`:184`). |
| `segtree_null_deref` | violation | The NULL test after the second `calloc` checks `resized`, not `remaining` (`:200`). |
| `segtree_partial_add` | violation | A failed add has already removed nodes, so it is not reverted (`:183`). |
| `meta_flush` | pass | Fsyncs, sets, attribute gets and one client's batch gets, one call at a time, with failing servers. A put stores only flushed entries, each in its own index (`StoredAreFlushed`). Everything a successful fsync/set reported is stored (`FlushedAreStored`). A successful attribute get returns a stored attribute of its gfid (`AttrGetSees`), and a successful batch get exactly the extents stored in its ranges (`GetSeesStore`), whatever call ran before and left `unifycr_keys` and `md->primary_index` behind. |
| `meta_read` | pass | One client's batch gets over stored extents, with failing servers: `GetSeesStore`, and `tot_num` is always the number of distinct extents copied, all in the ranges (`MsgMetaCount`). |
| `meta_extents_get` | violation | `unifycr_get_file_extents` puts lengths into `addr`, keeps only the last reply and counts replies (`:680`). |
| `meta_fsync_overflow` | violation | A write index of three entries overruns the two slots of `unifycr_keys`: `num_entries` comes from client shared memory and is never compared with `MAX_META_PER_SEND` (`:277`). |
| `meta_msg_overflow` | violation | One request whose range holds three stored extents overruns the two slots of `msg_meta` (`:422`); the ToDo at line 193 says the message should then be split, and it is not. |
| `meta_probe_overflow` | violation | A batch of `MAX_META_PER_SEND` requests writes `2*req_cnt` keys into `unifycr_keys`. |

The three overflow runs are the cases `MsgMetaCount` and the proofs
make exact: `tot_num` counts distinct extents, so `msg_meta` overflows
exactly when a batch's ranges hold more stored extents than
`MAX_META_PER_SEND`, which nothing checks.

Each property of a passing run has a mutant in `PROJECT.json`: a plausible
slip in the modelled code (an off-by-one, a dropped check, a swapped
argument) that TLC then finds violating it.

`CHECK_DEADLOCK FALSE` is used only where the system really stops:

* for the segment tree, where a leaked lock or a crash stops every thread;
* for the metadata runs, where the bound on calls ends the behaviour and the
  delegator then waits for its next request.

## Fairness

`SegTree` assumes weak fairness of `AddOverlap(t)` and `AddDone(t)` only.
The thread inside `seg_tree_add` holds the write lock, so no other thread
can block it. Its loop needs only the CPU, and any scheduler keeps running a
runnable thread. No fairness is assumed for calling the API.
`AddTerminates` (every add returns) is checked under this fairness. The
metadata model checks only safety.

## What is proved

All theorems are checked by `tlapm` to the last leaf.

### Segment tree

`SegTreeProofs` proves, for every width `W`, every set of threads, offsets
and pointers, and with or without allocation failures:

* `IInvHolds`: `Spec => []IInv`;
* `TypeCorrect`: `Spec => []TypeOK`;
* `CountIsNodes`: `Spec => []CountConsistent`;
* `FindLowest`: `Spec => []FindIsLowestOverlap`.

All of them assume `TopFree`: callers never pass the top offset `2^W - 1`.
Without it the theorems would be false, and `segtree_count_wrap` shows why.

`CountConsistent` alone is not inductive. A step that re-inserts a trimmed
piece could, as far as the invariant knows, hit an overlapping node; then
`RB_INSERT` would refuse the piece while `count` is still incremented.

The strengthening `IInv` adds the facts that rule this out:

* every node is proper (`start <= end`);
* the nodes are pairwise disjoint;
* a running add's range is proper.

So every piece put back is a proper part of the node it replaces, it
overlaps no other node, and every `count++` matches an insert.

The proof has one step per action. Lemmas cover the operators the actions
are built from:

* `NonOverlapping`, trimming and `Remaining` stay in the word and inside the
  old node (`PiecesFit`);
* inserting a fresh node keeps the nodes disjoint;
* the cardinality bookkeeping of `FiniteSetTheorems`.

`FindLowest` follows from `IInv`. The overlapping nodes have a least start
(`WFMin` of `WellFoundedInduction` over `<` on `Nat`), and disjointness
makes the node with that start unique. So the node `seg_tree_find_nolock`
picks is the lowest one.

`SegTreeMaxProofs` proves `MaxHighest`: `Spec => []MaxIsHighestEnd`, that
`seg_tree->max` is the highest end whenever no add runs. It also proves
`MaxInvHolds`: `Spec => [](IInv /\ MaxInv)`.
`MaxIsHighestEnd` is not inductive either, since an add's loop removes and
trims nodes before `max` is raised. `MaxInv` says:

* only the lock holder is inside `seg_tree_add`;
* no node ends above the value the running add will store (`AddMax`);
* that value is the end of a node or of the new range.

The loop removes only bytes of the new range, so a node ending above it
keeps its end in a trimmed piece. These two theorems also assume
`~MayFailAlloc`. A failed `calloc` leaves the tree changed and `max`
stale, and `segtree_nomem` does not check `MaxIsHighestEnd`.

### The rwlock

`SegTreeLockProofs` proves `ReadersSeeFrozenTree`:
`Spec => ReadLockFreezesTree`, the action property that no step changes
`segs`, `count` or `max` while some thread holds the read lock. It
holds with no assumption at all: for any threads, offsets,
pointers and width, and with `calloc` failing. A failed add returns
`ENOMEM` with the write lock still held (line 184), which keeps readers
out rather than letting them in.

It is not inductive alone. The strengthening `LockInv` ties the threads'
program counters to the lock:

* the threads in `readers` are exactly those between `seg_tree_rdlock`
  and `seg_tree_unlock`;
* a thread inside `seg_tree_add` holds the write lock;
* nobody reads while a writer holds it;
* only a reader holds a found node, and that node is in the tree.

`LockStep` has one lemma per operation. The writers' steps change the
tree, but `WriterExcludes` shows nobody reads then; the readers' steps
change nothing of the tree, and `FindInTree` says a find returns a node
of the tree or NULL. `LockInvHolds` states `Spec => []LockInv`.

### Metadata

`MetadataProofs` proves `FlushCorrect`: `Spec => []MInv`, where `MInv`
is `TypeOK /\ NoOverflow /\ StoredAreFlushed /\ FlushedAreStored /\
FlushInv`. It holds for any clients, write indexes, attribute lists,
number of servers, range size and server failures, under `Alone`:

* the calls are fsyncs, sets and gets of the API, no batch get
  (`ReadClients = {}`); `meta_flush` checks the same properties with
  batch gets between them;
* every write index fits in `MAX_META_PER_SEND` keys. Without it the
  fsync writes past `unifycr_keys` (`meta_fsync_overflow`), which is
  undefined behaviour: the properties would say nothing about it.

The corollaries `AckedStored`, `OnlyFlushedStored` and `FlushTypeOK`
state `FlushedAreStored`, `StoredAreFlushed` and `TypeOK` alone.

`StoredAreFlushed` and `FlushedAreStored` are not inductive. Between the
steps of an fsync they depend on what the shared globals hold. The
strengthening `FlushInv` says:

* an fsync's keys are still in `unifycr_keys`;
* the index it selected is still in `md->primary_index`;
* if its first put succeeded, all its extents are in index 0;
* a set call has selected the index of its kind;
* every get was counted, so reply ids are fresh.

The step proof has one lemma per operation. `PutAckedFacts` states once
what a checked put does: it stores a subset of its entries, and all of
them when it reports success. `SetReturn` is the common end of the three
set calls.

`AttrGetCorrect` proves `Spec => [](AttrInv /\ AttrGetSees)` under
`Alone`: a successful `unifycr_get_file_attribute` returns an attribute
that is stored under the gfid it was asked for. `AttrGetSees` is not
inductive, because the get's result is built over three steps (select the
attribute index, `mdhimGet`, read the reply `bgrm` points to). The
strengthening `AttrInv` says:

* an attribute get in progress has selected index 1;
* the reply `bgrm` points to holds only stored attributes of the asked
  gfid;
* that reply holds at least one of them unless it is an error.

The proof takes one lemma per operation. `AttrReply` states once what a
range get of one server returns, and `PutGrows` that puts only add to
the store, so an earlier successful get stays valid. `AttrInv` also
needs `MInv`: `primaryIndex` and the reply ids come from it.

`MetadataReadProofs` proves `ReadCorrect`: `Spec => [](GetSeesStore /\
ReadInv)` under `ReaderAlone`:

* the calls are one client's batch gets, over the extents flushed before
  (`InitExt`); `meta_flush` checks `GetSeesStore` with fsyncs and sets
  between the gets;
* every batch is a sequence of requests of naturals, and its `2 * req_cnt`
  probe keys fit into `unifycr_keys` (otherwise line 395 writes past it,
  as `meta_probe_overflow` shows).

It holds for any number of servers, failing servers, range size, stored
extents and batches. `GetSeesStore` is not inductive: the result is
built by a loop over the global reply chain `bgrm`. The strengthening
`ReadInv` (in `Metadata`, through `ReaderInv(r)`) says:

* the extent index still holds `InitExt`;
* between the fill and the get, the probe keys are still in
  `unifycr_keys`, and index 0 is selected before the get;
* during the loop, the bindings copied to `msg_meta` (`got`) and those of
  the replies `bgrm` still reaches are all wanted;
* while `rc` is 0 and no reply left is an error, they are all that is
  wanted.

`RInv` adds the shapes of the variables and `gets < calls` (so the get's
reply ids are in range). Lemmas:

* `CallPairs`: the pairs `mdhimBGet` reads back from `unifycr_keys` are
  the probe pairs, because `2 * req_cnt <= MAX_META_PER_SEND`;
* `RangeGetWanted`: the chain of a range get over those pairs holds only
  wanted extents, and all of them when no reply failed;
* `ChainTail`: how the chain's bindings and errors split when `bgrm`
  moves on;
* one lemma per step of `meta_batch_get`, and `MainQuiet`, which rules
  out every other call.

`ReadCountExact` proves `Spec => []MsgMetaCount` under `ReaderAlone` and
`IsFiniteSet(InitExt)`: `tot_num`, the slot of `msg_meta` the next copy
writes (line 422), is always the number of distinct extents copied, and
those are all in the ranges of the batch. It does not bound them: the
instance of `meta_msg_overflow` satisfies both assumptions, and there
`MsgMetaCount` holds while `msg_meta` overflows. What the theorem shows
is that the overflow is exactly the case of a batch whose ranges hold
more than `MAX_META_PER_SEND` stored extents; no reply is counted twice.
The inductive invariant `CountInv` adds, during the loop:

* the wanted extents are stored ones (so `got` is finite);
* none of those copied is in a reply `bgrm` still reaches;
* the replies of the chain are pairwise disjoint (`ChainDisjoint`),
  because every server answers only from its own shard
  (`RangeGetDisjoint`).

So each reply adds exactly its own size to `tot_num` and to `got`.

`InputAssumption` (in `Metadata`) gives the shapes of what the clients
hand over: write index entries of naturals, attribute gfids, attribute
get arguments. TLC evaluates it on every metadata run.

### Refinement of the byte map

`SegTreeRefProofs` proves `SegTreeRefines`: `Spec => SegMapSpec`. The
segment tree implements `SegMap` under the mapping `AbsMap`, for every
width and number of threads, under `TopFree` and `~MayFailAlloc`. Step by
step:

* `RefInit`: the empty tree maps every byte to a hole.
* `RefStep`: every step maps to a `SegMap` step or a stutter.
  * `AddBegin` is a stutter. No add ran before (the tree was unlocked and
    only the lock holder adds), and the snapshot it takes is the tree's map.
  * Each pass of the loop (`AddOverlap`) is a stutter, since `AbsMap` is
    the snapshot while an add runs.
  * `AddDone` is `SegMap`'s `Add(start, end, ptr)` (`RefDone`).
  * `Clear` is `SegMap`'s `Clear`.
  * Finds and read locks change nothing.

`AddDone` is the hard case. The tree it leaves must map the new range to
its affine pointers, and every other byte to what the snapshot held. The
first half follows from disjointness (`BytesAt`). The second half needs
the inductive invariant `AddKeepsOutside`, proved as `OutsideKept`
(`Spec => [](IInv /\ MaxInv /\ AddKeepsOutside)`): while an add runs,
every byte outside its range maps where it did when the add locked.

The argument is `LoopKeepsOutside`:

* a byte of another node stays in that node;
* a byte of the trimmed node outside the new range lies in the resized
  piece or in the remainder (`TrimCover`, a case split over the branches
  of `get_non_overlapping_range`);
* such a piece maps the byte to the same log offset, because
  `seg_tree_node_alloc` moves the pointer with the start modulo `2^W`
  (`PieceByte`, from `ModShift`: adding a multiple of `2^W` does not
  change a remainder);
* a hole stays a hole, as the pieces hold only bytes of the old node.

`MaxInv` gives that only the lock holder is inside `seg_tree_add`, so no
other range matters.

## What is only model-checked

The following are checked by TLC on the instances above, not proved:

* liveness (`AddTerminates`). It needs fairness and `ENABLED`, which are
  beyond TLAPS's reach here;
* the metadata properties on runs that mix batch gets with fsyncs and
  sets (`meta_flush`): the proofs take the two kinds of call apart
  (`Alone`, `ReaderAlone`).

The theorems about `max`, `AddKeepsOutside` and the refinement assume
`~MayFailAlloc`. With a failing `calloc`, `SegMapSpec` is false: a failed
add has already changed the tree (`segtree_partial_add`), and `max` is
left stale with it. `AddKeepsOutside` is not checked with failures. The theorems of
`SegTreeProofs` do not need this assumption.

Induction over data and `RECURSIVE` operators are also out of the provers'
reach. The proved modules avoid both.

Abstractions to keep in mind:

* `count` is a `Nat`, not wrapped modulo `2^W`. Overflowing it takes `2^64`
  nodes.
* The rwlock calls of `seg_tree.c` sit inside `assert()` (lines 310, 321,
  332). The model takes the locks, as a debug build does; a build with
  `NDEBUG` takes none, and then nothing the model says about concurrent
  adds, clears and finds holds.
* `PutFails` is false for an empty batch: an fsync of an empty write
  index reports success without reaching a server, as `mdhimBPut` of no
  keys returns no error reply (MDHIM is outside `src/`, so this is an
  assumption about it).
* In the segment tree, `seg_tree_count`, `seg_tree_max` and `seg_tree_iter`
  only read under the lock. They are left out.

## Not modelled

* The request-manager thread's loop (C5) and the service manager (C6): not
  in the repository.
* The client index region (C2): shared memory written by the client outside
  `src/`. It appears only as constants.
* MDHIM's internals: modelled from the spec.
* Logging, and the `open()` system test: no state worth checking.
* `meta_init_store` and `meta_sanitize`: the first is the initial state, the
  second only removes files.
* Memory leaks on error paths (`unifycr_set_file_extents` breaks out of its
  release loop): not modelled.
