------------------------------ MODULE Metadata ------------------------------
(***************************************************************************)
(* The delegator's metadata path, src/server/src/unifycr_metadata.c:       *)
(* meta_process_fsync on a client's fsync, meta_batch_get, which fills the *)
(* del_req_set of a client's request manager, and the metadata API calls,  *)
(* over the MDHIM key-value store with its two indexes: 0 holds the        *)
(* extents keyed (fid, offset), 1 the file attributes keyed gfid.          *)
(*                                                                         *)
(* All of them run on the delegator's main thread (unifycr_global.h,       *)
(* lines 139-165: the main thread adds items to del_req_set, the request   *)
(* manager processes them), one call at a time.  They go through          *)
(* process-wide globals: the key buffer unifycr_keys, the index selector   *)
(* md->primary_index and the reply chain bgrm.  They are variables here,   *)
(* and each function is cut into steps at the statements that read or     *)
(* write them; a call's steps run back to back, and a call begins only     *)
(* when the previous one has returned.  Memory (the release of replies,    *)
(* leaks) is not modelled.  The KV store itself (mdhimBPut, mdhimBGet,     *)
(* outside src/) is                                                        *)
(* modelled from the spec: a put stores what reaches a live server, a      *)
(* range get returns per server the stored keys in the requested ranges.   *)
(***************************************************************************)
EXTENDS Integers, Sequences, FiniteSets

CONSTANTS
  Clients,        \* (app_id, client rank) pairs connected to this delegator
  FsyncClients,   \* the clients that send fsyncs to the main thread
  ReadClients,    \* the clients whose request manager thread reads
  NoClient,
  MaxMeta,        \* MAX_META_PER_SEND, the length of unifycr_keys
  NumServers,     \* number of metadata servers (MDHIM range servers)
  RangeSize,      \* meta_range_size
  Index,          \* Index[c]: the write index in c's superblock
  Attrs,          \* Attrs[c]: the gfids in c's attribute region
  Requests,       \* the read request batches a client may deposit
  InitExt,        \* extents flushed before the model starts
  MayFailKV,      \* whether a metadata server may fail a request
  SetClients,     \* the clients whose attributes and extents the API sets
  AttrGets,       \* the gfids unifycr_get_file_attribute may be asked for
  ExtGets,        \* the key-pair lists unifycr_get_file_extents may be given
  MaxCalls        \* bound on the calls the main thread serves

ASSUME ConstAssumption ==
  /\ FsyncClients \subseteq Clients /\ ReadClients \subseteq Clients
  /\ SetClients \subseteq Clients
  /\ NoClient \notin Clients
  /\ MaxMeta \in Nat \ {0} /\ NumServers \in Nat \ {0} /\ RangeSize \in Nat \ {0}
  /\ MayFailKV \in BOOLEAN /\ MaxCalls \in Nat

Slots == 0 .. MaxMeta - 1
Servers == 0 .. NumServers - 1
UNIFYCR_ERROR_MDHIM == 1

\* unifycr_key_t and the records the two indexes hold.  An "ext" entry is
\* an extent (its value names the client log holding the bytes); an "attr"
\* entry is a file attribute, whose int key gfid is kept in fid.
Key == [fid : Nat, offset : Nat]
ZeroKey == [fid |-> 0, offset |-> 0]
Entry(kind, k, c, addr, len) ==
  [kind |-> kind, fid |-> k.fid, offset |-> k.offset, owner |-> c,
   addr |-> addr, len |-> len]

VARIABLES
  keys,          \* unifycr_keys[0 .. MAX_META_PER_SEND-1], shared by all calls
  primaryIndex,  \* md->primary_index: 0 = unifycr_indexes[0], 1 = [1]
  bgrm,          \* the global reply chain pointer: the replies from it on
  gets,          \* MDHIM gets issued so far (the first half of a reply's id)
  store,         \* store[i]: what index i of the KV store holds
  overflow,      \* a write past unifycr_keys or msg_meta happened
  calls,         \* calls made so far, bounded by MaxCalls
  \* fsyncs and the metadata API
  mpc,           \* where in which operation the main thread is
  fcli,          \* the client the running operation serves
  marg,          \* its gfid (attribute get/set) or request (extents get)
  fret,          \* ret of the running meta_process_fsync
  acked,         \* entries whose put returned success to the caller
  aret,          \* result of the last unifycr_get_file_attribute
  xret,          \* result of the last unifycr_get_file_extents
  \* meta_batch_get for the request manager of each client
  rpc,           \* where in meta_batch_get for r the main thread is
  rreq,          \* the requests its meta_batch_get resolves
  want,          \* extents stored in the ranges of rreq[r] when its get is issued
  got,           \* del_req_set of r: the bindings its get returned
  tot,           \* tot_num of r: the slots of msg_meta it filled
  rc             \* the rc its meta_batch_get returned

shared == <<keys, primaryIndex, bgrm, gets, store, overflow, calls>>
mainVars == <<mpc, fcli, marg, fret, acked, aret, xret>>
rmVars == <<rpc, rreq, want, got, tot, rc>>
vars == <<shared, mainVars, rmVars>>

(***************************************************************************)
(* The key order and the KV store.                                         *)
(***************************************************************************)

\* unifycr_key_compare: by fid, then by offset.
KeyCompare(a, b) ==
  IF a.fid = b.fid
  THEN IF a.offset = b.offset THEN 0 ELSE IF a.offset < b.offset THEN -1 ELSE 1
  ELSE IF a.fid < b.fid THEN -1 ELSE 1

\* The server a key is routed to: stripe fid * range_size + offset / range_size.
Shard(e) == (e.fid * RangeSize + e.offset \div RangeSize) % NumServers

\* mdhimBPut of ents into an index whose servers in failed fail: what is
\* stored, and whether a reply carries an error.
PutStored(ents, failed) == {e \in ents : Shard(e) \notin failed}
\* Mutant: only the reply of server 0 is checked for an error.
PutFailsFirstOnly(ents, failed) == \E e \in ents : Shard(e) = 0 /\ 0 \in failed
PutFails(ents, failed) == \E e \in ents : Shard(e) \in failed

\* Whether entry e of index idx lies in the closed key range [lo, hi]: the
\* extent index compares with unifycr_key_compare, the attribute index
\* compares its int keys with the leading int of the probe keys.
InRange(idx, e, lo, hi) ==
  IF idx = 0
  THEN KeyCompare(lo, [fid |-> e.fid, offset |-> e.offset]) <= 0
       /\ KeyCompare([fid |-> e.fid, offset |-> e.offset], hi) <= 0
  ELSE lo.fid <= e.fid /\ e.fid <= hi.fid

\* mdhimBGet in MDHIM_RANGE_BGET mode over the pairs (lo, hi) of probe
\* keys: a chain of one reply per server, each with its matches or with an
\* error, and with the id <<g, server>> of get number g.
RangeGet(idx, pairs, failed, g) ==
  [i \in 1 .. NumServers |->
     LET s == i - 1
     IN  [id |-> <<g, s>>, srv |-> s, err |-> s \in failed,
          ents |-> IF s \in failed THEN {}
                  ELSE {e \in store[idx] : Shard(e) = s /\
                                           \E p \in pairs : InRange(idx, e, p[1], p[2])}]]

FailedSets == IF MayFailKV THEN SUBSET Servers ELSE {{}}

(***************************************************************************)
(* What the clients hand to the delegator.                                 *)
(***************************************************************************)

\* The key and the value meta_process_fsync builds from index entry j of c.
IndexKey(c, j) == [fid |-> Index[c][j + 1].fid, offset |-> Index[c][j + 1].pos]
ExtEntries(c) ==
  { Entry("ext", IndexKey(c, j), c, Index[c][j + 1].mem, Index[c][j + 1].len)
    : j \in 0 .. Len(Index[c]) - 1 }
AttrEntries(c) ==
  { Entry("attr", [fid |-> Attrs[c][j], offset |-> 0], c, 0, 0)
    : j \in 1 .. Len(Attrs[c]) }

\* The two probe keys of request q: (fid, off) and (fid, off + len - 1).
Probe(req, j) ==
  LET q == req[j \div 2 + 1]
  IN  IF j % 2 = 0 THEN [fid |-> q.fid, offset |-> q.off]
      ELSE [fid |-> q.fid, offset |-> q.off + q.len - 1]

\* The extents of the store that lie in the ranges of req.
Wanted(S, req) ==
  {e \in S : e.kind = "ext" /\
             \E i \in 1 .. Len(req) :
               InRange(0, e, Probe(req, 2 * (i - 1)), Probe(req, 2 * (i - 1) + 1))}

Init ==
  /\ keys = [j \in Slots |-> ZeroKey]
  /\ primaryIndex = 0
  /\ bgrm = << >> /\ gets = 0
  /\ store = [i \in {0, 1} |-> IF i = 0 THEN InitExt ELSE {}]
  /\ overflow = FALSE
  /\ calls = 0
  /\ mpc = "idle" /\ fcli = NoClient /\ marg = 0 /\ fret = 0
  /\ acked = {}
  /\ aret = [rc |-> 0, gfid |-> 0, val |-> {}]
  /\ xret = [rc |-> 0, vals |-> {}, num |-> 0, want |-> {}]
  /\ rpc = [r \in Clients |-> "idle"]
  /\ rreq = [r \in Clients |-> << >>]
  /\ want = [r \in Clients |-> {}]
  /\ got = [r \in Clients |-> {}]
  /\ tot = [r \in Clients |-> 0]
  /\ rc = [r \in Clients |-> 0]

\* The main thread is between two calls: every call it started returned.
MainIdle == mpc = "idle" /\ \A r \in ReadClients : rpc[r] = "idle"

\* The main thread starts an operation for client c.
MainCall(c, op) ==
  /\ MainIdle /\ calls < MaxCalls
  /\ mpc' = op /\ fcli' = c
  /\ calls' = calls + 1

\* The main thread returns from its operation.
MainReturn == mpc' = "idle" /\ fcli' = NoClient

\* A put into the index md->primary_index names now.
PutInto(ents, failed) ==
  store' = [store EXCEPT ![primaryIndex] = @ \cup PutStored(ents, failed)]

(***************************************************************************)
(* meta_process_fsync, on the main thread.                                 *)
(***************************************************************************)

\* Lines 257-291: select index 0 and copy c's write index into the shared
\* key buffer (the values go to unifycr_vals, which only this thread writes).
FsyncFill(c) ==
  /\ MainCall(c, "put1")
  /\ primaryIndex' = 0
  /\ keys' = [j \in Slots |-> IF j < Len(Index[c]) THEN IndexKey(c, j) ELSE keys[j]]
  /\ overflow' = (overflow \/ Len(Index[c]) > MaxMeta)
  /\ fret' = 0
  /\ UNCHANGED <<bgrm, gets, store, marg, acked, aret, xret, rmVars>>

\* The extents meta_process_fsync puts: the key buffer as it is now,
\* paired with c's values.
FsyncExtents(c) ==
  { Entry("ext", keys[j], c, Index[c][j + 1].mem, Index[c][j + 1].len)
    : j \in 0 .. Len(Index[c]) - 1 }

\* Mutant: the value takes the length as its address and the reverse.
FsyncPut1Swap ==
  LET ents == { Entry("ext", keys[j], fcli, Index[fcli][j + 1].len, Index[fcli][j + 1].mem)
                : j \in 0 .. Len(Index[fcli]) - 1 }
  IN  /\ mpc = "put1"
      /\ \E failed \in FailedSets :
           /\ PutInto(ents, failed)
           /\ fret' = IF PutFails(ents, failed) THEN UNIFYCR_ERROR_MDHIM ELSE 0
      /\ mpc' = "fill2"
      /\ UNCHANGED <<keys, primaryIndex, bgrm, gets, overflow, calls,
                     fcli, marg, acked, aret, xret, rmVars>>

\* Lines 295-315: mdhimBPut of the key buffer and c's values into the
\* index md->primary_index names now; ret records any failed reply.
FsyncPut1 ==
  LET ents == FsyncExtents(fcli)
  IN  /\ mpc = "put1"
      /\ \E failed \in FailedSets :
           /\ PutInto(ents, failed)
           /\ fret' = IF PutFails(ents, failed) THEN UNIFYCR_ERROR_MDHIM ELSE 0
      /\ mpc' = "fill2"
      /\ UNCHANGED <<keys, primaryIndex, bgrm, gets, overflow, calls,
                     fcli, marg, acked, aret, xret, rmVars>>

\* Mutant: unifycr_indexes[2] selected instead of [1].
FsyncAttrFillWrongIndex ==
  /\ mpc = "fill2"
  /\ primaryIndex' = 2
  /\ mpc' = "put2"
  /\ UNCHANGED <<keys, bgrm, gets, store, overflow, calls,
                 fcli, marg, fret, acked, aret, xret, rmVars>>

\* Lines 317-337: select index 1 and copy the attributes into fattr_keys
\* and fattr_vals, which only this thread uses.
FsyncAttrFill ==
  /\ mpc = "fill2"
  /\ primaryIndex' = 1
  /\ mpc' = "put2"
  /\ UNCHANGED <<keys, bgrm, gets, store, overflow, calls,
                 fcli, marg, fret, acked, aret, xret, rmVars>>

\* Lines 339-361: mdhimBPut of the attributes into md->primary_index, and
\* the return of ret to the client: success only if both puts succeeded.
FsyncPut2 ==
  LET ents == AttrEntries(fcli)
  IN  /\ mpc = "put2"
      /\ \E failed \in FailedSets :
           /\ PutInto(ents, failed)
           /\ acked' = IF fret = 0 /\ ~PutFails(ents, failed)
                       THEN acked \cup FsyncExtents(fcli) \cup ents ELSE acked
      /\ MainReturn /\ fret' = 0
      /\ UNCHANGED <<keys, primaryIndex, bgrm, gets, overflow, calls,
                     marg, aret, xret, rmVars>>

(***************************************************************************)
(* The attribute and extent calls of the metadata API, on the main thread. *)
(* Each selects its index in md->primary_index in one statement and calls  *)
(* MDHIM with md->primary_index in the next.                               *)
(***************************************************************************)

\* A put of ents into md->primary_index that returns success or not to its
\* caller (the reply chain is walked and released by the same call).
PutAcked(ents) ==
  \E failed \in FailedSets :
    /\ PutInto(ents, failed)
    /\ acked' = IF PutFails(ents, failed) THEN acked ELSE acked \cup ents

\* unifycr_set_file_attribute, line 562 (g the gfid of fattr_ptr);
\* unifycr_set_file_attributes, line 585; unifycr_set_file_extents,
\* line 702: select the index.
SetAttrIndex(c, g) ==
  /\ MainCall(c, "setattr")
  /\ primaryIndex' = 1
  /\ marg' = g
  /\ UNCHANGED <<keys, bgrm, gets, store, overflow, fret, acked, aret, xret, rmVars>>

SetAttrsIndex(c) ==
  /\ MainCall(c, "setattrs")
  /\ primaryIndex' = 1
  /\ UNCHANGED <<keys, bgrm, gets, store, overflow, marg, fret, acked, aret, xret, rmVars>>

SetExtIndex(c) ==
  /\ MainCall(c, "setext")
  /\ primaryIndex' = 0
  /\ UNCHANGED <<keys, bgrm, gets, store, overflow, marg, fret, acked, aret, xret, rmVars>>

\* Lines 563-573: mdhimPut of gfid -> the attribute; lines 586-605 and
\* 704-725: mdhimBPut of the caller's attributes (c's attribute region) or
\* extents (c's write index).  rc is success only if no reply failed.
SetPut ==
  /\ \/ mpc = "setattr" /\ PutAcked({Entry("attr", [fid |-> marg, offset |-> 0], fcli, 0, 0)})
     \/ mpc = "setattrs" /\ PutAcked(AttrEntries(fcli))
     \/ mpc = "setext" /\ PutAcked(ExtEntries(fcli))
  /\ MainReturn
  /\ UNCHANGED <<keys, primaryIndex, bgrm, gets, overflow, calls,
                 marg, fret, aret, xret, rmVars>>

\* unifycr_get_file_attribute, line 619, and unifycr_get_file_extents,
\* line 654: select the index.
GetAttrIndex(g) ==
  /\ MainCall(NoClient, "getattr")
  /\ primaryIndex' = 1
  /\ marg' = g
  /\ UNCHANGED <<keys, bgrm, gets, store, overflow, fret, acked, aret, xret, rmVars>>

GetExtIndex(req) ==
  /\ MainCall(NoClient, "getext")
  /\ primaryIndex' = 0
  /\ marg' = req
  /\ UNCHANGED <<keys, bgrm, gets, store, overflow, fret, acked, aret, xret, rmVars>>

\* Lines 620-621: the global bgrm = mdhimGet(gfid, MDHIM_GET_EQ) on
\* md->primary_index, one reply from the server of gfid; a missing key is
\* an error reply.
GetAttrCall ==
  LET s == Shard([fid |-> marg, offset |-> 0])
      hit == {e \in store[primaryIndex] : e.fid = marg /\ Shard(e) = s}
  IN  /\ mpc = "getattr"
      /\ \E failed \in FailedSets :
           bgrm' = << [id |-> <<gets + 1, s>>, srv |-> s, err |-> s \in failed \/ hit = {},
                       ents |-> IF s \in failed THEN {} ELSE hit] >>
      /\ gets' = gets + 1
      /\ mpc' = "readattr"
      /\ UNCHANGED <<keys, primaryIndex, store, overflow, calls,
                     fcli, marg, fret, acked, aret, xret, rmVars>>

\* Mutant: a reply with an error is read as if it had a value.
GetAttrReadNoCheck ==
  /\ mpc = "readattr"
  /\ bgrm # << >>
  /\ aret' = [rc |-> 0, gfid |-> marg, val |-> Head(bgrm).ents]
  /\ MainReturn
  /\ UNCHANGED <<keys, primaryIndex, bgrm, gets, store, overflow, calls,
                 marg, fret, acked, xret, rmVars>>

\* Lines 623-635: on no reply or an error reply return the error, else copy
\* values[0]; then release the reply bgrm points to, which bgrm keeps
\* pointing to.
GetAttrRead ==
  /\ mpc = "readattr"
  /\ \/ /\ bgrm = << >>
        /\ aret' = [rc |-> UNIFYCR_ERROR_MDHIM, gfid |-> marg, val |-> {}]
     \/ /\ bgrm # << >>
        /\ \/ Head(bgrm).err /\ aret' = [rc |-> UNIFYCR_ERROR_MDHIM, gfid |-> marg, val |-> {}]
           \/ ~Head(bgrm).err /\ \E v \in Head(bgrm).ents : aret' = [rc |-> 0, gfid |-> marg, val |-> {v}]
  /\ MainReturn
  /\ UNCHANGED <<keys, primaryIndex, bgrm, gets, store, overflow, calls,
                 marg, fret, acked, xret, rmVars>>

\* Lines 655-656: the global bgrm = mdhimBGet(MDHIM_RANGE_BGET) on
\* md->primary_index with the caller's key pairs; lines 651 and 658 zero
\* rc and tot_num.  want records what the get must see.
GetExtCall ==
  LET pairs == {<<Probe(marg, 2 * i), Probe(marg, 2 * i + 1)>> : i \in 0 .. Len(marg) - 1}
  IN  /\ mpc = "getext"
      /\ \E failed \in FailedSets : bgrm' = RangeGet(primaryIndex, pairs, failed, gets + 1)
      /\ gets' = gets + 1
      /\ xret' = [rc |-> 0, vals |-> {}, num |-> 0, want |-> Wanted(store[0], marg)]
      /\ mpc' = "readext"
      /\ UNCHANGED <<keys, primaryIndex, store, overflow, calls,
                     fcli, marg, fret, acked, aret, rmVars>>

\* Lines 663-685, one pass of the loop over the reply bgrm points to now:
\* an error reply sets rc; *keyval is calloc'd anew and filled with this
\* reply's bindings, whose copy stores the length in addr (line 680) and
\* leaves len 0; bgrm moves to the next reply (this one is released);
\* tot_num++.
GetExtStep ==
  LET b == Head(bgrm)
  IN  /\ mpc = "readext" /\ bgrm # << >>
      /\ xret' = [xret EXCEPT
                    !.rc = IF b.err THEN UNIFYCR_ERROR_MDHIM ELSE @,
                    !.vals = {[e EXCEPT !.addr = e.len, !.len = 0] : e \in b.ents},
                    !.num = @ + 1]
      /\ bgrm' = Tail(bgrm)
      /\ UNCHANGED <<keys, primaryIndex, gets, store, overflow, calls, mpc, fcli, marg, fret, acked, aret, rmVars>>

\* Lines 686-690: the loop ends when bgrmp is NULL; *num_values = tot_num.
GetExtEnd ==
  /\ mpc = "readext" /\ bgrm = << >>
  /\ MainReturn
  /\ UNCHANGED <<shared, marg, fret, acked, aret, xret, rmVars>>

(***************************************************************************)
(* meta_batch_get for the request manager of client r, on the main thread. *)
(***************************************************************************)

\* Lines 390-400: two probe keys per request into unifycr_keys[2i], [2i+1].
GetFill(r, req) ==
  /\ MainIdle /\ calls < MaxCalls
  /\ keys' = [j \in Slots |-> IF j < 2 * Len(req) THEN Probe(req, j) ELSE keys[j]]
  /\ overflow' = (overflow \/ 2 * Len(req) > MaxMeta)
  /\ rpc' = [rpc EXCEPT ![r] = "index"]
  /\ rreq' = [rreq EXCEPT ![r] = req]
  /\ calls' = calls + 1
  /\ UNCHANGED <<primaryIndex, bgrm, gets, store, mainVars, want, got, tot, rc>>

\* Line 402: md->primary_index = unifycr_indexes[0].
GetIndex(r) ==
  /\ rpc[r] = "index"
  /\ primaryIndex' = 0
  /\ rpc' = [rpc EXCEPT ![r] = "call"]
  /\ UNCHANGED <<keys, bgrm, gets, store, overflow, calls, mainVars,
                 rreq, want, got, tot, rc>>

\* Lines 403-407: bgrm = mdhimBGet(md, md->primary_index, unifycr_keys, ...,
\* 2 * req_cnt, MDHIM_RANGE_BGET); rc and tot_num start at 0.  want records
\* what the get must see.
GetCall(r) ==
  LET n == Len(rreq[r])
      pairs == { <<keys[2 * i], keys[2 * i + 1]>> : i \in {i \in 0 .. n - 1 : 2 * i + 1 < MaxMeta} }
  IN  /\ rpc[r] = "call"
      /\ \E failed \in FailedSets : bgrm' = RangeGet(primaryIndex, pairs, failed, gets + 1)
      /\ gets' = gets + 1
      /\ want' = [want EXCEPT ![r] = Wanted(store[0], rreq[r])]
      /\ got' = [got EXCEPT ![r] = {}]
      /\ tot' = [tot EXCEPT ![r] = 0]
      /\ rc' = [rc EXCEPT ![r] = 0]
      /\ rpc' = [rpc EXCEPT ![r] = "loop"]
      /\ UNCHANGED <<keys, primaryIndex, store, overflow, calls, mainVars, rreq>>

GetLoopStepOverwrite(r) ==
  LET b == Head(bgrm)
  IN  /\ rpc[r] = "loop" /\ bgrm # << >>
      /\ rc' = [rc EXCEPT ![r] = IF b.err THEN UNIFYCR_ERROR_MDHIM ELSE @]
      /\ got' = [got EXCEPT ![r] = b.ents]
      /\ tot' = [tot EXCEPT ![r] = Cardinality(b.ents)]
      /\ overflow' = (overflow \/ Cardinality(b.ents) > MaxMeta)
      /\ bgrm' = Tail(bgrm)
      /\ UNCHANGED <<keys, primaryIndex, gets, store, calls, mainVars, rpc, rreq, want>>

\* Mutant: tot_num counts the replies, as unifycr_get_file_extents does.
GetLoopStepPerReply(r) ==
  LET b == Head(bgrm)
  IN  /\ rpc[r] = "loop" /\ bgrm # << >>
      /\ rc' = [rc EXCEPT ![r] = IF b.err THEN UNIFYCR_ERROR_MDHIM ELSE @]
      /\ got' = [got EXCEPT ![r] = @ \cup b.ents]
      /\ tot' = [tot EXCEPT ![r] = @ + 1]
      /\ overflow' = (overflow \/ tot[r] + 1 > MaxMeta)
      /\ bgrm' = Tail(bgrm)
      /\ UNCHANGED <<keys, primaryIndex, gets, store, calls, mainVars, rpc, rreq, want>>

\* Lines 412-450, one pass of the loop over the reply bgrm points to now:
\* an error reply sets rc; every binding goes to
\* del_req_set->msg_meta[tot_num++]; bgrm moves to the next reply and the
\* reply is released.
GetLoopStep(r) ==
  LET b == Head(bgrm)
  IN  /\ rpc[r] = "loop" /\ bgrm # << >>
      /\ rc' = [rc EXCEPT ![r] = IF b.err THEN UNIFYCR_ERROR_MDHIM ELSE @]
      /\ got' = [got EXCEPT ![r] = @ \cup b.ents]
      /\ tot' = [tot EXCEPT ![r] = @ + Cardinality(b.ents)]
      /\ overflow' = (overflow \/ tot[r] + Cardinality(b.ents) > MaxMeta)
      /\ bgrm' = Tail(bgrm)
      /\ UNCHANGED <<keys, primaryIndex, gets, store, calls, mainVars, rpc, rreq, want>>

\* Lines 451-456: the loop ends when bgrm is NULL; del_req_set->num = tot_num.
GetLoopEnd(r) ==
  /\ rpc[r] = "loop" /\ bgrm = << >>
  /\ rpc' = [rpc EXCEPT ![r] = "idle"]
  /\ UNCHANGED <<shared, mainVars, rreq, want, got, tot, rc>>

Next ==
  \/ \E c \in FsyncClients : FsyncFill(c)
  \/ FsyncPut1 \/ FsyncAttrFill \/ FsyncPut2
  \/ \E c \in SetClients :
       \/ \E j \in 1 .. Len(Attrs[c]) : SetAttrIndex(c, Attrs[c][j])
       \/ SetAttrsIndex(c) \/ SetExtIndex(c)
  \/ SetPut
  \/ \E g \in AttrGets : GetAttrIndex(g)
  \/ GetAttrCall \/ GetAttrRead
  \/ \E req \in ExtGets : GetExtIndex(req)
  \/ GetExtCall \/ GetExtStep \/ GetExtEnd
  \/ \E r \in ReadClients :
       \/ \E req \in Requests : GetFill(r, req)
       \/ GetIndex(r) \/ GetCall(r) \/ GetLoopStep(r) \/ GetLoopEnd(r)

Spec == Init /\ [][Next]_vars

(***************************************************************************)
(* Properties.                                                             *)
(***************************************************************************)

StoredEntry == [kind : {"ext", "attr"}, fid : Nat, offset : Nat,
                owner : Clients, addr : Nat, len : Nat]

ReplyId == (0 .. MaxCalls) \X Servers
Reply == [id : ReplyId, srv : Servers, err : BOOLEAN, ents : SUBSET StoredEntry]

TypeOK ==
  /\ keys \in [Slots -> Key]
  /\ primaryIndex \in {0, 1}
  /\ store \in [{0, 1} -> SUBSET StoredEntry]
  /\ bgrm \in Seq(Reply)
  /\ gets \in 0 .. MaxCalls
  /\ overflow \in BOOLEAN
  /\ mpc \in {"idle", "put1", "fill2", "put2", "setattr", "setattrs", "setext",
             "getattr", "readattr", "getext", "readext"}
  /\ fcli \in Clients \cup {NoClient}
  /\ acked \subseteq StoredEntry
  /\ aret.rc \in {0, UNIFYCR_ERROR_MDHIM} /\ xret.rc \in {0, UNIFYCR_ERROR_MDHIM}
  /\ rpc \in [Clients -> {"idle", "index", "call", "loop"}]
  /\ rc \in [Clients -> {0, UNIFYCR_ERROR_MDHIM}]
  /\ tot \in [Clients -> Nat]
  /\ calls \in 0 .. MaxCalls

\* The shapes of what the clients hand over: write index entries, gfids,
\* and the extents flushed before the model starts.
ASSUME InputAssumption ==
  /\ Index \in [Clients -> Seq([fid : Nat, pos : Nat, mem : Nat, len : Nat])]
  /\ Attrs \in [Clients -> Seq(Nat)]
  /\ InitExt \subseteq StoredEntry
  /\ AttrGets \subseteq Nat

\* Inductive strengthening of StoredAreFlushed and FlushedAreStored when
\* the main thread runs alone: every get was counted as a call (one not yet
\* issued by a started attribute or extents get too, whose gfid is one asked
\* for); between its steps an fsync still finds its keys in unifycr_keys
\* and the index it selected in md->primary_index, and its first put, if
\* it succeeded, stored all of its extents; a set call serves a client of
\* its own and has selected its index.
FlushInv ==
  /\ gets <= calls
  /\ mpc \in {"getattr", "getext"} => gets < calls
  /\ mpc = "getattr" => marg \in AttrGets
  /\ mpc \in {"put1", "fill2", "put2"} =>
       /\ fcli \in FsyncClients
       /\ \A j \in 0 .. Len(Index[fcli]) - 1 : keys[j] = IndexKey(fcli, j)
  /\ mpc = "put1" => primaryIndex = 0
  /\ mpc \in {"fill2", "put2"} /\ fret = 0 => FsyncExtents(fcli) \subseteq store[0]
  /\ mpc = "put2" => primaryIndex = 1
  /\ mpc \in {"setattr", "setattrs", "setext"} => fcli \in SetClients
  /\ mpc \in {"setattr", "setattrs"} => primaryIndex = 1
  /\ mpc = "setattr" => \E j \in 1 .. Len(Attrs[fcli]) : marg = Attrs[fcli][j]
  /\ mpc = "setext" => primaryIndex = 0

\* No thread writes past unifycr_keys (MAX_META_PER_SEND keys) or past
\* del_req_set->msg_meta (MAX_META_PER_SEND bindings).
NoOverflow == ~overflow

\* The KV store holds only what the clients flushed, each in its own index:
\* an extent of index 0 is an entry of its client's write index, an entry
\* of index 1 is an attribute of its client.
StoredAreFlushed ==
  /\ \A e \in store[0] : e \in InitExt \/ \E c \in FsyncClients \cup SetClients : e \in ExtEntries(c)
  /\ \A e \in store[1] : \E c \in FsyncClients \cup SetClients : e \in AttrEntries(c)

\* Whatever a put reported stored (an fsync, a set of attributes or of
\* extents returning success) is in the store, in its own index.
FlushedAreStored ==
  \A e \in acked : e \in store[IF e.kind = "ext" THEN 0 ELSE 1]

\* A meta_batch_get that returned success returned exactly the extents
\* that were stored in its ranges when it issued its range get (spec 4.3:
\* a get after a successful put observes the keys).
GetSeesStore ==
  \A r \in ReadClients : rpc[r] = "idle" /\ rc[r] = 0 => got[r] = want[r]

\* A unifycr_get_file_attribute that returned success copied out an
\* attribute, and the one stored under the gfid it was asked for (aret.gfid
\* is 0 before the first call).
AttrGetSees ==
  mpc = "idle" /\ aret.gfid # 0 /\ aret.rc = 0 =>
    /\ aret.val # {}
    /\ \A e \in aret.val : e \in store[1] /\ e.fid = aret.gfid

\* Inductive strengthening of AttrGetSees when the main thread runs alone:
\* the last successful attribute get stays valid through later calls, as
\* the store only grows; an attribute get has selected the attribute index
\* before its mdhimGet, and until it reads the reply, the reply bgrm points
\* to holds only stored attributes of the gfid asked for, and at least one
\* unless it is an error.
AttrInv ==
  /\ aret.gfid # 0 /\ aret.rc = 0 =>
       /\ aret.val # {}
       /\ \A e \in aret.val : e \in store[1] /\ e.fid = aret.gfid
  /\ mpc = "getattr" => primaryIndex = 1
  /\ mpc = "readattr" /\ bgrm # << >> =>
       /\ \A e \in Head(bgrm).ents : e \in store[1] /\ e.fid = marg
       /\ ~Head(bgrm).err => Head(bgrm).ents # {}

\* A unifycr_get_file_extents that returned success returned the stored
\* extents in its ranges, addresses and lengths as stored, and their number.
ExtGetSees ==
  mpc = "idle" /\ xret.rc = 0 =>
    xret.vals = xret.want /\ xret.num = Cardinality(xret.want)

\* The bindings of the replies a chain still holds, and whether none of
\* them carries an error.
ChainEnts(s) == UNION {s[i].ents : i \in 1 .. Len(s)}
ChainOk(s) == \A i \in 1 .. Len(s) : ~s[i].err

\* tot_num, the next free slot of del_req_set->msg_meta, is the number of
\* distinct extents meta_batch_get has copied, and all of them are stored
\* extents in the ranges of the requests: so the copy at line 422 runs past
\* msg_meta exactly when those ranges hold more than MAX_META_PER_SEND
\* extents, and never because a reply repeats a binding.
MsgMetaCount ==
  \A r \in ReadClients : tot[r] = Cardinality(got[r]) /\ got[r] \subseteq want[r]

\* What holds of request manager r between the steps of its meta_batch_get:
\* the probe keys are still in unifycr_keys and index 0 is still selected;
\* during its loop every binding copied to msg_meta and every binding of
\* the replies bgrm still reaches is a wanted extent, and while no reply
\* has failed, every wanted extent is among them.
ReaderInv(r) ==
  /\ rpc[r] # "idle" => rreq[r] \in Requests
  /\ rpc[r] \in {"index", "call"} =>
       \A j \in 0 .. 2 * Len(rreq[r]) - 1 : keys[j] = Probe(rreq[r], j)
  /\ rpc[r] = "call" => primaryIndex = 0
  /\ rpc[r] = "loop" =>
       /\ got[r] \cup ChainEnts(bgrm) \subseteq want[r]
       /\ rc[r] = 0 /\ ChainOk(bgrm) => want[r] \subseteq got[r] \cup ChainEnts(bgrm)
\* Inductive strengthening of GetSeesStore when one request manager runs
\* alone: the extent index holds what earlier fsyncs left, and each
\* meta_batch_get in progress is as ReaderInv says.
ReadInv == store[0] = InitExt /\ \A r \in ReadClients : ReaderInv(r)
=============================================================================
